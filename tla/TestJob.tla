------------------------------- MODULE TestJob -------------------------------
(***************************************************************************)
(* Scripts under development (cmd/ocm-backplane/testJob).  "testjob create" *)
(* posts the script of a directory to the backplane API, outside           *)
(* production; "testjob render" prints manifests for "oc apply" and "oc    *)
(* delete", all objects of which are named after the second they were      *)
(* rendered in.  oc handles the objects of a manifest one after the other, *)
(* and goes on after one that is refused.  Users on one cluster interleave. *)
(***************************************************************************)
EXTENDS Naturals, Sequences, FiniteSets

CONSTANTS
    Developers,    \* users with one script directory and one cluster each
    Scripts,
    Roles,         \* Roles[s]: the rbac.roles of metadata.yaml, in order
    ClusterRules,  \* ClusterRules[s]: its rbac.clusterRoleRules
    Envs,          \* Envs[s]: the parameters it declares, in order
    Params,        \* parameters users may give
    Rules,
    NoNamespace,   \* an empty or missing namespace or key
    MaxSeconds,    \* bound of the model: seconds that pass
    MaxRenders,    \* bound of the model: manifests rendered
    MaxRefusals    \* bound of the model: objects oc is refused

ASSUME TestJobAssumption ==
    /\ \A s \in Scripts :
          /\ Len(Roles[s]) \in Nat /\ DOMAIN Roles[s] = 1..Len(Roles[s])
          /\ \A i \in DOMAIN Roles[s] : Roles[s][i].rules \subseteq Rules
          /\ ClusterRules[s] \subseteq Rules
          /\ \A i \in DOMAIN Envs[s] : Envs[s][i].optional \in {"yes", "no", "unset"}
    /\ MaxSeconds \in Nat /\ MaxRenders \in Nat /\ MaxRefusals \in Nat

VARIABLES
    second,    \* the clock of time.Now().Unix()
    manifest,  \* manifest[u]: what user u rendered, or posted, last
    oc,        \* oc[u]: what u does with it, and the next object
    objects,   \* the objects on the cluster
    renders,   \* history: the seconds in which manifests were rendered
    refusals,  \* history: objects oc was refused
    spoilt     \* history: seconds whose manifests oc did not get through

testJobVars == <<second, manifest, oc, objects, renders, refusals, spoilt>>

-----------------------------------------------------------------------------
(* Rendering *)

NamespacesOf(s) == {Roles[s][i].ns : i \in DOMAIN Roles[s]} \ {NoNamespace}

\* The rules the metadata declares for a namespace, entries merged; those with
\* an empty namespace or without rules are skipped.
DeclaredRules(s, ns) ==
    UNION {Roles[s][i].rules : i \in {j \in DOMAIN Roles[s] : Roles[s][j].ns = ns}}

Object(kind, ns, rules) == [kind |-> kind, ns |-> ns, rules |-> rules]

\* The entries that open a namespace: its first ones with rules.
Opening(s) ==
    {i \in DOMAIN Roles[s] :
        /\ Roles[s][i].ns # NoNamespace /\ Roles[s][i].rules # {}
        /\ \A j \in 1..(i - 1) : Roles[s][j].ns = Roles[s][i].ns => Roles[s][j].rules = {}}

\* Mutant: a Role and a RoleBinding for every entry, as declared.
RolesUnmerged(s) ==
    [k \in 1..(2 * Len(Roles[s])) |->
        IF k % 2 = 1 THEN Object("Role", Roles[s][(k + 1) \div 2].ns,
                                 Roles[s][(k + 1) \div 2].rules)
                     ELSE Object("RoleBinding", Roles[s][k \div 2].ns, {})]

\* A Role and a RoleBinding per namespace, in the order they first appear.
RoleObjects(s) ==
    [k \in 1..(2 * Cardinality(Opening(s))) |->
        LET i == CHOOSE e \in Opening(s) :
                    Cardinality({f \in Opening(s) : f <= e}) = (k + 1) \div 2
            ns == Roles[s][i].ns IN
        IF k % 2 = 1 THEN Object("Role", ns, DeclaredRules(s, ns))
                     ELSE Object("RoleBinding", ns, {})]

\* renderKubeObjects: the pod comes last.
ObjectsOf(s) ==
    <<Object("ServiceAccount", NoNamespace, {})>>
    \o RoleObjects(s)
    \o (IF ClusterRules[s] = {} THEN <<>>
        ELSE <<Object("ClusterRole", NoNamespace, ClusterRules[s]),
               Object("ClusterRoleBinding", NoNamespace, {})>>)
    \o <<Object("Pod", NoNamespace, {})>>

-----------------------------------------------------------------------------
(* Parameters *)

KeysOfEnvs(s) == {Envs[s][i].key : i \in DOMAIN Envs[s]} \ {NoNamespace}

RequiredParams(s) ==
    {Envs[s][i].key : i \in {j \in DOMAIN Envs[s] : Envs[s][j].optional = "no"}}
        \ {NoNamespace}

\* validateParams of render; an entry without "optional" counts as optional.
RenderAccepts(s, params) == RequiredParams(s) \subseteq params /\ params \subseteq KeysOfEnvs(s)

\* createTestScriptFromFiles reads "optional" of every entry, and the key of the
\* required ones and of all up to the one it looks for, whether or not the
\* metadata has them: where one is missing it does not return.
CreateAccepts(s, params) ==
    /\ RenderAccepts(s, params)
    /\ \A i \in DOMAIN Envs[s] :
          /\ Envs[s][i].optional # "unset"
          /\ Envs[s][i].optional = "no" => Envs[s][i].key # NoNamespace
    /\ \A p \in params : \E i \in DOMAIN Envs[s] :
          Envs[s][i].key = p /\ \A j \in 1..(i - 1) : Envs[s][j].key # NoNamespace

-----------------------------------------------------------------------------
(* The commands *)

NoManifest == [script |-> NoNamespace, at |-> 0, params |-> {}]

Manifests == [script : Scripts \cup {NoNamespace}, at : 0..MaxSeconds, params : SUBSET Params]

TestJobTypeOK ==
    /\ second \in 0..MaxSeconds
    /\ manifest \in [Developers -> Manifests]
    /\ oc \in [Developers -> [does : {"nothing", "posted", "apply", "watch", "delete"},
                             next : Nat \ {0}]]
    /\ \A o \in objects : o.script \in Scripts /\ o.at \in 0..MaxSeconds
    /\ renders \in Seq(0..MaxSeconds) /\ Len(renders) <= MaxRenders
    /\ refusals \in 0..MaxRefusals
    /\ spoilt \subseteq 0..MaxSeconds

TestJobInit ==
    /\ second = 0
    /\ manifest = [u \in Developers |-> NoManifest]
    /\ oc = [u \in Developers |-> [does |-> "nothing", next |-> 1]]
    /\ objects = {}
    /\ renders = <<>>
    /\ refusals = 0
    /\ spoilt = {}

Second ==
    /\ second < MaxSeconds
    /\ second' = second + 1
    /\ UNCHANGED <<manifest, oc, objects, renders, refusals, spoilt>>

Takes(u, s, params, does) ==
    /\ oc[u].does = "nothing"
    /\ manifest' = [manifest EXCEPT ![u] = [script |-> s, at |-> second, params |-> params]]
    /\ oc' = [oc EXCEPT ![u] = [does |-> does, next |-> 1]]
    /\ UNCHANGED <<second, objects, refusals, spoilt>>

\* runCreateTestJob, in an environment other than production and for a cluster
\* that does not hibernate: the server runs the script.
CreateTestJob(u, s, params) ==
    /\ CreateAccepts(s, params)
    /\ Takes(u, s, params, "posted")
    /\ UNCHANGED renders

\* runRender: the script is read, its parameters are checked and, unless it is
\* given, the image is asked for at GitHub; any failure leaves no manifest.
Render(u, s, params) ==
    /\ Len(renders) < MaxRenders
    /\ RenderAccepts(s, params)
    /\ Takes(u, s, params, "apply")
    /\ renders' = Append(renders, second)

-----------------------------------------------------------------------------
(* oc apply -f and oc delete -f *)

Remaining(u) == oc[u].next <= Len(ObjectsOf(manifest[u].script))

NextObject(u) == ObjectsOf(manifest[u].script)[oc[u].next]

\* An object on the cluster: its kind, namespace and name say which it is.
IsThe(o, x, t) == o.kind = x.kind /\ o.ns = x.ns /\ o.at = t

Advance(u) ==
    /\ oc' = [oc EXCEPT ![u].next = @ + 1]
    /\ UNCHANGED <<second, manifest, renders>>

\* The object replaces the one of its name; a pod cannot be changed.
ApplyObject(u) ==
    /\ oc[u].does = "apply" /\ Remaining(u)
    /\ LET x == NextObject(u)
           t == manifest[u].at
           old == {o \in objects : IsThe(o, x, t)} IN
       /\ x.kind = "Pod" => old = {}
       /\ objects' = (objects \ old) \cup
             {[kind |-> x.kind, ns |-> x.ns, rules |-> x.rules, at |-> t,
               script |-> manifest[u].script, params |-> manifest[u].params]}
    /\ Advance(u)
    /\ UNCHANGED <<refusals, spoilt>>

DeleteObject(u) ==
    /\ oc[u].does = "delete" /\ Remaining(u)
    /\ objects' = {o \in objects : ~IsThe(o, NextObject(u), manifest[u].at)}
    /\ Advance(u)
    /\ UNCHANGED <<refusals, spoilt>>

\* The cluster refuses the object, or does not answer; oc takes the next one.
ObjectRefused(u) ==
    /\ oc[u].does \in {"apply", "delete"} /\ Remaining(u)
    /\ refusals < MaxRefusals
    /\ refusals' = refusals + 1
    /\ spoilt' = spoilt \cup {manifest[u].at}
    /\ Advance(u)
    /\ UNCHANGED objects

\* oc is done, or stopped in the middle.
OcEnds(u) ==
    /\ oc[u].does \in {"apply", "delete"}
    /\ spoilt' = IF Remaining(u) THEN spoilt \cup {manifest[u].at} ELSE spoilt
    /\ oc' = [oc EXCEPT ![u] = [does |-> IF @.does = "apply" THEN "watch" ELSE "nothing",
                                next |-> 1]]
    /\ UNCHANGED <<second, manifest, objects, renders, refusals>>

StartOcDelete(u) ==
    /\ oc[u].does = "watch"
    /\ oc' = [oc EXCEPT ![u].does = "delete"]
    /\ UNCHANGED <<second, manifest, objects, renders, refusals, spoilt>>

TestJobNext ==
    \/ Second
    \/ \E u \in Developers, s \in Scripts, params \in SUBSET Params :
         CreateTestJob(u, s, params) \/ Render(u, s, params)
    \/ \E u \in Developers : \/ ApplyObject(u) \/ DeleteObject(u) \/ ObjectRefused(u)
                             \/ OcEnds(u) \/ StartOcDelete(u)

TestJobSpec == TestJobInit /\ [][TestJobNext]_testJobVars

-----------------------------------------------------------------------------
(* Properties *)

Has(kind, ns, t) == \E o \in objects : o.kind = kind /\ o.ns = ns /\ o.at = t

\* What the service account named after second t may do in a namespace; with
\* NoNamespace, everywhere.
GrantedRules(t, ns) ==
    LET role == IF ns = NoNamespace THEN "ClusterRole" ELSE "Role"
        binding == IF ns = NoNamespace THEN "ClusterRoleBinding" ELSE "RoleBinding" IN
    IF Has("ServiceAccount", NoNamespace, t) /\ Has(binding, ns, t)
      THEN UNION {o.rules : o \in {p \in objects : p.kind = role /\ p.ns = ns /\ p.at = t}}
      ELSE {}

DeclaredFor(s, ns) == IF ns = NoNamespace THEN ClusterRules[s] ELSE DeclaredRules(s, ns)

RenderedAlone(t) == Cardinality({i \in DOMAIN renders : renders[i] = t}) = 1

\* As long as nobody rendered in the same second, a service account never has a
\* right its script does not declare, and a pod has all those it declares, and
\* its required parameters, until oc is refused something or deletes the
\* manifest (renderTestJob.go:184-187, 195-240).
PodsHaveTheirRights ==
    \A o \in objects :
        RenderedAlone(o.at) =>
            \A ns \in NamespacesOf(o.script) \cup {NoNamespace} :
                /\ GrantedRules(o.at, ns) \subseteq DeclaredFor(o.script, ns)
                /\ o.kind = "Pod" =>
                      \/ /\ GrantedRules(o.at, ns) = DeclaredFor(o.script, ns)
                         /\ RequiredParams(o.script) \subseteq o.params
                      \/ o.at \in spoilt
                      \/ \E u \in Developers : manifest[u].at = o.at /\ oc[u].does = "delete"
=============================================================================
