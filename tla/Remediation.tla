----------------------------- MODULE Remediation -----------------------------
(***************************************************************************)
(* "ocm backplane remediation create" and "delete" (cmd/ocm-backplane/     *)
(* remediation/remediation.go, pkg/remediation).  The backplane API makes  *)
(* an instance with a service account on the cluster; the command then     *)
(* looks the cluster up a second time, writes a context for the instance   *)
(* to the kubeconfig and, however it returns, prints the instance's id,    *)
(* without which nobody can delete it.  Users, requests that are answered  *)
(* or not, Ctrl-C and logins on the same kubeconfig interleave.            *)
(***************************************************************************)
EXTENDS OcmQueries

CONSTANTS
    Operators,         \* users at their terminals; they share a kubeconfig
    Instances,         \* remediation instances the API may make
    Installing,        \* clusters without an external id: the empty key matches
    RemediationKeys    \* bound of the model: --cluster-id, Nothing if not given

ASSUME RemediationAssumption ==
    /\ Installing \subseteq Fleet
    /\ RemediationKeys \subseteq Keys \cup {Nothing}
    /\ Nothing \notin Instances \cup Keys
    /\ Instances \cap Fleet = {}

VARIABLES
    instances,  \* instances[i]: the cluster it was made for, and if it is there
    contexts,   \* the kubeconfig: what the context named n reaches, the current
    work,       \* work[u]: the command user u runs and what it has in memory
    informed,   \* instances whose id was printed
    orphaned    \* history: no answer reached the command, or it was killed

remediationVars == <<instances, contexts, work, informed, orphaned>>

Kubeconfigs == [reaches : [Names -> Fleet \cup Instances \cup {Nothing}],
                current : Names \cup {Nothing}]

NoContexts == [reaches |-> [n \in Names |-> Nothing], current |-> Nothing]

AtRest == [step |-> "rest", key |-> Nothing, cluster |-> Nothing,
           instance |-> Nothing, rc |-> NoContexts]

RemediationTypeOK ==
    /\ instances \in [Instances -> [of : Fleet \cup {Nothing}, there : BOOLEAN]]
    /\ contexts \in Kubeconfigs
    /\ work \in [Operators -> [step : {"rest", "create", "lookup", "save", "delete"},
                               key : RemediationKeys \cup {Nothing},
                               cluster : Fleet \cup {Nothing},
                               instance : Instances \cup {Nothing},
                               rc : Kubeconfigs]]
    /\ informed \subseteq Instances
    /\ orphaned \subseteq Instances

RemediationInit ==
    /\ instances = [i \in Instances |-> [of |-> Nothing, there |-> FALSE]]
    /\ contexts = NoContexts
    /\ work = [u \in Operators |-> AtRest]
    /\ informed = {}
    /\ orphaned = {}

-----------------------------------------------------------------------------
\* GetBackplaneCluster: by the key, or from the URL of the current context,
\* which for an instance names its cluster, if it names one.
ClustersOf(key) ==
    IF key # Nothing THEN Matches[key]
    ELSE IF contexts.current = Nothing THEN {}
    ELSE LET x == contexts.reaches[contexts.current] IN
         IF x \in Instances THEN {instances[x].of} ELSE {x} \ {Nothing}

Starts(u, step, key, i) ==
    /\ work[u].step = "rest"
    /\ \E c \in ClustersOf(key) :
          work' = [work EXCEPT ![u] = [AtRest EXCEPT !.step = step, !.key = key,
                                                     !.cluster = c, !.instance = i]]
    /\ UNCHANGED <<instances, contexts, informed, orphaned>>

\* The command of u is over; whatever instance it made, its id is printed.
EndsAndTells(u) ==
    /\ work' = [work EXCEPT ![u] = AtRest]
    /\ informed' = informed \cup ({work[u].instance} \ {Nothing})

StartCreate(u, key) == Starts(u, "create", key, Nothing)

\* CreateRemediation at the server, for the cluster of u's command.
Made(u, i) ==
    /\ work[u].step = "create"
    /\ instances[i].of = Nothing
    /\ instances' = [instances EXCEPT ![i] = [of |-> work[u].cluster, there |-> TRUE]]

CreateRemediation(u, i) ==
    /\ Made(u, i)
    /\ work' = [work EXCEPT ![u].step = "lookup", ![u].instance = i]
    /\ UNCHANGED <<contexts, informed, orphaned>>

\* The answer is lost, or cannot be parsed: an error, although there is one.
CreateAnswerLost(u, i) ==
    /\ Made(u, i)
    /\ work' = [work EXCEPT ![u] = AtRest]
    /\ orphaned' = orphaned \cup {i}
    /\ UNCHANGED <<contexts, informed>>

\* GetTargetCluster with the key once more, so that a user with several matches
\* chooses again, and, without a key, for what the empty key matches.  Then the
\* kubeconfig is read, and the context of the cluster found put into it.
LookUpAgain(u) ==
    /\ work[u].step = "lookup"
    /\ \E c \in IF work[u].key = Nothing THEN Installing
                                             ELSE Matches[work[u].key] :
          work' = [work EXCEPT ![u].step = "save", ![u].rc =
                     [reaches |-> [contexts.reaches EXCEPT ![NameOf[c]] = work[u].instance],
                      current |-> NameOf[c]]]
    /\ UNCHANGED <<instances, contexts, informed, orphaned>>

\* SaveKubeConfig overwrites what others wrote since.
SaveContext(u) ==
    /\ work[u].step = "save"
    /\ contexts' = work[u].rc
    /\ EndsAndTells(u)
    /\ UNCHANGED <<instances, orphaned>>

\* Mutant: the id is printed at the end only, not by a deferred function.
FailsWithoutTelling(u) ==
    /\ work[u].step # "rest"
    /\ work' = [work EXCEPT ![u] = AtRest]
    /\ UNCHANGED <<instances, contexts, informed, orphaned>>

\* Any step fails; the deferred function still prints the id.
Fails(u) ==
    /\ work[u].step \in {"create", "lookup", "save"}
    /\ EndsAndTells(u)
    /\ UNCHANGED <<instances, contexts, orphaned>>

\* Ctrl-C: deferred functions do not run.
Interrupted(u) ==
    /\ work[u].step \in {"create", "lookup", "save"}
    /\ work' = [work EXCEPT ![u] = AtRest]
    /\ orphaned' = orphaned \cup ({work[u].instance} \ {Nothing})
    /\ UNCHANGED <<instances, contexts, informed>>

\* A user deletes an instance by the id that was printed.
StartDelete(u, key, i) == i \in informed /\ Starts(u, "delete", key, i)

\* DeleteRemediation.  The API knows the instance on its own cluster only; with
\* an answer or without, the command ends, and the context stays as it is.
DeleteRemediation(u) ==
    /\ work[u].step = "delete"
    /\ \/ /\ instances[work[u].instance].of = work[u].cluster
          /\ instances' = [instances EXCEPT ![work[u].instance].there = FALSE]
       \/ UNCHANGED instances
    /\ work' = [work EXCEPT ![u] = AtRest]
    /\ UNCHANGED <<contexts, informed, orphaned>>

\* A login on the same kubeconfig.
OtherLogin(c) ==
    /\ contexts' = [reaches |-> [contexts.reaches EXCEPT ![NameOf[c]] = c],
                    current |-> NameOf[c]]
    /\ UNCHANGED <<instances, work, informed, orphaned>>

RemediationNext ==
    \/ \E u \in Operators :
         \/ \E key \in RemediationKeys :
               \/ StartCreate(u, key)
               \/ \E i \in Instances : StartDelete(u, key, i)
         \/ \E i \in Instances : CreateRemediation(u, i) \/ CreateAnswerLost(u, i)
         \/ LookUpAgain(u) \/ SaveContext(u) \/ Fails(u) \/ Interrupted(u)
         \/ DeleteRemediation(u)
    \/ \E key \in RemediationKeys \ {Nothing} : \E c \in Matches[key] : OtherLogin(c)

RemediationSpec == RemediationInit /\ [][RemediationNext]_remediationVars

-----------------------------------------------------------------------------
(* Properties *)

\* An instance holds rights on a cluster until somebody deletes it, for which
\* its id is needed: each instance there is one whose id was printed, or whose
\* command is still at work, whatever failed after it was made and whoever wrote
\* the kubeconfig meanwhile (remediation.go:155-158); only an answer that never
\* came and Ctrl-C leave one that nobody knows.
InstancesAreKnown ==
    \A i \in Instances :
        instances[i].there =>
            \/ i \in informed \cup orphaned
            \/ \E u \in Operators : work[u].instance = i
=============================================================================
