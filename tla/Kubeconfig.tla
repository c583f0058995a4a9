------------------------------ MODULE Kubeconfig ------------------------------
(***************************************************************************)
(* The kubeconfig files that login, logout and elevate read, change in     *)
(* memory and write back (cmd/ocm-backplane/login, cmd/ocm-backplane/logout, *)
(* pkg/login/kubeConfig.go, pkg/elevate).  Each terminal runs one command  *)
(* at a time; terminals that share a file interleave.  A file is what a    *)
(* reader sees of it: a missing file reads as the empty configuration.     *)
(* ModifyConfig and WriteToFile of client-go are modelled by their effect, *)
(* the file becoming, in one step, what the command holds in memory; that  *)
(* login --multi empties the file first is a step of its own.              *)
(***************************************************************************)
EXTENDS Integers

CONSTANTS
    Clusters,      \* clusters to log into; each has a context named after it
    Foreign,       \* a context some other tool put in the default kubeconfig
    Default,       \* the default kubeconfig file
    Terminals,
    Reasons,       \* elevation reasons
    None,          \* no current context, no reason
    Retention,     \* ticks an elevation reason lives on after its last use
    MaxTime,       \* bound on the clock
    MaxCommands    \* bound on the commands run

ASSUME KubeconfigAssumption ==
    /\ Foreign \notin Clusters /\ Default \notin Clusters
    /\ None \notin Clusters \cup {Foreign} \cup Reasons
    /\ Retention \in Nat /\ MaxTime \in Nat /\ MaxCommands \in Nat

VARIABLES
    disk,      \* disk[f]: the content of kubeconfig file f
    env,       \* env[t]: the file $KUBECONFIG names in terminal t
    cmd,       \* cmd[t]: the command terminal t runs and what it has in memory
    now,       \* the clock
    lastUsed,  \* history: when a reason was last put to use for a context
    left       \* how many commands may still be run

vars == <<disk, env, cmd, now, lastUsed, left>>

Contexts == Clusters \cup {Foreign}
Files    == Clusters \cup {Default}
Users    == {"sre", "other"}

\* All clusters are accessed as the one user the OCM token names.
UserOf(x) == IF x = Foreign THEN "other" ELSE "sre"

NoElevation == [reasons |-> {}, at |-> 0]
Elevation   == [reasons : SUBSET Reasons, at : 0..MaxTime]

Config == [ctxs    : SUBSET Contexts,
           users   : SUBSET Users,
           current : Contexts \cup {None},
           elev    : [Contexts -> Elevation],   \* the ElevateContext extensions
           impersonating : SUBSET Users]        \* users set to impersonate

EmptyConfig == [ctxs |-> {}, users |-> {}, current |-> None,
                elev |-> [x \in Contexts |-> NoElevation], impersonating |-> {}]

ForeignConfig == [EmptyConfig EXCEPT !.ctxs = {Foreign}, !.users = {"other"},
                                     !.current = Foreign]

Idle == [op |-> "none", pc |-> "idle", rc |-> EmptyConfig, given |-> None,
         target |-> None, multi |-> FALSE, runs |-> FALSE]

Command == [op     : {"none", "login", "logout", "elevate"},
            pc     : {"idle", "compute", "prompt", "saveReason", "save",
                      "write", "impersonate", "running"},
            rc     : Config,                    \* the configuration in memory
            given  : Reasons \cup {None},       \* the reason the user gave
            target : Clusters \cup {None},
            multi  : BOOLEAN,                   \* --multi
            runs   : BOOLEAN]                   \* elevate has an oc command to run

TypeOK ==
    /\ disk \in [Files -> Config]
    /\ env \in [Terminals -> Files]
    /\ cmd \in [Terminals -> Command]
    /\ now \in 0..MaxTime
    /\ lastUsed \in [Contexts -> [Reasons -> 0..MaxTime]]
    /\ left \in 0..MaxCommands

Init ==
    /\ disk \in {[f \in Files |-> EmptyConfig],
                 [f \in Files |-> IF f = Default THEN ForeignConfig
                                                 ELSE EmptyConfig]}
    /\ env = [t \in Terminals |-> Default]
    /\ cmd = [t \in Terminals |-> Idle]
    /\ now = IF Retention < MaxTime THEN Retention + 1 ELSE MaxTime
    /\ lastUsed = [x \in Contexts |-> [r \in Reasons |-> 0]]
    /\ left = MaxCommands

-----------------------------------------------------------------------------
(* What the commands do to the configuration they hold in memory *)

\* Mutant: the context logged into is made current only if there is none.
PutWithoutSwitching(rc, c) ==
    [rc EXCEPT !.ctxs = @ \cup {c}, !.users = @ \cup {"sre"},
               !.current = IF @ = None THEN c ELSE @,
               !.elev[c] = NoElevation, !.impersonating = @ \ {"sre"}]

\* Login puts a new cluster, user and context, without extensions.
PutCluster(rc, c) ==
    [rc EXCEPT !.ctxs = @ \cup {c}, !.users = @ \cup {"sre"}, !.current = c,
               !.elev[c] = NoElevation, !.impersonating = @ \ {"sre"}]

\* Logout deletes the current context, its cluster and its user.
DropCurrent(rc) ==
    [rc EXCEPT !.ctxs = @ \ {rc.current}, !.users = @ \ {UserOf(rc.current)},
               !.elev[rc.current] = NoElevation, !.current = None,
               !.impersonating = @ \ {UserOf(rc.current)}]

\* Mutant: stored reasons do not expire.
StoredReasonsForever(rc) == rc.elev[rc.current].reasons

\* GetElevateContextReasons: those of the current context, if recently used.
StoredReasons(rc) ==
    IF now - rc.elev[rc.current].at <= Retention
      THEN rc.elev[rc.current].reasons
      ELSE {}

\* Mutant: the context is stamped with the time its reasons expire.
StoreExpiry(rc, reasons) ==
    [rc EXCEPT !.elev[rc.current] = [reasons |-> reasons, at |-> now + Retention]]

\* The ElevateContext of the current context is stamped with the time.
StoreReasons(rc, reasons) ==
    [rc EXCEPT !.elev[rc.current] = [reasons |-> reasons, at |-> now]]

-----------------------------------------------------------------------------
(* The commands *)

Starts(t, c) ==
    /\ cmd[t].pc = "idle"
    /\ left > 0
    /\ left' = left - 1
    /\ cmd' = [cmd EXCEPT ![t] = c]
    /\ UNCHANGED <<disk, env, now, lastUsed>>

\* runLogin, from the reading of the kubeconfig on.  A login by a PagerDuty
\* incident or a Jira issue brings a reason, the page of that incident or issue.
Login(t, c, multi, reason) ==
    Starts(t, [op |-> "login", pc |-> IF reason = None THEN "save" ELSE "compute",
               rc |-> PutCluster(disk[env[t]], c), given |-> reason,
               target |-> c, multi |-> multi, runs |-> FALSE])

\* Mutant: logout takes any current context for one of backplane's.
LogoutAnything(t) ==
    LET rc == disk[env[t]] IN
    /\ rc.current # None
    /\ Starts(t, [Idle EXCEPT !.op = "logout", !.pc = "save",
                              !.rc = DropCurrent(rc)])

\* runLogout without argument; it refuses a context that is not backplane's.
Logout(t) ==
    LET rc == disk[env[t]] IN
    /\ rc.current \in rc.ctxs
    /\ rc.current # Foreign
    /\ Starts(t, [Idle EXCEPT !.op = "logout", !.pc = "save",
                              !.rc = DropCurrent(rc)])

\* runLogout of a named cluster: RemoveClusterKubeConfig.
LogoutCluster(t, c) ==
    /\ cmd[t].pc = "idle"
    /\ left > 0
    /\ left' = left - 1
    /\ disk' = [disk EXCEPT ![c] = EmptyConfig]
    /\ UNCHANGED <<env, cmd, now, lastUsed>>

\* RunElevate; without a current context it fails.
Elevate(t, reason, runs) ==
    LET rc == disk[env[t]] IN
    /\ rc.current \in rc.ctxs
    /\ Starts(t, [Idle EXCEPT !.op = "elevate", !.pc = "compute", !.rc = rc,
                              !.given = reason, !.runs = runs])

Given(reason) == {reason} \ {None}

\* SaveElevateContextReasons adds the given reason to the stored ones.
ComputeReasons(t) ==
    /\ cmd[t].pc = "compute"
    /\ LET rc == cmd[t].rc
           reasons == StoredReasons(rc) \cup Given(cmd[t].given) IN
       cmd' = IF reasons = {}
                THEN [cmd EXCEPT ![t].pc = "prompt"]
                ELSE [cmd EXCEPT ![t].pc = "saveReason",
                                 ![t].rc = StoreReasons(rc, reasons)]
    /\ UNCHANGED <<disk, env, now, lastUsed, left>>

\* Without any, the user is asked; no answer, or no terminal to ask on, is an
\* error (Abort).
AnswerPrompt(t, reason) ==
    /\ cmd[t].pc = "prompt"
    /\ cmd' = [cmd EXCEPT ![t].pc = "saveReason", ![t].given = reason,
                          ![t].rc = StoreReasons(cmd[t].rc, {reason})]
    /\ UNCHANGED <<disk, env, now, lastUsed, left>>

Later(i, j) == IF i < j THEN j ELSE i

\* Its ModifyConfig, of the terminal's kubeconfig even when login has --multi.
SaveReasons(t) ==
    /\ cmd[t].pc = "saveReason"
    /\ LET rc == cmd[t].rc
           elev == rc.elev[rc.current] IN
       /\ disk' = [disk EXCEPT ![env[t]] = rc]
       /\ lastUsed' = [lastUsed EXCEPT ![rc.current] =
             [r \in Reasons |-> IF r \in elev.reasons THEN Later(@[r], elev.at)
                                                      ELSE @[r]]]
    /\ cmd' = IF cmd[t].op = "login" THEN [cmd EXCEPT ![t].pc = "save"]
              ELSE IF cmd[t].runs THEN [cmd EXCEPT ![t].pc = "impersonate"]
              ELSE [cmd EXCEPT ![t] = Idle]
    /\ UNCHANGED <<env, now, left>>

\* CreateClusterKubeConfig of a login --multi: os.Create leaves an empty file.
CreateFile(t) ==
    /\ cmd[t].pc = "save" /\ cmd[t].multi
    /\ disk' = [disk EXCEPT ![cmd[t].target] = EmptyConfig]
    /\ cmd' = [cmd EXCEPT ![t].pc = "write"]
    /\ UNCHANGED <<env, now, lastUsed, left>>

\* SaveKubeConfig, the end of a login, and the ModifyConfig of logout.  After a
\* login --multi the user may export the file it names.
SaveKubeConfig(t) ==
    /\ cmd[t].pc = IF cmd[t].multi THEN "write" ELSE "save"
    /\ IF cmd[t].multi
         THEN /\ disk' = [disk EXCEPT ![cmd[t].target] = cmd[t].rc]
              /\ env' \in {env, [env EXCEPT ![t] = cmd[t].target]}
         ELSE /\ disk' = [disk EXCEPT ![env[t]] = cmd[t].rc]
              /\ UNCHANGED env
    /\ cmd' = [cmd EXCEPT ![t] = Idle]
    /\ UNCHANGED <<now, lastUsed, left>>

\* Mutant: oc is run with the terminal's own kubeconfig.
ImpersonateInPlace(t) ==
    LET rc == [cmd[t].rc EXCEPT
                  !.impersonating = @ \cup {UserOf(cmd[t].rc.current)}] IN
    /\ cmd[t].pc = "impersonate"
    /\ cmd' = [cmd EXCEPT ![t].pc = "running", ![t].rc = rc]
    /\ disk' = [disk EXCEPT ![env[t]] = rc]
    /\ UNCHANGED <<env, now, lastUsed, left>>

\* AddElevationReasonsToRawKubeconfig and the temporary kubeconfig oc is run
\* with; it fails when the user is no longer there (Abort).
Impersonate(t) ==
    LET rc == cmd[t].rc IN
    /\ cmd[t].pc = "impersonate"
    /\ UserOf(rc.current) \in rc.users
    /\ cmd' = [cmd EXCEPT ![t].pc = "running",
                          ![t].rc.impersonating = @ \cup {UserOf(rc.current)}]
    /\ UNCHANGED <<disk, env, now, lastUsed, left>>

\* oc ends; the temporary kubeconfig is removed and $KUBECONFIG restored.
OcEnds(t) ==
    /\ cmd[t].pc = "running"
    /\ cmd' = [cmd EXCEPT ![t] = Idle]
    /\ UNCHANGED <<disk, env, now, lastUsed, left>>

\* The command fails where it is, or is interrupted.
Abort(t) ==
    /\ cmd[t].pc # "idle"
    /\ cmd' = [cmd EXCEPT ![t] = Idle]
    /\ UNCHANGED <<disk, env, now, lastUsed, left>>

Tick ==
    /\ now < MaxTime
    /\ now' = now + 1
    /\ UNCHANGED <<disk, env, cmd, lastUsed, left>>

Next ==
    \/ \E t \in Terminals :
         \/ \E c \in Clusters :
              \/ \E multi \in BOOLEAN, r \in Reasons \cup {None} :
                    Login(t, c, multi, r)
              \/ LogoutCluster(t, c)
         \/ \E r \in Reasons \cup {None}, runs \in BOOLEAN : Elevate(t, r, runs)
         \/ \E r \in Reasons : AnswerPrompt(t, r)
         \/ Logout(t) \/ ComputeReasons(t) \/ SaveReasons(t)
         \/ CreateFile(t) \/ SaveKubeConfig(t) \/ Impersonate(t) \/ OcEnds(t)
         \/ Abort(t)
    \/ Tick

Spec == Init /\ [][Next]_vars

-----------------------------------------------------------------------------
(* Properties *)

\* Whatever commands interleave on a file, its current context is one it has:
\* deleting a context unsets it, switching to one adds it (logout.go:83-91,
\* login.go:412-415).
CurrentContextExists ==
    \A f \in Files : disk[f].current # None => disk[f].current \in disk[f].ctxs

\* Impersonation is for the one oc command: it is in the temporary kubeconfig
\* only, never in a file other commands read, although both are written from
\* the same configuration in memory (elevate.go:39-77).
NoImpersonationOnDisk == \A f \in Files : disk[f].impersonating = {}

\* An elevation has a reason, and each is the one just given or was last used
\* for this very context within the retention time, whichever terminal and
\* command used it (kubeConfig.go:191, README "valid only for the cluster").
ElevatesOnlyWithLiveReasons ==
    [][\A t \in Terminals :
         (cmd[t].pc \in {"compute", "prompt"} /\ cmd'[t].pc = "saveReason") =>
            LET x == cmd[t].rc.current
                reasons == cmd'[t].rc.elev[x].reasons IN
            /\ reasons # {}
            /\ \A r \in reasons : \/ r = cmd'[t].given
                                   \/ now - lastUsed[x][r] <= Retention]_vars

\* Backplane handles only the contexts it made: no sequence or interleaving of
\* its commands loses another tool's context or user (logout.go:64-76).
ForeignContextSurvives ==
    [][(Foreign \in disk[Default].ctxs) =>
          /\ Foreign \in disk'[Default].ctxs
          /\ "other" \in disk'[Default].users]_vars

\* A terminal working on a cluster through that cluster's own kubeconfig is not
\* switched to another cluster by what other terminals do; it can only be logged
\* out, by a logout or for as long as a login to its cluster writes the file, for
\* good if that is interrupted (README "Login to multiple clusters").
MultiTerminalsAreIsolated ==
    [][\A t, u \in Terminals :
          LET c == env[t] IN
          (/\ env[u] # c /\ cmd'[u] # cmd[u]
           /\ c \in Clusters /\ disk[c].current = c)
              => disk'[c] = EmptyConfig \/ disk'[c].current = c]_vars

\* "the reason will be kept for 20min after its last usage" (README.md:348), as
\* long as its context is there.
ReasonsAreKept ==
    [][\A f \in Files, x \in Contexts :
          LET e == disk[f].elev[x] IN
          (now - e.at <= Retention /\ x \in disk'[f].ctxs)
              => e.reasons \subseteq disk'[f].elev[x].reasons]_vars

\* Logout removes "the current kubeconfig context" and "the reference to the
\* current cluster" (logout.go:21-23): every other context stays usable.
ContextsKeepTheirUser ==
    \A f \in Files : \A x \in disk[f].ctxs : UserOf(x) \in disk[f].users
=============================================================================
