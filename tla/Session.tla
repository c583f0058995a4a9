------------------------------- MODULE Session -------------------------------
(***************************************************************************)
(* ocm-backplane session (pkg/cli/session/session.go): a session is a      *)
(* directory named by its alias, made anew by every session command, in    *)
(* which a shell is started.  The terminals of this module use one alias;  *)
(* sessions of different aliases share nothing.                            *)
(***************************************************************************)
EXTENDS Sequences, Naturals

CONSTANTS
    Terminals,
    Clusters

NoCluster == "none"

VARIABLES
    files,  \* names in the session's directory, itself the name "."
    ocenv,  \* the cluster .ocenv sets KUBECONFIG to; NoCluster while it is empty
    pc,     \* what a terminal does next
    asked,  \* the cluster its command was given
    made,   \* how many of the files of a session it has come past
    found,  \* os.Stat found the next one
    open,   \* the .ocenv it has created is still the one in the directory
    shell,  \* the cluster its shell works on
    alone   \* history: no other command has worked on the directory meanwhile

terminals == <<pc, asked, made, found, open, shell>>
vars == <<files, ocenv, terminals, alone>>

\* The files Setup makes, in its order; "bin" is the directory with both scripts.
SetupFiles == <<"bin", ".history", ".ocenv", ".zshenv">>

\* A cluster names the directory its kubeconfig is in.
Names == {"."} \cup {SetupFiles[i] : i \in 1..Len(SetupFiles)} \cup Clusters

Working == {"delete", "directory", "stat", "create", "write", "login", "start"}

TypeOK ==
    /\ files \subseteq Names /\ (files # {} => "." \in files)
    /\ ocenv \in Clusters \cup {NoCluster}
    /\ pc \in [Terminals -> {"idle", "remove", "shell"} \cup Working]
    /\ asked \in [Terminals -> Clusters \cup {NoCluster}]
    /\ made \in [Terminals -> 0..Len(SetupFiles)]
    /\ found \in [Terminals -> BOOLEAN]
    /\ open \in [Terminals -> BOOLEAN]
    /\ shell \in [Terminals -> Clusters \cup {NoCluster}]
    /\ alone \in [Terminals -> BOOLEAN]

\* A session may be there from before, with any cluster.
Init ==
    /\ \/ files = {} /\ ocenv = NoCluster
       \/ \E c \in Clusters : files = (Names \ Clusters) \cup {c} /\ ocenv = c
    /\ pc = [t \in Terminals |-> "idle"]
    /\ asked = [t \in Terminals |-> NoCluster]
    /\ made = [t \in Terminals |-> 0]
    /\ found = [t \in Terminals |-> FALSE]
    /\ open = [t \in Terminals |-> FALSE]
    /\ shell = [t \in Terminals |-> NoCluster]
    /\ alone = [t \in Terminals |-> FALSE]

Step(t, from, to) ==
    /\ pc[t] = from
    /\ pc' = [pc EXCEPT ![t] = to]

Busy(t) == pc[t] \in Working \cup {"remove"}

-----------------------------------------------------------------------------

\* RunCommand up to Delete: the cluster is looked up, or is the managing or service
\* cluster of the one given, and the path put together.
RunCommand(t, c, to) ==
    /\ Step(t, "idle", to)
    /\ asked' = [asked EXCEPT ![t] = c]
    /\ made' = [made EXCEPT ![t] = 0]
    /\ alone' = [u \in Terminals |-> IF u = t THEN \A w \in Terminals : ~Busy(w)
                                              ELSE FALSE]
    /\ UNCHANGED <<files, ocenv, found, open, shell>>

\* Delete: what cannot be removed is reported and forgotten.  A file created by
\* another terminal and removed here is written to no purpose.
Delete(t, left) ==
    /\ \/ Step(t, "delete", "directory")
       \/ Step(t, "remove", "idle")
    /\ left \subseteq files /\ (left # {} => "." \in left)
    /\ files' = left
    /\ open' = [u \in Terminals |-> open[u] /\ ".ocenv" \in left]
    /\ ocenv' = IF ".ocenv" \in left THEN ocenv ELSE NoCluster
    /\ UNCHANGED <<asked, made, found, shell, alone>>

EnsureEnvDir(t) ==
    /\ Step(t, "directory", "stat")
    /\ files' = files \cup {"."}
    /\ UNCHANGED <<ocenv, asked, made, found, open, shell, alone>>

NextFile(t) == SetupFiles[made[t] + 1]
After(t) == IF made[t] + 1 = Len(SetupFiles) THEN "login" ELSE "stat"

\* ensureFile looks whether the file is there ...
StatFile(t) ==
    /\ Step(t, "stat", "create")
    /\ found' = [found EXCEPT ![t] = NextFile(t) \in files]
    /\ UNCHANGED <<files, ocenv, asked, made, open, shell, alone>>

\* ... and creates it, which truncates one that another terminal has created since;
\* a directory cannot be created again.
CanCreate(t) == "." \in files /\ (NextFile(t) = "bin" => "bin" \notin files)

CreateFile(t) ==
    /\ Step(t, "create", IF NextFile(t) = ".ocenv" THEN "write" ELSE After(t))
    /\ ~found[t] /\ CanCreate(t)
    /\ files' = files \cup {NextFile(t)}
    /\ made' = [made EXCEPT ![t] = IF NextFile(t) = ".ocenv" THEN @ ELSE @ + 1]
    /\ open' = [open EXCEPT ![t] = @ \/ NextFile(t) = ".ocenv"]
    /\ ocenv' = IF NextFile(t) = ".ocenv" THEN NoCluster ELSE ocenv
    /\ UNCHANGED <<asked, found, shell, alone>>

\* Mutant: a file that exists is taken as it is.
KeepAnyFile(t) ==
    /\ found[t]
    /\ Step(t, "create", After(t))
    /\ made' = [made EXCEPT ![t] = @ + 1]
    /\ UNCHANGED <<files, ocenv, asked, found, open, shell, alone>>

\* For a file that is there ensureFile returns neither file nor error.  Writing
\* to none fails the command (SetupFails), but nothing is written to .history, and
\* of bin the directory alone may be left, without the scripts.
KeepFile(t) ==
    /\ found[t] /\ NextFile(t) \in {"bin", ".history"}
    /\ Step(t, "create", After(t))
    /\ made' = [made EXCEPT ![t] = @ + 1]
    /\ UNCHANGED <<files, ocenv, asked, found, open, shell, alone>>

\* One write of all variables.
WriteOcenv(t) ==
    /\ Step(t, "write", After(t))
    /\ ocenv' = IF open[t] THEN asked[t] ELSE ocenv
    /\ made' = [made EXCEPT ![t] = @ + 1]
    /\ open' = [open EXCEPT ![t] = FALSE]
    /\ UNCHANGED <<files, asked, found, shell, alone>>

SetupFails(t) ==
    /\ \/ pc[t] = "create" /\ found[t] /\ NextFile(t) # ".history"
       \/ pc[t] = "create" /\ ~found[t] /\ ~CanCreate(t)
       \/ pc[t] = "login"
       \/ pc[t] = "start" /\ ".ocenv" \notin files
    /\ pc' = [pc EXCEPT ![t] = "idle"]
    /\ UNCHANGED <<files, ocenv, asked, made, found, open, shell, alone>>

\* The login command with --multi, and the session's directory as its kube path,
\* makes the directories it needs and sets KUBECONFIG for this process.
Login(t) ==
    /\ Step(t, "login", "start")
    /\ files' = files \cup {".", asked[t]}
    /\ UNCHANGED <<ocenv, asked, made, found, open, shell, alone>>

\* Start: the shell gets the environment of the process and on top of it what
\* .ocenv says, by then the file of whoever wrote it last.
Start(t) ==
    /\ ".ocenv" \in files
    /\ Step(t, "start", "shell")
    /\ shell' = [shell EXCEPT ![t] = IF ocenv = NoCluster THEN asked[t] ELSE ocenv]
    /\ UNCHANGED <<files, ocenv, asked, made, found, open, alone>>

\* Without SHELL there is none to start.
StartNothing(t) ==
    /\ Step(t, "start", "idle")
    /\ UNCHANGED <<files, ocenv, asked, made, found, open, shell, alone>>

Exit(t) ==
    /\ Step(t, "shell", "idle")
    /\ shell' = [shell EXCEPT ![t] = NoCluster]
    /\ UNCHANGED <<files, ocenv, asked, made, found, open, alone>>

Next ==
    \E t \in Terminals :
        \/ \E c \in Clusters, to \in {"delete", "remove"} : RunCommand(t, c, to)
        \/ \E left \in SUBSET files : Delete(t, left)
        \/ EnsureEnvDir(t) \/ StatFile(t) \/ CreateFile(t) \/ KeepFile(t)
        \/ WriteOcenv(t) \/ SetupFails(t) \/ Login(t) \/ Start(t)
        \/ StartNothing(t) \/ Exit(t)

Spec == Init /\ [][Next]_vars

-----------------------------------------------------------------------------
(* Properties *)

\* README.md:298, "an isolated environment to interact with a cluster": whatever is
\* left of earlier sessions of the name, a shell starts on the cluster its command
\* was given, with a kubeconfig for it and the session's own history, unless another
\* terminal has worked on the directory in the meantime.
StartsOnItsCluster ==
    [][\A t \in Terminals : (pc[t] = "start" /\ pc'[t] = "shell" /\ alone[t]) =>
          /\ shell'[t] = asked[t]
          /\ {asked[t], "bin", ".history"} \subseteq files]_vars
=============================================================================
