---------------------------- MODULE MCLocalFiles ----------------------------
(* The commands that rewrite files of their own: the configuration, session  *)
(* directories, the binary.  They touch different files, so that a behaviour *)
(* of this module runs the commands of one of the three modules.             *)
EXTENDS ConfigFile, TLC

CONSTANTS
    Terminals, Clusters

\* A cluster's kubeconfig directory is not the session's own.
ASSUME SessionAssumption == "." \notin Clusters

VARIABLES
    subject,                                           \* the module that runs
    files, ocenv, terminalPc, asked, made, found, open, shell, \* of Session
    undisturbed,                                       \* alone of Session
    binary, backup, upgradePc, restored                \* of Upgrade

S == INSTANCE Session WITH pc <- terminalPc, alone <- undisturbed
U == INSTANCE Upgrade WITH pc <- upgradePc

session == <<files, ocenv, terminalPc, asked, made, found, open, shell, undisturbed>>
upgrade == <<binary, backup, upgradePc, restored>>

LocalInit ==
    /\ subject \in {"configuration", "session", "upgrade"}
    /\ Init /\ S!Init /\ U!Init
    /\ subject = "configuration" \/ file.state = "absent"
    /\ subject = "session" \/ files = {}

LocalNext ==
    \/ subject = "configuration" /\ Next /\ UNCHANGED <<subject, session, upgrade>>
    \/ subject = "session" /\ S!Next /\ UNCHANGED <<subject, vars, upgrade>>
    \/ subject = "upgrade" /\ U!Next /\ UNCHANGED <<subject, vars, session>>

LocalSpec == LocalInit /\ [][LocalNext]_<<subject, vars, session, upgrade>>

Symmetry == Permutations(Commands) \cup Permutations(Values)
                \cup Permutations(Terminals) \cup Permutations(Clusters)

\* The types of all three.
LocalTypeOK == TypeOK /\ S!TypeOK /\ U!TypeOK

\* README.md:298: a shell starts on the cluster of its command.
StartsOnItsCluster == S!StartsOnItsCluster

\* writer.go:27-54: an upgrade that is killed or fails leaves a whole binary.
ABinaryIsLeft == U!ABinaryIsLeft
=============================================================================
