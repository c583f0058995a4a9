-------------------------- MODULE LocalFilesProofs --------------------------
(***************************************************************************)
(* Theorems about the commands that rewrite files of their own, for any    *)
(* number of commands, keys, values, terminals and clusters: config set    *)
(* and config refresh keep what they are not to change, an upgrade leaves  *)
(* a whole binary wherever it is cut short, and the shell of a session     *)
(* starts on the cluster its command was given.                            *)
(***************************************************************************)
EXTENDS MCLocalFiles, Sequences, TLAPS

-----------------------------------------------------------------------------
(* The configuration file: what a command holds in viper is what the file last *)
(* said, as long as nobody else has touched the file.                          *)

\* The settings a reader would find are those last written.
FileInv == file.state \notin Unreadable => Contents = written

\* A command changes keys of its own kind only.
ChangesInv ==
    \A c \in Commands : pc[c] \in {"reread", "open", "write"} =>
        DOMAIN changes[c] \subseteq ServerKeys \/ DOMAIN changes[c] \subseteq UserKeys

\* A command nobody has overtaken holds what the file said when it was opened;
\* and nobody else has put anything into the file it has emptied.
AloneInv ==
    \A c \in Commands : (alone[c] /\ pc[c] \in {"open", "write"}) =>
        /\ mem[c] = written
        /\ pc[c] = "write" => file.state = "empty"

\* What the steps need of TypeOK: the records and functions are what they are.
Shape ==
    /\ pc \in [Commands -> {"idle", "fetch", "reread", "open", "write",
                            "done", "failed"}]
    /\ DOMAIN mem = Commands /\ mem = [c \in Commands |-> mem[c]]
    /\ DOMAIN changes = Commands /\ changes = [c \in Commands |-> changes[c]]
    /\ alone \in [Commands -> BOOLEAN]
    /\ file = [state |-> file.state, settings |-> file.settings]

IInv == Shape /\ FileInv /\ ChangesInv /\ AloneInv

LEMMA InitInv == Init => IInv
<1> SUFFICES ASSUME Init PROVE IInv
  OBVIOUS
<1>1. Shape
  BY DEF Init, Shape
<1>2. FileInv
  <2>1. file.state = "ok" \/ file.settings = Nothing
    <3>1. CASE \E s \in Settings : file = [state |-> "ok", settings |-> s]
      BY <3>1
    <3>2. CASE file \in [state : {"no directory", "absent"}, settings : {Nothing}]
      <4>1. file.settings \in {Nothing}
        BY <3>2
      <4>2. QED
        BY <4>1
    <3>3. QED
      BY <3>1, <3>2 DEF Init
  <2>2. written = file.settings
    BY DEF Init
  <2>3. QED
    BY <2>1, <2>2 DEF FileInv, Contents
<1>3. ChangesInv /\ AloneInv
  BY DEF Init, ChangesInv, AloneInv
<1>4. QED
  BY <1>1, <1>2, <1>3 DEF IInv

\* A command has gone from one place to another, and no other has moved.
LEMMA StepMoves ==
    ASSUME Shape, NEW c \in Commands, NEW from, NEW to, Step(c, from, to)
    PROVE  /\ pc[c] = from
           /\ pc'[c] = to
           /\ \A d \in Commands \ {c} : pc'[d] = pc[d]
BY DEF Shape, Step

\* A step that changes neither the file nor what commands hold, and brings
\* nobody to the opening or the writing, keeps all of it.
LEMMA QuietStep ==
    ASSUME IInv, UNCHANGED <<file, mem, changes, alone, written>>,
           pc' \in [Commands -> {"idle", "fetch", "reread", "open", "write",
                                 "done", "failed"}],
           \A c \in Commands : pc'[c] \in {pc[c], "failed"}
    PROVE  IInv'
BY DEF IInv, Shape, FileInv, Contents, ChangesInv, AloneInv

LEMMA SetInv ==
    ASSUME IInv, NEW c \in Commands, NEW k \in UserKeys, NEW v \in Values, Set(c, k, v)
    PROVE  IInv'
<1>1. /\ pc[c] = "idle" /\ pc'[c] = "open"
      /\ \A d \in Commands \ {c} : pc'[d] = pc[d]
  BY StepMoves DEF IInv, Set
<1>2. Shape'
  BY DEF Set, Step, Read, IInv, Shape
<1>3. Contents' = Contents /\ written' = written
      /\ file.state \notin Unreadable
  BY DEF Set, Contents, Unreadable, IInv, Shape
<1>4. FileInv'
  BY <1>3 DEF IInv, FileInv
<1>5. ChangesInv'
  <2>1. DOMAIN changes'[c] = {k} /\ \A d \in Commands \ {c} : changes'[d] = changes[d]
    BY DEF Set, IInv, Shape
  <2>2. QED
    BY <1>1, <2>1 DEF IInv, ChangesInv
<1>6. AloneInv'
  <2>1. mem'[c] = written
    BY <1>3 DEF Set, Read, IInv, Shape, FileInv
  <2>2. \A d \in Commands \ {c} : mem'[d] = mem[d] /\ alone'[d] = alone[d]
    BY DEF Set, Read, IInv, Shape
  <2>3. file.state = "empty" => file'.state = "empty"
    BY <1>3 DEF Unreadable
  <2>4. QED
    BY <1>1, <1>3, <2>1, <2>2, <2>3 DEF IInv, AloneInv
<1>7. QED
  BY <1>2, <1>4, <1>5, <1>6 DEF IInv

LEMMA RefreshInv ==
    ASSUME IInv, NEW c \in Commands, Refresh(c)
    PROVE  IInv'
<1>1. /\ pc[c] = "idle" /\ pc'[c] = "fetch"
      /\ \A d \in Commands \ {c} : pc'[d] = pc[d]
  BY StepMoves DEF IInv, Refresh
<1>2. Shape' /\ FileInv' /\ ChangesInv'
  BY <1>1 DEF Refresh, Step, Read, IInv, Shape, FileInv, Contents, ChangesInv
<1>3. \A d \in Commands \ {c} : mem'[d] = mem[d] /\ alone'[d] = alone[d]
  BY DEF Refresh, Read, IInv, Shape
<1>4. AloneInv'
  BY <1>1, <1>3 DEF Refresh, IInv, AloneInv
<1>5. QED
  BY <1>2, <1>4 DEF IInv

LEMMA FetchInv ==
    ASSUME IInv, NEW c \in Commands, NEW ks \in SUBSET ServerKeys,
           NEW remote \in [ks -> Values], FetchRemoteConfig(c, remote)
    PROVE  IInv'
<1>1. /\ pc[c] = "fetch" /\ pc'[c] = "reread"
      /\ \A d \in Commands \ {c} : pc'[d] = pc[d]
  BY StepMoves DEF IInv, FetchRemoteConfig
<1>2. Shape' /\ FileInv'
  BY DEF FetchRemoteConfig, Step, IInv, Shape, FileInv, Contents
<1>3. DOMAIN changes'[c] = ks /\ \A d \in Commands \ {c} : changes'[d] = changes[d]
  BY DEF FetchRemoteConfig, IInv, Shape
<1>4. ChangesInv'
  BY <1>1, <1>3 DEF IInv, ChangesInv
<1>5. AloneInv'
  BY <1>1 DEF FetchRemoteConfig, IInv, AloneInv
<1>6. QED
  BY <1>2, <1>4, <1>5 DEF IInv

LEMMA RereadInv ==
    ASSUME IInv, NEW c \in Commands, Reread(c)
    PROVE  IInv'
<1>1. /\ pc[c] = "reread" /\ pc'[c] = "open"
      /\ \A d \in Commands \ {c} : pc'[d] = pc[d]
  BY StepMoves DEF IInv, Reread
<1>2. Shape' /\ FileInv'
  BY DEF Reread, Step, Read, IInv, Shape, FileInv, Contents
<1>3. ChangesInv'
  BY <1>1 DEF Reread, IInv, ChangesInv
<1>4. mem'[c] = Contents /\ (alone'[c] => file.state \notin Unreadable)
  BY DEF Reread, Read, IInv, Shape
<1>5. \A d \in Commands \ {c} : mem'[d] = mem[d] /\ alone'[d] = alone[d]
  BY DEF Reread, Read, IInv, Shape
<1>6. AloneInv'
  BY <1>1, <1>4, <1>5 DEF Reread, IInv, FileInv, AloneInv
<1>7. QED
  BY <1>2, <1>3, <1>6 DEF IInv

\* Whoever writes to the file is the only one left alone.
LEMMA TouchLeavesOne ==
    ASSUME Shape, NEW c \in Commands, Touch(c)
    PROVE  /\ alone' \in [Commands -> BOOLEAN]
           /\ alone'[c] = alone[c]
           /\ \A d \in Commands \ {c} : ~alone'[d]
<1>1. alone'[c] = (alone[c] /\ c = c) /\ alone[c] \in BOOLEAN
  BY DEF Touch, Shape
<1>2. \A d \in Commands : alone'[d] = (alone[d] /\ d = c)
  BY DEF Touch
<1>3. QED
  BY <1>1, <1>2 DEF Touch, Shape

LEMMA OpenInv ==
    ASSUME IInv, NEW c \in Commands, Open(c)
    PROVE  IInv'
<1>1. /\ pc[c] = "open" /\ pc'[c] = "write"
      /\ \A d \in Commands \ {c} : pc'[d] = pc[d]
  BY StepMoves DEF IInv, Open
<1>2. /\ alone' \in [Commands -> BOOLEAN] /\ alone'[c] = alone[c]
      /\ \A d \in Commands \ {c} : ~alone'[d]
  BY TouchLeavesOne DEF IInv, Open
<1>3. Shape' /\ FileInv'
  BY <1>2 DEF Open, Step, IInv, Shape, FileInv, Unreadable
<1>4. ChangesInv'
  BY <1>1 DEF Open, IInv, ChangesInv
<1>5. AloneInv'
  BY <1>1, <1>2 DEF Open, IInv, AloneInv
<1>6. QED
  BY <1>3, <1>4, <1>5 DEF IInv

LEMMA WriteInv ==
    ASSUME IInv, NEW c \in Commands, Write(c)
    PROVE  IInv'
<1>1. /\ pc[c] = "write" /\ pc'[c] = "done"
      /\ \A d \in Commands \ {c} : pc'[d] = pc[d]
  BY StepMoves DEF IInv, Write
<1>2. /\ alone' \in [Commands -> BOOLEAN] /\ alone'[c] = alone[c]
      /\ \A d \in Commands \ {c} : ~alone'[d]
  BY TouchLeavesOne DEF IInv, Write
<1>3. Shape' /\ FileInv'
  <2>1. CASE file' = [state |-> "ok", settings |-> Changed(c)] /\ written' = Changed(c)
    BY <1>2, <2>1 DEF Write, Step, IInv, Shape, FileInv, Contents
  <2>2. CASE file' = [state |-> "garbled", settings |-> Nothing]
    BY <1>2, <2>2 DEF Write, Step, IInv, Shape, FileInv, Unreadable
  <2>3. QED
    BY <2>1, <2>2 DEF Write
<1>4. ChangesInv'
  BY <1>1 DEF Write, IInv, ChangesInv
<1>5. AloneInv'
  BY <1>1, <1>2 DEF AloneInv
<1>6. QED
  BY <1>3, <1>4, <1>5 DEF IInv

LEMMA NextInv == IInv /\ [Next]_vars => IInv'
<1> SUFFICES ASSUME IInv, [Next]_vars PROVE IInv'
  OBVIOUS
<1>1. CASE UNCHANGED vars
  BY <1>1 DEF vars, IInv, Shape, FileInv, Contents, ChangesInv, AloneInv
<1>2. ASSUME NEW c \in Commands, Fails(c) PROVE IInv'
  BY <1>2, QuietStep DEF Fails, IInv, Shape
<1>3. ASSUME NEW c \in Commands, Killed(c) PROVE IInv'
  BY <1>3, QuietStep DEF Killed, IInv, Shape
<1>4. QED
  BY <1>1, <1>2, <1>3, SetInv, RefreshInv, FetchInv, RereadInv, OpenInv, WriteInv
     DEF Next

\* The step of the property: what a command writes that nobody has overtaken.
OthersKept ==
    \A c \in Commands : (pc[c] = "write" /\ pc'[c] = "done" /\ alone[c]) =>
        /\ DOMAIN changes[c] \subseteq ServerKeys \/ DOMAIN changes[c] \subseteq UserKeys
        /\ file'.state = "ok"
        /\ \A k \in Keys \ DOMAIN changes[c] : file'.settings[k] = written[k]

\* From writing to done there is one way only.
LEMMA OnlyWriteEnds ==
    ASSUME IInv, [Next]_vars, NEW c \in Commands, pc[c] = "write", pc'[c] = "done"
    PROVE  Write(c)
<1>1. ~UNCHANGED vars
  BY DEF vars
<1>2. PICK d \in Commands :
        \/ \E k \in UserKeys, v \in Values : Set(d, k, v)
        \/ Refresh(d)
        \/ \E ks \in SUBSET ServerKeys : \E remote \in [ks -> Values] :
              FetchRemoteConfig(d, remote)
        \/ Reread(d) \/ Open(d) \/ Write(d) \/ Fails(d) \/ Killed(d)
  BY <1>1 DEF Next
<1>3. d = c
  BY <1>2 DEF Set, Refresh, FetchRemoteConfig, Reread, Open, Write, Step, Fails,
     Killed, IInv, Shape
<1>4. ~Fails(c) /\ ~Killed(c)
  BY DEF Fails, Killed, IInv, Shape
<1>5. QED
  BY <1>2, <1>3, <1>4 DEF Set, Refresh, FetchRemoteConfig, Reread, Open, Step,
     IInv, Shape

LEMMA StepKeeps == IInv /\ [Next]_vars => OthersKept
<1> SUFFICES ASSUME IInv, [Next]_vars, NEW c \in Commands,
                    pc[c] = "write", pc'[c] = "done", alone[c]
             PROVE  /\ DOMAIN changes[c] \subseteq ServerKeys
                          \/ DOMAIN changes[c] \subseteq UserKeys
                    /\ file'.state = "ok"
                    /\ \A k \in Keys \ DOMAIN changes[c] : file'.settings[k] = written[k]
  BY DEF OthersKept
<1>1. Write(c)
  BY OnlyWriteEnds
<1>2. mem[c] = written /\ file.state = "empty"
  BY DEF IInv, AloneInv
<1>3. file' = [state |-> "ok", settings |-> Changed(c)]
  BY <1>1, <1>2 DEF Write
<1>4. \A k \in Keys \ DOMAIN changes[c] : Changed(c)[k] = written[k]
  BY <1>2 DEF Changed
<1>5. QED
  BY <1>3, <1>4 DEF IInv, ChangesInv

\* The types of the commands' records.
LEMMA ConfigurationInit == Init => TypeOK
<1> SUFFICES ASSUME Init PROVE TypeOK
  OBVIOUS
<1>1. Nothing \in Settings
  BY DEF Nothing, Settings
<1>2. [k \in {} |-> Unset] \in Changes
  <2>1. [k \in {} |-> Unset] \in [{} -> Values] /\ {} \in SUBSET Keys
    OBVIOUS
  <2>2. QED
    BY <2>1 DEF Changes
<1>3. /\ file \in [state : {"no directory", "absent", "ok"} \cup Unreadable,
                  settings : Settings]
      /\ file.settings \in Settings
  <2>1. ASSUME NEW x \in Settings, file = [state |-> "ok", settings |-> x]
        PROVE  /\ file \in [state : {"no directory", "absent", "ok"} \cup Unreadable,
                         settings : Settings]
               /\ file.settings \in Settings
    BY <2>1
  <2>2. ASSUME file \in [state : {"no directory", "absent"}, settings : {Nothing}]
        PROVE  /\ file \in [state : {"no directory", "absent", "ok"} \cup Unreadable,
                         settings : Settings]
               /\ file.settings \in Settings
    BY <1>1, <2>2
  <2>3. QED
    BY <2>1, <2>2 DEF Init
<1>4. QED
  BY <1>1, <1>2, <1>3 DEF Init, TypeOK

LEMMA ConfigurationTyped ==
    ASSUME TypeOK, [Next]_vars
    PROVE  TypeOK'
<1> USE DEF TypeOK
<1>1. Nothing \in Settings /\ Contents \in Settings
  BY DEF Nothing, Settings, Contents
<1>2. ASSUME NEW c \in Commands PROVE Changed(c) \in Settings
  <2>1. changes[c] \in Changes /\ mem[c] \in Settings
    OBVIOUS
  <2>2. PICK ks \in SUBSET Keys : changes[c] \in [ks -> Values]
    BY <2>1 DEF Changes
  <2>3. QED
    BY <2>1, <2>2 DEF Changed, Settings
<1>3. ASSUME NEW ks \in SUBSET Keys, NEW f \in [ks -> Values] PROVE f \in Changes
  BY <1>3 DEF Changes
<1>4. CASE UNCHANGED vars
  BY <1>4 DEF vars
<1>5. ASSUME NEW c \in Commands, NEW k \in UserKeys, NEW v \in Values, Set(c, k, v)
      PROVE  TypeOK'
  <2>1. [x \in {k} |-> v] \in Changes
    <3>1. [x \in {k} |-> v] \in [{k} -> Values] /\ {k} \in SUBSET Keys
      BY DEF Keys
    <3>2. QED
      BY <3>1, <1>3
  <2>2. QED
    BY <1>1, <1>5, <2>1 DEF Set, Step, Read
<1>6. ASSUME NEW c \in Commands, Refresh(c) \/ Reread(c) PROVE TypeOK'
  BY <1>1, <1>6 DEF Refresh, Reread, Step, Read
<1>7. ASSUME NEW c \in Commands, NEW ks \in SUBSET ServerKeys,
             NEW remote \in [ks -> Values], FetchRemoteConfig(c, remote)
      PROVE  TypeOK'
  <2>1. ks \in SUBSET Keys
    BY DEF Keys
  <2>2. remote \in Changes
    BY <2>1, <1>3
  <2>3. QED
    BY <1>7, <2>2 DEF FetchRemoteConfig, Step
<1>8. ASSUME NEW c \in Commands, Open(c) PROVE TypeOK'
  BY <1>1, <1>8 DEF Open, Step, Touch, Unreadable
<1>9. ASSUME NEW c \in Commands, Write(c) PROVE TypeOK'
  <2>1. Changed(c) \in Settings
    BY <1>2
  <2>2. alone' \in [Commands -> BOOLEAN] /\ pc' = [pc EXCEPT ![c] = "done"]
    BY <1>9 DEF Write, Step, Touch
  <2>3. CASE file' = [state |-> "ok", settings |-> Changed(c)] /\ written' = Changed(c)
    BY <1>9, <2>1, <2>2, <2>3 DEF Write
  <2>4. CASE file' = [state |-> "garbled", settings |-> Nothing] /\ UNCHANGED written
    BY <1>1, <1>9, <2>2, <2>4 DEF Write, Unreadable
  <2>5. QED
    BY <1>9, <2>3, <2>4 DEF Write
<1>10. ASSUME NEW c \in Commands, Fails(c) \/ Killed(c) PROVE TypeOK'
  BY <1>10 DEF Fails, Killed
<1>11. QED
  BY <1>4, <1>5, <1>6, <1>7, <1>8, <1>9, <1>10 DEF Next

-----------------------------------------------------------------------------
(* The upgrade: which of the two files is whole follows from where it is. *)

UpgradeInv ==
    /\ U!TypeOK
    /\ upgradePc \in {"idle", "release"} => binary \in U!Complete
    /\ upgradePc \in {"confirm", "archive", "backup"} => binary = "old"
    /\ upgradePc \in {"write", "written", "restore"} => backup = "old"
    /\ upgradePc = "clean" => binary = "new"
    /\ upgradePc = "failed" =>
          \/ binary \in U!Complete
          \/ restored = FALSE /\ backup = "old"
    /\ upgradePc = "killed" => binary \in U!Complete \/ backup = "old"

LEMMA UpgradeInitInv == U!Init => UpgradeInv
BY DEF U!Init, UpgradeInv, U!TypeOK, U!Complete

LEMMA UpgradeNextInv ==
    ASSUME UpgradeInv, U!Next \/ UNCHANGED upgrade
    PROVE  UpgradeInv'
<1> USE DEF UpgradeInv, U!TypeOK, U!Complete, U!Step
<1>1. CASE UNCHANGED upgrade
  BY <1>1 DEF upgrade
<1>2. CASE U!Run \/ U!GetLatestVersion \/ U!GetLatestBinary \/ U!Backup
  BY <1>2 DEF U!Run, U!GetLatestVersion, U!GetLatestBinary, U!Backup
<1>3. CASE U!CreateFile \/ U!WriteFile \/ U!WriteFails
  BY <1>3 DEF U!CreateFile, U!WriteFile, U!WriteFails
<1>4. CASE U!Fails \/ U!Killed
  BY <1>4 DEF U!Fails, U!Killed
<1>5. ASSUME NEW yes \in BOOLEAN, U!ConfirmUpgrade(yes) PROVE UpgradeInv'
  BY <1>5 DEF U!ConfirmUpgrade
<1>6. ASSUME NEW ok \in BOOLEAN, U!Restore(ok) \/ U!RemoveBackup(ok) PROVE UpgradeInv'
  <2>1. CASE ok = TRUE
    BY <1>6, <2>1 DEF U!Restore, U!RemoveBackup
  <2>2. CASE ok = FALSE
    BY <1>6, <2>2 DEF U!Restore, U!RemoveBackup
  <2>3. QED
    BY <2>1, <2>2
<1>7. QED
  BY <1>1, <1>2, <1>3, <1>4, <1>5, <1>6 DEF U!Next

-----------------------------------------------------------------------------
(* The session: what a terminal knows of the directory while it is alone there. *)

\* The directory of terminal t, which has come past made[t] of its files.
DirectoryOK(t) ==
    /\ made[t] >= 1 => "bin" \in files
    /\ made[t] >= 2 => ".history" \in files
    /\ made[t] >= 3 => ocenv = asked[t]
    /\ terminalPc[t] = "create" /\ found[t] => S!NextFile(t) \in files
    /\ terminalPc[t] = "write" => ocenv = S!NoCluster
    /\ terminalPc[t] = "start" => asked[t] \in files

AloneThere(t) == undisturbed[t] /\ S!Busy(t)

\* Where a terminal is says how many of the files it has come past, and only
\* between creating and writing .ocenv it has that open.
CountInv ==
    \A t \in Terminals :
        /\ terminalPc[t] \in {"delete", "remove", "directory"} => made[t] = 0
        /\ terminalPc[t] \in {"stat", "create"} => made[t] < 4
        /\ terminalPc[t] = "write" => made[t] = 2
        /\ terminalPc[t] \in {"login", "start"} => made[t] = 4
        /\ S!Busy(t) => asked[t] \in Clusters

AloneIsAlone ==
    \A t \in Terminals : AloneThere(t) =>
        /\ \A u \in Terminals : S!Busy(u) => u = t
        /\ DirectoryOK(t)
        /\ terminalPc[t] = "write" => open[t]

SessionInv == S!TypeOK /\ CountInv /\ AloneIsAlone

LEMMA SetupFilesAre ==
    /\ S!SetupFiles[1] = "bin" /\ S!SetupFiles[2] = ".history"
    /\ S!SetupFiles[3] = ".ocenv" /\ S!SetupFiles[4] = ".zshenv"
    /\ Len(S!SetupFiles) = 4
BY DEF S!SetupFiles

\* The file a terminal makes next, by how many it has come past.
LEMMA NextFileIs ==
    ASSUME NEW t \in Terminals, made[t] \in 0..3
    PROVE  /\ S!NextFile(t) \in S!Names
           /\ S!NextFile(t) = ".ocenv" <=> made[t] = 2
           /\ S!NextFile(t) = "bin" <=> made[t] = 0
           /\ S!NextFile(t) = ".history" <=> made[t] = 1
           /\ S!After(t) = IF made[t] = 3 THEN "login" ELSE "stat"
<1>1. S!NextFile(t) = S!SetupFiles[made[t] + 1]
  BY DEF S!NextFile
<1>2. made[t] + 1 \in 1..Len(S!SetupFiles)
  BY SetupFilesAre
<1>3. S!NextFile(t) \in S!Names
  BY <1>1, <1>2 DEF S!Names
<1>4. made[t] = 0 \/ made[t] = 1 \/ made[t] = 2 \/ made[t] = 3
  OBVIOUS
<1>5. QED
  BY <1>1, <1>3, <1>4, SetupFilesAre DEF S!After

LEMMA SessionInitInv == S!Init => SessionInv
<1> SUFFICES ASSUME S!Init PROVE SessionInv
  OBVIOUS
<1>1. S!TypeOK
  <2>1. /\ files \subseteq S!Names /\ (files # {} => "." \in files)
        /\ ocenv \in Clusters \cup {S!NoCluster}
    <3>1. CASE files = {} /\ ocenv = S!NoCluster
      BY <3>1
    <3>2. ASSUME NEW c \in Clusters, files = (S!Names \ Clusters) \cup {c}, ocenv = c
          PROVE  /\ files \subseteq S!Names /\ (files # {} => "." \in files)
                 /\ ocenv \in Clusters \cup {S!NoCluster}
      BY <3>2, SessionAssumption DEF S!Names
    <3>3. QED
      BY <3>1, <3>2 DEF S!Init
  <2>2. QED
    BY <2>1, SetupFilesAre DEF S!Init, S!TypeOK, S!Working
<1>2. QED
  BY <1>1 DEF S!Init, SessionInv, AloneIsAlone, CountInv, AloneThere, S!Busy, S!Working

LEMMA TerminalMoves ==
    ASSUME S!TypeOK, NEW t \in Terminals, NEW from, NEW to, S!Step(t, from, to)
    PROVE  /\ terminalPc[t] = from
           /\ terminalPc'[t] = to
           /\ \A u \in Terminals \ {t} : terminalPc'[u] = terminalPc[u]
BY DEF S!TypeOK, S!Step

\* While terminal t works on the directory, no other is alone there.
LEMMA OthersAreAway ==
    ASSUME SessionInv, NEW t \in Terminals, S!Busy(t), UNCHANGED undisturbed,
           \A u \in Terminals \ {t} : terminalPc'[u] = terminalPc[u],
           (AloneThere(t) /\ S!Busy(t)') =>
              DirectoryOK(t)' /\ (terminalPc'[t] = "write" => open'[t])
    PROVE  AloneIsAlone'
<1> SUFFICES ASSUME NEW w \in Terminals, AloneThere(w)'
             PROVE  /\ \A u \in Terminals : S!Busy(u)' => u = w
                    /\ DirectoryOK(w)'
                    /\ terminalPc'[w] = "write" => open'[w]
  BY DEF AloneIsAlone
<1>1. \A u \in Terminals \ {t} : S!Busy(u)' <=> S!Busy(u)
  BY DEF S!Busy
<1>2. w = t
  <2>1. CASE w # t
    <3>1. AloneThere(w)
      BY <1>1, <2>1 DEF AloneThere
    <3>2. QED
      BY <3>1 DEF SessionInv, AloneIsAlone
  <2>2. QED
    BY <2>1
<1>3. AloneThere(t) /\ S!Busy(t)'
  BY <1>2 DEF AloneThere
<1>4. QED
  BY <1>1, <1>2, <1>3 DEF SessionInv, AloneIsAlone

LEMMA RunCommandInv ==
    ASSUME SessionInv, NEW t \in Terminals, NEW c \in Clusters,
           NEW to \in {"delete", "remove"}, S!RunCommand(t, c, to)
    PROVE  SessionInv'
<1>1. S!TypeOK
  BY DEF SessionInv
<1>2. /\ terminalPc[t] = "idle" /\ terminalPc'[t] = to
      /\ \A u \in Terminals \ {t} : terminalPc'[u] = terminalPc[u]
  BY <1>1, TerminalMoves DEF S!RunCommand
<1>3. /\ made'[t] = 0 /\ \A u \in Terminals \ {t} : made'[u] = made[u]
      /\ undisturbed'[t] = (\A w \in Terminals : ~S!Busy(w))
      /\ \A u \in Terminals \ {t} : ~undisturbed'[u]
  BY <1>1 DEF S!RunCommand, S!TypeOK
<1>4. S!TypeOK'
  <2>1. undisturbed' \in [Terminals -> BOOLEAN]
    BY DEF S!RunCommand
  <2>2. QED
    BY <1>1, <2>1, SetupFilesAre DEF S!RunCommand, S!Step, S!TypeOK, S!Working
<1>5. CountInv'
  <2>1. asked'[t] \in Clusters /\ \A u \in Terminals \ {t} : asked'[u] = asked[u]
    BY <1>1 DEF S!RunCommand, S!TypeOK
  <2>2. QED
    BY <1>2, <1>3, <2>1 DEF SessionInv, CountInv, S!Busy, S!Working
<1>6. AloneIsAlone'
  <2>1. ASSUME NEW w \in Terminals, AloneThere(w)'
        PROVE  w = t /\ \A u \in Terminals : S!Busy(u)' => u = t
    BY <1>2, <1>3, <2>1 DEF AloneThere, S!Busy
  <2>2. DirectoryOK(t)' /\ terminalPc'[t] # "write"
    BY <1>2, <1>3 DEF DirectoryOK
  <2>3. QED
    BY <2>1, <2>2 DEF AloneIsAlone
<1>7. QED
  BY <1>4, <1>5, <1>6 DEF SessionInv

LEMMA DeleteInv ==
    ASSUME SessionInv, NEW t \in Terminals, NEW leaves \in SUBSET files,
           S!Delete(t, leaves)
    PROVE  SessionInv'
<1>1. S!TypeOK
  BY DEF SessionInv
<1>2. /\ \/ terminalPc[t] = "delete" /\ terminalPc'[t] = "directory"
         \/ terminalPc[t] = "remove" /\ terminalPc'[t] = "idle"
      /\ \A u \in Terminals \ {t} : terminalPc'[u] = terminalPc[u]
  BY <1>1, TerminalMoves DEF S!Delete
<1>3. S!TypeOK'
  BY <1>1, SetupFilesAre DEF S!Delete, S!Step, S!TypeOK, S!Working, S!NoCluster
<1>4. CountInv'
  BY <1>2 DEF SessionInv, CountInv, S!Busy, S!Working, S!Delete
<1>5. made[t] = 0 /\ made' = made
  BY <1>2 DEF SessionInv, CountInv, S!Busy, S!Working, S!Delete
<1>6. DirectoryOK(t)'
  BY <1>2, <1>5 DEF DirectoryOK
<1>7. AloneIsAlone'
  BY <1>2, <1>6, OthersAreAway DEF S!Delete, S!Busy, S!Working
<1>8. QED
  BY <1>3, <1>4, <1>7 DEF SessionInv

LEMMA MakingInv ==
    ASSUME SessionInv, NEW t \in Terminals,
           S!EnsureEnvDir(t) \/ S!StatFile(t) \/ S!KeepFile(t)
    PROVE  SessionInv'
<1>1. S!TypeOK
  BY DEF SessionInv
<1>2. CASE S!EnsureEnvDir(t)
  <2>1. /\ terminalPc[t] = "directory" /\ terminalPc'[t] = "stat"
        /\ \A u \in Terminals \ {t} : terminalPc'[u] = terminalPc[u]
    BY <1>1, <1>2, TerminalMoves DEF S!EnsureEnvDir
  <2>2. S!TypeOK'
    BY <1>1, <1>2, SetupFilesAre DEF S!EnsureEnvDir, S!Step, S!TypeOK, S!Working, S!Names
  <2>3. made[t] = 0 /\ made' = made
    BY <1>2, <2>1 DEF SessionInv, CountInv, S!Busy, S!Working, S!EnsureEnvDir
  <2>4. CountInv'
    BY <1>2, <2>1, <2>3 DEF SessionInv, CountInv, S!Busy, S!Working, S!EnsureEnvDir
  <2>5. DirectoryOK(t)'
    BY <2>1, <2>3 DEF DirectoryOK
  <2>6. AloneIsAlone'
    BY <1>2, <2>1, <2>5, OthersAreAway DEF S!EnsureEnvDir, S!Busy, S!Working
  <2>7. QED
    BY <2>2, <2>4, <2>6 DEF SessionInv
<1>3. CASE S!StatFile(t)
  <2>1. /\ terminalPc[t] = "stat" /\ terminalPc'[t] = "create"
        /\ \A u \in Terminals \ {t} : terminalPc'[u] = terminalPc[u]
    BY <1>1, <1>3, TerminalMoves DEF S!StatFile
  <2>2. found' \in [Terminals -> BOOLEAN] /\ found'[t] = (S!NextFile(t) \in files)
    BY <1>1, <1>3 DEF S!StatFile, S!TypeOK
  <2>3. S!TypeOK'
    BY <1>1, <1>3, <2>2, SetupFilesAre DEF S!StatFile, S!Step, S!TypeOK, S!Working
  <2>4. CountInv'
    BY <1>3, <2>1 DEF SessionInv, CountInv, S!Busy, S!Working, S!StatFile
  <2>5. DirectoryOK(t)' <=> DirectoryOK(t)
    BY <1>3, <2>1, <2>2 DEF DirectoryOK, S!StatFile, S!NextFile
  <2>6. AloneIsAlone'
    BY <1>3, <2>1, <2>5, OthersAreAway DEF S!StatFile, S!Busy, S!Working, SessionInv, AloneIsAlone
  <2>7. QED
    BY <2>3, <2>4, <2>6 DEF SessionInv
<1>4. CASE S!KeepFile(t)
  <2>1. /\ terminalPc[t] = "create" /\ terminalPc'[t] = S!After(t)
        /\ \A u \in Terminals \ {t} : terminalPc'[u] = terminalPc[u]
    BY <1>1, <1>4, TerminalMoves DEF S!KeepFile
  <2>2. made[t] \in 0..3
    BY <1>1, <2>1, SetupFilesAre DEF SessionInv, CountInv, S!TypeOK
  <2>3. /\ made[t] \in {0, 1} /\ S!After(t) = "stat"
        /\ S!NextFile(t) = IF made[t] = 0 THEN "bin" ELSE ".history"
    BY <1>4, <2>2, NextFileIs DEF S!KeepFile
  <2>4. /\ made'[t] = made[t] + 1 /\ \A u \in Terminals \ {t} : made'[u] = made[u]
    BY <1>1, <1>4 DEF S!KeepFile, S!TypeOK
  <2>5. S!TypeOK'
    BY <1>1, <1>4, <2>1, <2>3, SetupFilesAre
       DEF S!KeepFile, S!Step, S!TypeOK, S!Working
  <2>6. CountInv'
    BY <1>4, <2>1, <2>3, <2>4 DEF SessionInv, CountInv, S!Busy, S!Working, S!KeepFile
  <2>7. AloneThere(t) => DirectoryOK(t)'
    BY <1>4, <2>1, <2>3, <2>4 DEF SessionInv, AloneIsAlone, DirectoryOK, S!KeepFile
  <2>8. AloneIsAlone'
    BY <1>4, <2>1, <2>3, <2>7, OthersAreAway DEF S!KeepFile, S!Busy, S!Working
  <2>9. QED
    BY <2>5, <2>6, <2>8 DEF SessionInv
<1>5. QED
  BY <1>2, <1>3, <1>4

LEMMA CreateFileInv ==
    ASSUME SessionInv, NEW t \in Terminals, S!CreateFile(t)
    PROVE  SessionInv'
<1>1. S!TypeOK
  BY DEF SessionInv
<1>2. /\ terminalPc[t] = "create"
      /\ terminalPc'[t] = IF S!NextFile(t) = ".ocenv" THEN "write" ELSE S!After(t)
      /\ \A u \in Terminals \ {t} : terminalPc'[u] = terminalPc[u]
  BY <1>1, TerminalMoves DEF S!CreateFile
<1>3. made[t] \in 0..3
  BY <1>1, <1>2, SetupFilesAre DEF SessionInv, CountInv, S!TypeOK
<1>4. /\ S!NextFile(t) \in S!Names
      /\ S!NextFile(t) = ".ocenv" <=> made[t] = 2
      /\ S!NextFile(t) = "bin" <=> made[t] = 0
      /\ S!NextFile(t) = ".history" <=> made[t] = 1
      /\ S!After(t) = IF made[t] = 3 THEN "login" ELSE "stat"
  BY <1>3, NextFileIs
<1>5. /\ files' = files \cup {S!NextFile(t)} /\ "." \in files
      /\ UNCHANGED <<asked, found, shell, undisturbed>>
  BY DEF S!CreateFile, S!CanCreate
<1>6. CASE made[t] = 2
  <2>1. /\ terminalPc'[t] = "write" /\ made' = [made EXCEPT ![t] = @]
        /\ ocenv' = S!NoCluster
        /\ open' = [open EXCEPT ![t] = TRUE]
    <3>1. open' = [open EXCEPT ![t] = @ \/ S!NextFile(t) = ".ocenv"]
      BY DEF S!CreateFile
    <3>2. (open[t] \/ S!NextFile(t) = ".ocenv") = TRUE
      BY <1>4, <1>6
    <3>3. QED
      BY <1>2, <1>4, <1>6, <3>1, <3>2 DEF S!CreateFile
  <2>2. made' = made
    BY <1>1, <2>1 DEF S!TypeOK
  <2>3. S!TypeOK'
    BY <1>1, <1>4, <1>5, <2>1, <2>2, SetupFilesAre
       DEF S!CreateFile, S!Step, S!TypeOK, S!Working
  <2>4. CountInv'
    BY <1>2, <1>5, <1>6, <2>1, <2>2 DEF SessionInv, CountInv, S!Busy, S!Working
  <2>5. AloneThere(t) => DirectoryOK(t)'
    BY <1>2, <1>5, <1>6, <2>1, <2>2 DEF SessionInv, AloneIsAlone, DirectoryOK
  <2>6. open'[t]
    BY <1>1, <2>1 DEF S!TypeOK
  <2>7. AloneIsAlone'
    BY <1>2, <1>5, <2>5, <2>6, OthersAreAway DEF S!Busy, S!Working
  <2>8. QED
    BY <2>3, <2>4, <2>7 DEF SessionInv
<1>7. CASE made[t] # 2
  <2>1. /\ terminalPc'[t] = IF made[t] = 3 THEN "login" ELSE "stat"
        /\ made' = [made EXCEPT ![t] = @ + 1]
        /\ ocenv' = ocenv
        /\ open' \in [Terminals -> BOOLEAN]
    BY <1>1, <1>2, <1>4, <1>7 DEF S!CreateFile, S!TypeOK
  <2>2. made'[t] = made[t] + 1 /\ \A u \in Terminals \ {t} : made'[u] = made[u]
    BY <1>1, <2>1 DEF S!TypeOK
  <2>3. S!TypeOK'
    <3>1. terminalPc' \in [Terminals -> {"idle", "remove", "shell"} \cup S!Working]
      BY <1>1, <1>2, <2>1 DEF S!CreateFile, S!Step, S!TypeOK, S!Working
    <3>2. made' \in [Terminals -> 0..4]
      BY <1>1, <1>3, <2>1, SetupFilesAre DEF S!TypeOK
    <3>3. QED
      BY <1>1, <1>4, <1>5, <2>1, <3>1, <3>2, SetupFilesAre DEF S!TypeOK
  <2>4. CountInv'
    BY <1>2, <1>3, <1>5, <1>7, <2>1, <2>2 DEF SessionInv, CountInv, S!Busy, S!Working
  <2>5. AloneThere(t) => DirectoryOK(t)'
    BY <1>2, <1>3, <1>4, <1>5, <1>7, <2>1, <2>2 DEF SessionInv, AloneIsAlone, DirectoryOK
  <2>6. AloneIsAlone'
    BY <1>2, <1>5, <2>1, <2>5, OthersAreAway DEF S!Busy, S!Working
  <2>7. QED
    BY <2>3, <2>4, <2>6 DEF SessionInv
<1>8. QED
  BY <1>6, <1>7

LEMMA WriteOcenvInv ==
    ASSUME SessionInv, NEW t \in Terminals, S!WriteOcenv(t)
    PROVE  SessionInv'
<1>1. S!TypeOK
  BY DEF SessionInv
<1>2. /\ terminalPc[t] = "write" /\ terminalPc'[t] = S!After(t)
      /\ \A u \in Terminals \ {t} : terminalPc'[u] = terminalPc[u]
  BY <1>1, TerminalMoves DEF S!WriteOcenv
<1>3. made[t] = 2 /\ S!After(t) = "stat"
  BY <1>2, NextFileIs DEF SessionInv, CountInv, S!Busy, S!Working
<1>4. /\ made'[t] = 3 /\ \A u \in Terminals \ {t} : made'[u] = made[u]
      /\ UNCHANGED <<files, asked, found, shell, undisturbed>>
  BY <1>1, <1>3 DEF S!WriteOcenv, S!TypeOK
<1>5. S!TypeOK'
  BY <1>1, <1>2, <1>3, SetupFilesAre DEF S!WriteOcenv, S!Step, S!TypeOK, S!Working
<1>6. CountInv'
  BY <1>2, <1>3, <1>4 DEF SessionInv, CountInv, S!Busy, S!Working
<1>7. AloneThere(t) => DirectoryOK(t)'
  BY <1>2, <1>3, <1>4 DEF SessionInv, AloneIsAlone, DirectoryOK, S!WriteOcenv
<1>8. AloneIsAlone'
  BY <1>2, <1>3, <1>4, <1>7, OthersAreAway DEF S!Busy, S!Working
<1>9. QED
  BY <1>5, <1>6, <1>8 DEF SessionInv

LEMMA EndingInv ==
    ASSUME SessionInv, NEW t \in Terminals,
           S!SetupFails(t) \/ S!Start(t) \/ S!StartNothing(t) \/ S!Exit(t)
    PROVE  SessionInv'
<1>1. S!TypeOK
  BY DEF SessionInv
<1>2. /\ terminalPc'[t] \in {"idle", "shell"} /\ terminalPc[t] \notin {"write"}
      /\ \A u \in Terminals \ {t} : terminalPc'[u] = terminalPc[u]
      /\ UNCHANGED <<files, ocenv, asked, made, found, open, undisturbed>>
  BY <1>1 DEF S!SetupFails, S!Start, S!StartNothing, S!Exit, S!Step, S!TypeOK
<1>3. S!TypeOK'
  BY <1>1 DEF S!SetupFails, S!Start, S!StartNothing, S!Exit, S!Step, S!TypeOK,
     S!Working, S!NoCluster
<1>4. CountInv'
  BY <1>2 DEF SessionInv, CountInv, S!Busy, S!Working
<1>5. AloneIsAlone'
  <2>1. ASSUME NEW w \in Terminals, AloneThere(w)' PROVE w # t /\ AloneThere(w)
    BY <1>2, <2>1 DEF AloneThere, S!Busy, S!Working
  <2>2. ASSUME NEW w \in Terminals, AloneThere(w)'
        PROVE  /\ \A u \in Terminals : S!Busy(u)' => u = w
               /\ DirectoryOK(w)'
               /\ terminalPc'[w] = "write" => open'[w]
    <3>1. AloneThere(w) /\ w # t
      BY <2>1, <2>2
    <3>2. DirectoryOK(w)'
      BY <1>2, <3>1 DEF SessionInv, AloneIsAlone, DirectoryOK, S!NextFile
    <3>3. \A u \in Terminals : S!Busy(u)' => S!Busy(u)
      BY <1>2 DEF S!Busy, S!Working
    <3>4. QED
      BY <1>2, <3>1, <3>2, <3>3 DEF SessionInv, AloneIsAlone
  <2>3. QED
    BY <2>2 DEF AloneIsAlone
<1>6. QED
  BY <1>3, <1>4, <1>5 DEF SessionInv

LEMMA SessionLoginInv ==
    ASSUME SessionInv, NEW t \in Terminals, S!Login(t)
    PROVE  SessionInv'
<1>1. S!TypeOK
  BY DEF SessionInv
<1>2. /\ terminalPc[t] = "login" /\ terminalPc'[t] = "start"
      /\ \A u \in Terminals \ {t} : terminalPc'[u] = terminalPc[u]
  BY <1>1, TerminalMoves DEF S!Login
<1>3. asked[t] \in files' /\ files \subseteq files'
  BY DEF S!Login
<1>4. S!TypeOK'
  <2>1. asked[t] \in Clusters
    BY <1>2 DEF SessionInv, CountInv, S!Busy, S!Working
  <2>2. QED
    BY <1>1, <2>1 DEF S!Login, S!Step, S!TypeOK, S!Working, S!Names
<1>5. CountInv'
  BY <1>2 DEF SessionInv, CountInv, S!Busy, S!Working, S!Login
<1>6. AloneThere(t) => DirectoryOK(t)'
  BY <1>2, <1>3 DEF SessionInv, AloneIsAlone, DirectoryOK, S!Login
<1>7. AloneIsAlone'
  BY <1>2, <1>6, OthersAreAway DEF S!Login, S!Busy, S!Working
<1>8. QED
  BY <1>4, <1>5, <1>7 DEF SessionInv

LEMMA SessionNextInv ==
    ASSUME SessionInv, S!Next \/ UNCHANGED session
    PROVE  SessionInv'
<1>1. CASE UNCHANGED session
  BY <1>1 DEF session, SessionInv, AloneIsAlone, CountInv, AloneThere, DirectoryOK, S!TypeOK,
     S!Busy, S!NextFile
<1>2. QED
  BY <1>1, RunCommandInv, DeleteInv, MakingInv, CreateFileInv, WriteOcenvInv,
     EndingInv, SessionLoginInv DEF S!Next

\* A shell starts by the step Start only, on what the terminal knows of.
StartedRight ==
    \A t \in Terminals :
        (terminalPc[t] = "start" /\ terminalPc'[t] = "shell" /\ undisturbed[t]) =>
          /\ shell'[t] = asked[t]
          /\ {asked[t], "bin", ".history"} \subseteq files

LEMMA SessionStepStarts ==
    ASSUME SessionInv, S!Next \/ UNCHANGED session
    PROVE  StartedRight
<1> SUFFICES ASSUME NEW t \in Terminals, terminalPc[t] = "start",
                    terminalPc'[t] = "shell", undisturbed[t]
             PROVE  /\ shell'[t] = asked[t]
                    /\ {asked[t], "bin", ".history"} \subseteq files
  BY DEF StartedRight
<1>1. S!TypeOK
  BY DEF SessionInv
<1>2. PICK u \in Terminals :
        \/ \E c \in Clusters, to \in {"delete", "remove"} : S!RunCommand(u, c, to)
        \/ \E leaves \in SUBSET files : S!Delete(u, leaves)
        \/ S!EnsureEnvDir(u) \/ S!StatFile(u) \/ S!CreateFile(u) \/ S!KeepFile(u)
        \/ S!WriteOcenv(u) \/ S!SetupFails(u) \/ S!Login(u) \/ S!Start(u)
        \/ S!StartNothing(u) \/ S!Exit(u)
  BY DEF S!Next, session
<1>3. u = t
  BY <1>1, <1>2 DEF S!RunCommand, S!Delete, S!EnsureEnvDir, S!StatFile, S!CreateFile,
     S!KeepFile, S!WriteOcenv, S!SetupFails, S!Login, S!Start, S!StartNothing, S!Exit,
     S!Step, S!TypeOK
<1>4. S!Start(t)
  BY <1>1, <1>2, <1>3 DEF S!RunCommand, S!Delete, S!EnsureEnvDir, S!StatFile,
     S!CreateFile, S!KeepFile, S!WriteOcenv, S!SetupFails, S!Login, S!StartNothing,
     S!Exit, S!Step, S!TypeOK
<1>5. AloneThere(t) /\ made[t] = 4
  BY DEF AloneThere, S!Busy, S!Working, SessionInv, CountInv
<1>6. /\ ocenv = asked[t] /\ {asked[t], "bin", ".history"} \subseteq files
  BY <1>5 DEF SessionInv, AloneIsAlone, DirectoryOK
<1>7. shell'[t] = asked[t]
  BY <1>1, <1>4, <1>6 DEF S!Start, S!TypeOK
<1>8. QED
  BY <1>6, <1>7

-----------------------------------------------------------------------------
(* The theorems *)

LocalInv == TypeOK /\ IInv /\ UpgradeInv /\ SessionInv

LEMMA LocalInvariance == LocalSpec => []LocalInv
<1>1. LocalInit => LocalInv
  BY ConfigurationInit, InitInv, UpgradeInitInv, SessionInitInv DEF LocalInit, LocalInv
<1>2. LocalInv /\ [LocalNext]_<<subject, vars, session, upgrade>> => LocalInv'
  <2> SUFFICES ASSUME LocalInv, [LocalNext]_<<subject, vars, session, upgrade>>
               PROVE  LocalInv'
    OBVIOUS
  <2>1. /\ [Next]_vars
        /\ S!Next \/ UNCHANGED session
        /\ U!Next \/ UNCHANGED upgrade
    BY DEF LocalNext
  <2>2. TypeOK' /\ IInv'
    BY <2>1, ConfigurationTyped, NextInv DEF LocalInv
  <2>3. UpgradeInv' /\ SessionInv'
    BY <2>1, UpgradeNextInv, SessionNextInv DEF LocalInv
  <2>4. QED
    BY <2>2, <2>3 DEF LocalInv
<1>3. QED
  BY <1>1, <1>2, PTL DEF LocalSpec

\* What the commands hold and what the files say stays of its type, for any number
\* of commands, keys, values, terminals and clusters.
THEOREM LocalTypeCorrect == LocalSpec => []LocalTypeOK
<1>1. LocalInv => LocalTypeOK
  BY DEF LocalInv, LocalTypeOK, UpgradeInv, SessionInv
<1>2. QED
  BY <1>1, LocalInvariance, PTL

\* However many commands set and refresh at the same time, are killed or fail, one
\* that nobody overtakes changes only what it is to change (refresh.go:31).
THEOREM KeepsOthers == LocalSpec => KeepsTheOtherSettings
<1>1. LocalInv /\ [LocalNext]_<<subject, vars, session, upgrade>> => [OthersKept]_vars
  BY StepKeeps DEF LocalInv, LocalNext
<1>2. QED
  BY <1>1, LocalInvariance, PTL DEF LocalSpec, KeepsTheOtherSettings, OthersKept

\* An upgrade that is killed or fails anywhere leaves a whole binary
\* (writer.go:27-54).
THEOREM BinaryLeft == LocalSpec => []ABinaryIsLeft
<1>1. LocalInv => ABinaryIsLeft
  BY DEF LocalInv, UpgradeInv, ABinaryIsLeft, U!ABinaryIsLeft, U!TypeOK, U!Complete
<1>2. QED
  BY <1>1, LocalInvariance, PTL

\* However many terminals share a session's directory, and whatever is left in it,
\* one that has been alone there starts its shell on the cluster of its command
\* (README.md:298).
THEOREM SessionStarts == LocalSpec => StartsOnItsCluster
<1>1. LocalInv /\ [LocalNext]_<<subject, vars, session, upgrade>>
        => [StartedRight]_(S!vars)
  BY SessionStepStarts DEF LocalInv, LocalNext
<1>2. QED
  BY <1>1, LocalInvariance, PTL
     DEF LocalSpec, StartsOnItsCluster, S!StartsOnItsCluster, StartedRight

=============================================================================
