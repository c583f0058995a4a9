----------------------------- MODULE ConfigFile -----------------------------
(***************************************************************************)
(* The configuration file under config set and config refresh              *)
(* (cmd/ocm-backplane/config/set.go, refresh.go): both read the file into  *)
(* viper, change it there and write all of it back, without a lock, and    *)
(* any of them may be killed on the way.  Other commands only read it.     *)
(***************************************************************************)
EXTENDS Naturals

CONSTANTS
    Commands,     \* commands, each run once
    UserKeys,     \* the variables config set knows, such as proxy-url
    ServerKeys,   \* those refresh takes from the backplane API
    Values        \* their values

Keys == UserKeys \cup ServerKeys
Unset == "unset"
Settings == [Keys -> Values \cup {Unset}]
Nothing == [k \in Keys |-> Unset]

VARIABLES
    file,      \* the file: whether and how it can be read, what it says
    pc,        \* what a command does next
    mem,       \* what it holds in viper
    changes,   \* what it is to change
    alone,     \* history: nobody else has written since it read the file
    written    \* history: what the file said when it was last readable

vars == <<file, pc, mem, changes, alone, written>>

\* Truncated, or the rest of a longer text behind a shorter one: no JSON.
Unreadable == {"empty", "garbled"}

\* A file of which there are no settings to read: what viper holds then.
Contents == IF file.state = "ok" THEN file.settings ELSE Nothing

Changes == UNION {[ks -> Values] : ks \in SUBSET Keys}

TypeOK ==
    /\ file \in [state : {"no directory", "absent", "ok"} \cup Unreadable,
                 settings : Settings]
    /\ pc \in [Commands -> {"idle", "fetch", "reread", "open", "write",
                            "done", "failed"}]
    /\ mem \in [Commands -> Settings]
    /\ changes \in [Commands -> Changes]
    /\ alone \in [Commands -> BOOLEAN]
    /\ written \in Settings

Init ==
    /\ \/ \E s \in Settings : file = [state |-> "ok", settings |-> s]
       \/ file \in [state : {"no directory", "absent"}, settings : {Nothing}]
    /\ pc = [c \in Commands |-> "idle"]
    /\ mem = [c \in Commands |-> Nothing]
    /\ changes = [c \in Commands |-> [k \in {} |-> Unset]]
    /\ alone = [c \in Commands |-> FALSE]
    /\ written = file.settings

Step(c, from, to) ==
    /\ pc[c] = from
    /\ pc' = [pc EXCEPT ![c] = to]

\* Command c reads the file; a file somebody has not finished, or never will,
\* makes it a witness of the overlap.
Read(c) ==
    /\ mem' = [mem EXCEPT ![c] = Contents]
    /\ alone' = [alone EXCEPT ![c] = file.state \notin Unreadable]

\* Command c changes the file under the others.
Touch(c) == alone' = [d \in Commands |-> alone[d] /\ d = c]

-----------------------------------------------------------------------------
(* config set *)

\* The directory is made when the user agrees to it.  A key or a value that is
\* not supported is refused next, before anything is written (Fails).
Set(c, k, v) ==
    /\ Step(c, "idle", "open")
    /\ file.state \notin Unreadable
    /\ Read(c)
    /\ changes' = [changes EXCEPT ![c] = [x \in {k} |-> v]]
    /\ file' = IF file.state = "no directory"
                 THEN [file EXCEPT !.state = "absent"] ELSE file
    /\ UNCHANGED written

-----------------------------------------------------------------------------
(* config refresh *)

\* GetBackplaneConfiguration
Refresh(c) ==
    /\ Step(c, "idle", "fetch")
    /\ file.state \notin Unreadable
    /\ Read(c)
    /\ UNCHANGED <<file, changes, written>>

\* The API may leave out any of the values.
FetchRemoteConfig(c, remote) ==
    /\ Step(c, "fetch", "reread")
    /\ changes' = [changes EXCEPT ![c] = remote]
    /\ UNCHANGED <<file, mem, alone, written>>

\* Mutant: viper keeps what was read before the request.
KeepFirstReading(c) ==
    /\ Step(c, "reread", "open")
    /\ alone' = [alone EXCEPT ![c] = file.state \notin Unreadable]
    /\ UNCHANGED <<file, mem, changes, written>>

\* viper.Reset, and the file read again: any error counts as a missing file.
Reread(c) ==
    /\ Step(c, "reread", "open")
    /\ Read(c)
    /\ UNCHANGED <<file, changes, written>>

-----------------------------------------------------------------------------
(* viper.WriteConfigAs *)

Open(c) ==
    /\ file.state # "no directory"
    /\ Step(c, "open", "write")
    /\ file' = [state |-> "empty", settings |-> Nothing]
    /\ Touch(c)
    /\ UNCHANGED <<mem, changes, written>>

Changed(c) == [k \in Keys |-> IF k \in DOMAIN changes[c] THEN changes[c][k]
                                                        ELSE mem[c][k]]

\* Each writer writes from the start of the file: what another has written since
\* this one opened it is covered, or sticks out behind.
Write(c) ==
    /\ Step(c, "write", "done")
    /\ Touch(c)
    /\ \/ /\ file' = [state |-> "ok", settings |-> Changed(c)]
          /\ written' = Changed(c)
       \/ /\ file.state # "empty"
          /\ file' = [state |-> "garbled", settings |-> Nothing]
          /\ UNCHANGED written
    /\ UNCHANGED <<mem, changes>>

-----------------------------------------------------------------------------

\* Errors up to the opening of the file: it is unreadable, the user does not want
\* the directory, the API does not answer, the key or the value is refused, or the
\* file cannot be opened, for one because there is no directory.
Fails(c) ==
    /\ pc[c] \in {"idle", "fetch", "open"}
    /\ pc' = [pc EXCEPT ![c] = "failed"]
    /\ UNCHANGED <<file, mem, changes, alone, written>>

Killed(c) ==
    /\ pc[c] \in {"fetch", "reread", "open", "write"}
    /\ pc' = [pc EXCEPT ![c] = "failed"]
    /\ UNCHANGED <<file, mem, changes, alone, written>>

Next ==
    \E c \in Commands :
        \/ \E k \in UserKeys, v \in Values : Set(c, k, v)
        \/ Refresh(c)
        \/ \E ks \in SUBSET ServerKeys : \E remote \in [ks -> Values] :
              FetchRemoteConfig(c, remote)
        \/ Reread(c) \/ Open(c) \/ Write(c) \/ Fails(c) \/ Killed(c)

Spec == Init /\ [][Next]_vars

-----------------------------------------------------------------------------
(* Properties *)

\* A command that nobody overtakes between its reading and its writing changes
\* what it is to change and nothing else, whatever was set while it waited for
\* the API: refresh.go:31, "User-defined values (proxy-url, session-dir, etc.)
\* will not be modified", and the same of set.
KeepsTheOtherSettings ==
    [][\A c \in Commands : (pc[c] = "write" /\ pc'[c] = "done" /\ alone[c]) =>
          /\ DOMAIN changes[c] \subseteq ServerKeys \/ DOMAIN changes[c] \subseteq UserKeys
          /\ file'.state = "ok"
          /\ \A k \in Keys \ DOMAIN changes[c] : file'.settings[k] = written[k]]_vars
=============================================================================
