------------------------------- MODULE Upgrade -------------------------------
(***************************************************************************)
(* ocm-backplane upgrade (internal/upgrade, internal/github): the command  *)
(* replaces the binary it runs from.  SafeWriter renames the old one,      *)
(* writes the new one under its name and removes the old one, and the      *)
(* command may be killed between any two of these.  What a process wrote   *)
(* stays written: the machine stopping before the data is on the disk is   *)
(* not modelled, and writer.go does not provide for it.                    *)
(***************************************************************************)

VARIABLES
    binary,   \* the file the command is run from
    backup,   \* the file SafeWriter keeps the old one in
    pc,       \* what the command does next
    restored  \* the backup could be renamed back, if it had to be

vars == <<binary, backup, pc, restored>>

Complete == {"old", "new"}

TypeOK ==
    /\ binary \in Complete \cup {"none", "partial"}
    /\ backup \in {"none", "old"}
    /\ pc \in {"idle", "release", "confirm", "archive", "backup", "write",
               "written", "restore", "clean", "failed", "killed"}
    /\ restored \in BOOLEAN

Init == binary = "old" /\ backup = "none" /\ pc = "idle" /\ restored = TRUE

Step(from, to) == pc = from /\ pc' = to

\* CheckConnection; the command can be run if its binary is there.
Run ==
    /\ binary \in Complete
    /\ pc \in {"idle", "failed", "killed"}
    /\ pc' = "release"
    /\ restored' = TRUE
    /\ UNCHANGED <<binary, backup>>

\* Mutant: the versions are not compared.
UpgradeAnyway == Step("release", "confirm") /\ UNCHANGED <<binary, backup, restored>>

\* GetLatestVersion and shouldUpdate: the newest release has the version "new".
GetLatestVersion ==
    /\ Step("release", IF binary = "old" THEN "confirm" ELSE "idle")
    /\ UNCHANGED <<binary, backup, restored>>

ConfirmUpgrade(yes) ==
    /\ Step("confirm", IF yes THEN "archive" ELSE "idle")
    /\ UNCHANGED <<binary, backup, restored>>

\* GetReleaseArchive, and the binary found in the archive, all of it in memory.
GetLatestBinary ==
    /\ Step("archive", "backup")
    /\ UNCHANGED <<binary, backup, restored>>

\* SafeWriter.backup.  The binary was there to be run; that it is not any more,
\* which backup also provides for, cannot happen here.
Backup ==
    /\ Step("backup", "write")
    /\ backup' = binary
    /\ binary' = "none"
    /\ UNCHANGED restored

\* Mutant: the backup is removed when the file has been created.
CreateAndRemove ==
    /\ Step("write", "written")
    /\ binary' = "partial"
    /\ backup' = "none"
    /\ UNCHANGED restored

\* os.WriteFile creates the file first, and writes it then.
CreateFile ==
    /\ Step("write", "written")
    /\ binary' = "partial"
    /\ UNCHANGED <<backup, restored>>

WriteFile ==
    /\ Step("written", "clean")
    /\ binary' = "new"
    /\ UNCHANGED <<backup, restored>>

WriteFails ==
    /\ pc \in {"write", "written"}
    /\ pc' = "restore"
    /\ UNCHANGED <<binary, backup, restored>>

\* A failure to rename the backup back is logged.
Restore(ok) ==
    /\ Step("restore", "failed")
    /\ restored' = ok
    /\ binary' = IF ok THEN backup ELSE binary
    /\ backup' = IF ok THEN "none" ELSE backup

\* A backup that cannot be removed makes the command fail after all.
RemoveBackup(ok) ==
    /\ Step("clean", IF ok THEN "idle" ELSE "failed")
    /\ backup' = IF ok THEN "none" ELSE backup
    /\ UNCHANGED <<binary, restored>>

\* GitHub does not answer, there is no archive for this system, the archive cannot
\* be read, the binary cannot be renamed.
Fails ==
    /\ pc \in {"release", "archive", "backup"}
    /\ pc' = "failed"
    /\ UNCHANGED <<binary, backup, restored>>

Killed ==
    /\ pc \notin {"idle", "failed", "killed"}
    /\ pc' = "killed"
    /\ UNCHANGED <<binary, backup, restored>>

Next ==
    \/ Run \/ GetLatestVersion \/ GetLatestBinary \/ Backup \/ CreateFile
    \/ WriteFile \/ WriteFails \/ Fails \/ Killed
    \/ \E yes \in BOOLEAN : ConfirmUpgrade(yes)
    \/ \E ok \in BOOLEAN : Restore(ok) \/ RemoveBackup(ok)

Spec == Init /\ [][Next]_vars

-----------------------------------------------------------------------------
(* Properties *)

\* Wherever an upgrade is killed or fails, a whole binary is left, under its own
\* name or that of the backup; under its own if the command came to an end of its
\* own and the backup, if needed, could be renamed back (writer.go:27-54).
ABinaryIsLeft ==
    /\ binary \in Complete \/ backup \in Complete
    /\ (pc \in {"idle", "failed"} /\ restored) => binary \in Complete
=============================================================================
