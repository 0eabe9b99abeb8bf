------------------------------ MODULE Recovery ------------------------------
(* Backup, restore and the frame of a repair (backup/__init__.py,          *)
(* storage/integrity.py, and the commands of cli/app.py around them): the  *)
(* service tree writes, one operator's command runs, and an archive is to  *)
(* be what it is taken for.                                                *)
(*                                                                         *)
(* A store is two parts: its audit log and everything else; a part is a    *)
(* version number.  SQLite keeps committed pages in a sidecar file until   *)
(* the last connection closes or a checkpoint moves them, and a reader     *)
(* sees the sidecar over the file.                                         *)
EXTENDS Integers

CONSTANTS MaxVersions

ASSUME RecoveryAssumption == MaxVersions \in Nat

Pages == {"data", "log"}
NoImage == [page \in Pages |-> -1]
Versions == 0..MaxVersions
Commands == {"backup", "restore", "repair", "repair_with"}

VARIABLES file,      \* the database file
          frames,    \* its sidecar, -1 for a page it does not hold
          serving,   \* the service tree is up
          archive,   \* the operator's archive
          rollback,  \* the rollback point of the last restore
          command,   \* the command that runs
          minted     \* versions written so far
recoveryVars == <<file, frames, serving, archive, rollback, command, minted>>

\* alone: no service since the command began, or since it verified its rollback point.
NoCommand == [op |-> "none", at |-> "none", before |-> NoImage, alone |-> FALSE]

View == [page \in Pages |-> IF frames[page] # -1 THEN frames[page] ELSE file[page]]
\* The process of the command keeps the connection of its audit entry in its pool.
Pooled == command.op # "none"
Locked == command.op \in {"repair", "repair_with"} /\ command.at \in {"capture", "verify", "converge", "commit"}

Images == [Pages -> Versions]
RecoveryTypeOK ==
    /\ file \in Images /\ frames \in [Pages -> Versions \cup {-1}] /\ serving \in BOOLEAN
    /\ {archive, rollback, command.before} \subseteq Images \cup {NoImage} /\ minted \in Versions
    /\ command.op \in Commands \cup {"none"}
    /\ command.at \in {"none", "attempted", "capture", "verify", "converge", "commit", "rollback", "replace", "check", "restored", "outcome"}

RecoveryInit ==
    /\ file = [page \in Pages |-> 0] /\ frames = NoImage /\ serving = TRUE
    /\ archive = NoImage /\ rollback = NoImage /\ command = NoCommand /\ minted = 0

\* A commit of this process or another one: a page more in the sidecar.
Commits(page) ==
    /\ minted < MaxVersions /\ minted' = minted + 1
    /\ frames' = [frames EXCEPT ![page] = minted + 1] /\ UNCHANGED file
Reads == UNCHANGED <<file, frames, minted>>

----------------------------------------------------------------------------
(* The service tree, and SQLite.                                           *)

\* Any of its processes writes, unless a repair holds the write lock.
ServiceWrites ==
    /\ serving /\ ~Locked /\ Commits("data") /\ UNCHANGED <<serving, archive, rollback, command>>
\* The sidecar is moved into the file: by an automatic checkpoint, or as the last connection closes.
Moves == file' = View /\ frames' = NoImage
Checkpoint == frames # NoImage /\ Moves /\ UNCHANGED <<serving, archive, rollback, command, minted>>
StopService ==
    /\ serving /\ serving' = FALSE
    /\ IF Pooled THEN UNCHANGED <<file, frames>> ELSE Moves
    /\ UNCHANGED <<archive, rollback, command, minted>>
StartService ==
    /\ ~serving /\ serving' = TRUE
    /\ command' = [command EXCEPT !.alone = FALSE] /\ UNCHANGED <<file, frames, archive, rollback, minted>>

----------------------------------------------------------------------------
(* A command: its attempt is committed first, its outcome last.            *)

Goes(at) == command' = [command EXCEPT !.at = at]
\* required_effect, entering; a restore and a repair with an archive need one.
attempt(op) ==
    /\ command = NoCommand /\ (op \in {"restore", "repair_with"} => archive # NoImage)
    /\ Commits("log")
    /\ command' = [op |-> op, at |-> "attempted", before |-> View, alone |-> ~serving]
    /\ UNCHANGED <<serving, archive, rollback>>
\* required_effect, leaving: the success, or the failure from wherever it happened.
outcome ==
    /\ command.at \in {"restored", "outcome"} /\ Commits("log") /\ Goes("none") /\ UNCHANGED <<serving, archive, rollback>>
\* The process ends, its pool with it; the last connection moves the sidecar.
CommandEnds ==
    /\ command.op # "none" /\ command' = NoCommand
    /\ IF serving THEN UNCHANGED <<file, frames>> ELSE Moves
    /\ UNCHANGED <<serving, archive, rollback, minted>>

\* _sqlite_backup_image: what one read transaction sees, sidecar included.
Image == View
create_backup ==
    /\ command.op = "backup" /\ command.at = "attempted" /\ archive' = Image /\ Goes("outcome")
    /\ Reads /\ UNCHANGED <<serving, rollback>>

----------------------------------------------------------------------------
(* repair_database, applied.                                               *)

Repairs == {"repair", "repair_with"}
\* BEGIN IMMEDIATE.
_acquire_write_lock ==
    /\ command.op \in Repairs /\ command.at = "attempted"
    /\ Goes(IF command.op = "repair" THEN "capture" ELSE "verify") /\ Reads /\ UNCHANGED <<serving, archive, rollback>>
\* --backup-to: an archive made under the lock.
capture ==
    /\ command.op = "repair" /\ command.at = "capture" /\ archive' = Image /\ Goes("verify")
    /\ Reads /\ UNCHANGED <<serving, rollback>>
\* _bind_to_live_source: the live image is still the one the archive holds.
_bind_to_live_source(image) == image = View
verify_backup ==
    /\ command.op \in Repairs /\ command.at = "verify"
    /\ Goes(IF _bind_to_live_source(archive) THEN "converge" ELSE "outcome")
    /\ Reads /\ UNCHANGED <<serving, archive, rollback>>
\* The passes, and their commit; Integrity has what they do.
converge ==
    /\ command.op \in Repairs /\ command.at = "converge"
    /\ Goes("commit") /\ Reads /\ UNCHANGED <<serving, archive, rollback>>
commit ==
    /\ command.op \in Repairs /\ command.at = "commit" /\ Commits("data") /\ Goes("outcome")
    /\ UNCHANGED <<serving, archive, rollback>>

----------------------------------------------------------------------------
(* restore_backup, over the live store.                                    *)

\* The candidate is verified by itself; then what is there becomes the rollback point ...
capture_rollback ==
    /\ command.op = "restore" /\ command.at = "attempted" /\ rollback' = Image /\ Goes("rollback")
    /\ Reads /\ UNCHANGED <<serving, archive>>
\* ... which must still be the store, or the target is not modified.
Bugverify_rollback ==
    /\ command.op = "restore" /\ command.at = "rollback"
    /\ command' = [command EXCEPT !.at = "replace", !.alone = ~serving]
    /\ Reads /\ UNCHANGED <<serving, archive, rollback>>
verify_rollback ==
    /\ command.op = "restore" /\ command.at = "rollback"
    /\ command' = [command EXCEPT !.at = IF _bind_to_live_source(rollback) THEN "replace" ELSE "outcome",
                                   !.alone = ~serving]
    /\ Reads /\ UNCHANGED <<serving, archive, rollback>>
\* os.replace puts another file under the name; the sidecar stays where it is.
_restore_sqlite ==
    /\ command.op = "restore" /\ command.at = "replace"
    /\ file' = archive /\ command' = [command EXCEPT !.at = "check", !.before = View]
    /\ UNCHANGED <<frames, serving, archive, rollback, minted>>
\* The integrity check of what a reader sees: pages of two stores may or may not pass it.
Mixed == View # archive
Bugcheck_restored ==
    /\ command.op = "restore" /\ command.at = "check"
    /\ Goes("restored") \/ (Mixed /\ Goes("outcome"))
    /\ Reads /\ UNCHANGED <<serving, archive, rollback>>
check_restored ==
    /\ command.op = "restore" /\ command.at = "check"
    /\ \/ Reads /\ Goes("restored")
       \/ Mixed /\ file' = rollback /\ UNCHANGED <<frames, minted>> /\ Goes("outcome")
    /\ UNCHANGED <<serving, archive, rollback>>

RecoveryNext ==
    \/ ServiceWrites \/ Checkpoint \/ StopService \/ StartService
    \/ \E op \in Commands : attempt(op)
    \/ outcome \/ CommandEnds \/ create_backup
    \/ _acquire_write_lock \/ capture \/ verify_backup \/ converge \/ commit
    \/ capture_rollback \/ verify_rollback \/ _restore_sqlite \/ check_restored
----------------------------------------------------------------------------
\* "there is no instant at which a concurrent writer can commit between the state the archive
\* captured and the state the repair mutates" (repair_database).
RepairedIsArchived == commit => archive = View

\* "A live restore captures and verifies a rollback archive": whatever the service still wrote
\* before it was stopped, the rollback point is all that the replacement takes away.
RollbackIsBefore == command.at \in {"check", "restored"} /\ command.alone => rollback = command.before

\* "the rollback point was restored": a restore that its own check refuses leaves what was there.
RefusedIsUndone == command.alone /\ command.at = "check" /\ command'.at = "outcome" => View' = command.before

\* An archive is the store at one instant, also while others write and pages wait in the sidecar.
ArchiveIsOneInstant == archive' # archive => archive' = View

\* The rollback point is what the replacement takes away, in every state of file and sidecar.
RecoveryIsSound == RecoveryTypeOK /\ RollbackIsBefore

\* Archives, repairs and refused restores speak of one store at one instant, with a service
\* that writes, stops and starts beside them.
CustodyStands == [][RepairedIsArchived /\ RefusedIsUndone /\ ArchiveIsOneInstant]_recoveryVars

------------------------------------------------------------
(* What the repository says and the code does not do.                      *)

\* "The attempt entry is written into the store the restore then replaces, so it survives in the
\* pre-restore database rather than in the restored one": a restore that reports success under a
\* stopped service has made the store what the archive was.
RestoreTakesEffect == command.at = "restored" /\ command.alone => View = archive

\* "Existing backup archive to verify and use as the prerequisite for --apply": an archive that
\* was the store when the command began, with nobody else writing, is accepted.
OwnArchiveServes ==
    [][verify_backup /\ command.op = "repair_with" /\ command.alone /\ command.before = archive => command'.at = "converge"]_recoveryVars
=============================================================================
