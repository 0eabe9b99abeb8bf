---------------------------- MODULE ServiceStop ----------------------------
(* Stopping the native service (service/macos.py, service/common.py): the  *)
(* job is unloaded, the supervisor its PID file records is signalled and   *)
(* waited for, and the file is removed.  Meanwhile supervisors come up, by *)
(* the job or by hand, leave or die, and the system hands freed PIDs on:   *)
(* between any two of the programs the stop runs and the files it reads.   *)
EXTENDS Integers, FiniteSets

CONSTANTS Pids,         \* process numbers
          Supervisors   \* bound: supervisors started, 1..n

ASSUME ServiceAssumption == Pids \subseteq Nat \ {0} /\ Supervisors \subseteq Nat \ {0}

VARIABLES loaded,       \* the job is known to the service manager
          pidOf,        \* supervisor -> its PID, 0 before it starts
          strangers,    \* PIDs of processes of no concern to Brains
          stage,        \* supervisor -> "none", "up", "recorded", "told", "leaving", "gone"
          byJob,        \* the supervisors the service manager started
          pidfile,      \* the supervisor service.pid records, 0 without one
          legible,      \* the platform exposes the identity of a process
          op,           \* the stop under way: where it is and what it has read
          raced,        \* history: what the next step of the stop relies on has changed since it looked
          struck        \* history: the signal this stop sent: whom it meant, whom it hit, and raced then
serviceVars == <<loaded, pidOf, strangers, stage, byJob, pidfile, legible, op, raced, struck>>

Free == 0
Stranger == -1
Running == {s \in Supervisors : stage[s] \notin {"none", "gone"}}
Owner(pid) ==
    IF pid \in strangers THEN Stranger
    ELSE IF \E s \in Running : pidOf[s] = pid THEN CHOOSE s \in Running : pidOf[s] = pid
    ELSE Free
NoStop == [at |-> "idle", captured |-> 0, record |-> 0, verified |-> FALSE, unloaded |-> FALSE,
           kill |-> "none", check |-> "absent"]
NoSignal == [meant |-> 0, hit |-> Free, raced |-> FALSE]

ServiceTypeOK ==
    /\ loaded \in BOOLEAN /\ legible \in BOOLEAN /\ raced \in BOOLEAN
    /\ pidOf \in [Supervisors -> Pids \cup {0}] /\ strangers \subseteq Pids
    /\ stage \in [Supervisors -> {"none", "up", "recorded", "told", "leaving", "gone"}]
    /\ pidfile \in Supervisors \cup {0}
    /\ op.at \in {"idle", "read", "identify", "unload", "probe", "listing", "wait", "verify", "kill", "verdict",
                  "cleanup", "weigh", "readback", "unlink", "confirm", "stopped", "failed"}
    /\ op.check \in {"absent", "stale", "degraded", "verified", "lookalike", "mismatch"}
    /\ \A s \in Running : Owner(pidOf[s]) = s

ServiceInit ==
    /\ loaded = TRUE /\ pidOf = [s \in Supervisors |-> 0] /\ strangers = {} /\ stage = [s \in Supervisors |-> "none"]
    /\ byJob = {} /\ pidfile = 0 /\ legible \in BOOLEAN /\ op = NoStop /\ raced = FALSE /\ struck = NoSignal

----------------------------------------------------------------------------
(* Supervisors (external but for the PID file).                            *)

\* A PID is handed on: to a stop about to signal its owner, a race.
HandedOn(pid) == raced' = (raced \/ (op.at = "kill" /\ pidOf[op.record] = pid))

\* The listeners are free: every other supervisor has stopped its children or is gone.
Start(s) ==
    /\ stage[s] = "none" /\ \A other \in Running : stage[other] = "leaving"
    /\ \E pid \in Pids : Owner(pid) = Free /\ pidOf' = [pidOf EXCEPT ![s] = pid] /\ HandedOn(pid)
    /\ stage' = [stage EXCEPT ![s] = "up"]
    /\ \/ loaded /\ byJob \cap Running = {} /\ byJob' = byJob \cup {s}
       \/ UNCHANGED byJob
    /\ UNCHANGED <<loaded, strangers, pidfile, legible, op, struck>>
\* _write_pidfile; to a stop about to remove the file, a race.
Record(s) ==
    /\ stage[s] = "up"
    /\ stage' = [stage EXCEPT ![s] = "recorded"] /\ pidfile' = s
    /\ raced' = (raced \/ op.at = "unlink")
    /\ UNCHANGED <<loaded, pidOf, strangers, byJob, legible, op, struck>>
StopChildren(s) ==
    /\ stage[s] = "told"
    /\ stage' = [stage EXCEPT ![s] = "leaving"]
    /\ UNCHANGED <<loaded, pidOf, strangers, byJob, pidfile, legible, op, raced, struck>>
Vacate(s) == stage' = [stage EXCEPT ![s] = "gone"]
\* _clear_pidfile removes the file whoever wrote it.
Leave(s) ==
    /\ stage[s] = "leaving" /\ Vacate(s) /\ pidfile' = 0
    /\ UNCHANGED <<loaded, pidOf, strangers, byJob, legible, op, raced, struck>>
Crash(s) ==
    /\ s \in Running /\ Vacate(s)
    /\ UNCHANGED <<loaded, pidOf, strangers, byJob, pidfile, legible, op, raced, struck>>
Reuse(pid) ==
    /\ Owner(pid) \in {Free, Stranger}
    /\ strangers' = IF pid \in strangers THEN strangers \ {pid} ELSE strangers \cup {pid}
    /\ HandedOn(pid)
    /\ UNCHANGED <<loaded, pidOf, stage, byJob, pidfile, legible, op, struck>>

----------------------------------------------------------------------------
(* stop().                                                                 *)

\* verify_pid of a record: what the system says of the owner of its PID.  A stranger runs
\* another executable and started at another time; another supervisor only the latter.
Verify(record) ==
    IF record = 0 THEN "absent"
    ELSE IF Owner(pidOf[record]) = Free THEN "stale"
    ELSE IF ~legible THEN "degraded"
    ELSE IF Owner(pidOf[record]) = record THEN "verified"
    ELSE IF Owner(pidOf[record]) = Stranger THEN "mismatch"
    ELSE "lookalike"
NotRunning(check) == check \in {"absent", "stale"}
Changed == pidfile # op.record /\ pidfile # 0
ReusedAfterUnload == op.unloaded /\ op.verified /\ op.check = "mismatch"

Told(s) == IF s # Free /\ s # Stranger /\ stage[s] \in {"recorded", "up"} THEN [stage EXCEPT ![s] = "told"] ELSE stage

StopAt(at) == op' = [op EXCEPT !.at = at]
Fails == op' = [NoStop EXCEPT !.at = "failed"]
Learns(at) == op' = [op EXCEPT !.at = at, !.check = Verify(op.record)]
World == <<loaded, pidOf, strangers, stage, byJob, pidfile, legible>>
Keep == UNCHANGED <<World, struck>>

\* The bytes of the file, then the record in it, then whose PID that is.
Capture ==
    /\ op.at \in {"idle", "stopped", "failed"}
    /\ op' = [NoStop EXCEPT !.at = "read", !.captured = pidfile]
    /\ raced' = FALSE /\ struck' = NoSignal /\ UNCHANGED World
Read ==
    /\ op.at = "read"
    /\ op' = [op EXCEPT !.at = "identify", !.record = pidfile]
    /\ Keep /\ UNCHANGED raced
Identify ==
    /\ op.at = "identify"
    /\ op' = [op EXCEPT !.at = "unload", !.verified = Verify(op.record) = "verified"]
    /\ Keep /\ UNCHANGED raced

\* launchctl bootout: the manager ends the job's supervisor; it fails when nothing is loaded,
\* and sometimes when something is.
Unload ==
    /\ op.at = "unload"
    /\ \/ /\ loaded /\ loaded' = FALSE
          /\ stage' = IF byJob \cap Running = {} THEN stage ELSE Told(CHOOSE s \in byJob \cap Running : TRUE)
          /\ op' = [op EXCEPT !.unloaded = TRUE, !.at = "probe"]
       \/ StopAt("probe") /\ UNCHANGED <<loaded, stage>>
    /\ UNCHANGED <<pidOf, strangers, byJob, pidfile, legible, raced, struck>>
\* ps of the recorded PID, after the unload and after every turn of the wait.
Inspect ==
    /\ op.at = "probe"
    /\ \/ op.unloaded /\ Learns(IF op.record = 0 THEN "verdict" ELSE "wait")
       \/ ~op.unloaded /\ NotRunning(Verify(op.record)) /\ Learns("listing")
       \/ ~op.unloaded /\ ~NotRunning(Verify(op.record)) /\ Fails
    /\ Keep /\ UNCHANGED raced
\* Only a complete listing proves that the job is absent; the PID is looked at once more.
Listing ==
    /\ op.at = "listing"
    /\ \/ ~loaded /\ Learns("verdict")
       \/ Fails
    /\ Keep /\ UNCHANGED raced

\* A turn of the loop that waits for the recorded supervisor: it reads the file and goes by
\* what ps said before that.
Wait ==
    /\ op.at = "wait"
    /\ \/ Changed /\ Fails
       \/ ~Changed /\ StopAt("verdict")      \* gone, reused, not signalled, or out of time
       \/ ~Changed /\ op.check = "verified" /\ op.kill = "none" /\ StopAt("verify")
       \/ /\ ~Changed /\ ~NotRunning(op.check) /\ op.check # "mismatch"
          /\ ~(op.check = "verified" /\ op.kill # "sent")
          /\ StopAt("probe")
    /\ Keep /\ UNCHANGED raced
BugVerifyAgain ==
    /\ op.at = "verify"
    /\ StopAt("kill")
    /\ raced' = FALSE /\ Keep
\* ps once more before the signal.
VerifyAgain ==
    /\ op.at = "verify"
    /\ Learns(IF Verify(op.record) = "verified" THEN "kill" ELSE "wait")
    /\ raced' = FALSE /\ Keep
\* /bin/kill -TERM, a program of its own: it strikes whoever has the PID by now.
Kill ==
    /\ op.at = "kill"
    /\ LET hit == Owner(pidOf[op.record])
       IN  /\ op' = [op EXCEPT !.at = "probe", !.kill = IF hit = Free THEN "refused" ELSE "sent"]
           /\ struck' = [meant |-> op.record, hit |-> hit, raced |-> raced]
           /\ stage' = Told(hit)
    /\ raced' = FALSE
    /\ UNCHANGED <<loaded, pidOf, strangers, byJob, pidfile, legible>>

\* By what ps said last, if the file is still the one that was read, or gone.
Verdict ==
    /\ op.at = "verdict"
    /\ IF (NotRunning(op.check) \/ ReusedAfterUnload) /\ ~Changed THEN StopAt("cleanup") ELSE Fails
    /\ Keep /\ UNCHANGED raced

(* cleanup_stale_pidfile, bound to the bytes that were captured.           *)

\* It reads the file for the bytes and the record: one that differs is left alone.
Cleanup ==
    /\ op.at = "cleanup"
    /\ IF pidfile # 0 /\ pidfile = op.captured THEN StopAt("weigh") ELSE StopAt("confirm")
    /\ Keep /\ UNCHANGED raced
\* ps of the PID in it; one that runs keeps its record, unless the PID was seen to be reused.
Weigh ==
    /\ op.at = "weigh"
    /\ IF Verify(op.captured) = "stale" \/ (ReusedAfterUnload /\ Verify(op.captured) = "mismatch")
       THEN StopAt("readback") ELSE Fails
    /\ Keep /\ UNCHANGED raced
BugReadBack ==
    /\ op.at = "readback"
    /\ StopAt("unlink")
    /\ raced' = FALSE /\ Keep
ReadBack ==
    /\ op.at = "readback"
    /\ IF pidfile = op.captured THEN StopAt("unlink") ELSE StopAt("confirm")
    /\ raced' = FALSE /\ Keep
\* "a cooperative readback guard, not an atomic compare-and-unlink": whatever is there goes.
Unlink ==
    /\ op.at = "unlink"
    /\ pidfile' = 0 /\ StopAt("confirm")
    /\ raced' = FALSE
    /\ UNCHANGED <<loaded, pidOf, strangers, stage, byJob, legible, struck>>
\* default_pidfile_path().exists()
Confirm ==
    /\ op.at = "confirm"
    /\ IF pidfile = 0 THEN op' = [NoStop EXCEPT !.at = "stopped", !.record = op.record] ELSE Fails
    /\ Keep /\ UNCHANGED raced
\* restart(): started again only after a stop that is complete.
StartAgain ==
    /\ op.at = "stopped" /\ ~loaded /\ loaded' = TRUE
    /\ UNCHANGED <<pidOf, strangers, stage, byJob, pidfile, legible, op, raced, struck>>

StopStep ==
    \/ Capture \/ Read \/ Identify \/ Unload \/ Inspect \/ Listing \/ Wait \/ VerifyAgain \/ Kill \/ Verdict
    \/ Cleanup \/ Weigh \/ ReadBack \/ Unlink \/ Confirm \/ StartAgain
ServiceNext ==
    \/ StopStep
    \/ \E s \in Supervisors : Start(s) \/ Record(s) \/ StopChildren(s) \/ Leave(s) \/ Crash(s)
    \/ \E pid \in Pids : Reuse(pid)

----------------------------------------------------------------------------
\* stop() reports ok only when the supervisor it read of is gone, though PIDs are handed on,
\* deadlines pass and the manager fails: a restart never runs beside its predecessor.
StopIsTrue == op.at = "stopped" /\ op.record # 0 => stage[op.record] = "gone"

\* "signal only the recorded process instance" (macos.py:174): a PID handed to another process
\* is not struck.  The code does not keep this always: between the ps that verifies and the kill
\* the PID may change hands.  A signal that went astray did so in that window, and in no other.
OnlyTheRecorded == struck.hit \in {struck.meant, Free} \/ struck.raced

\* "Do not follow or discard a replacement supervisor's PID record" (macos.py:248): the record of
\* a supervisor that runs is not taken away by somebody else's stop.  The code does not keep this
\* always either: a record written between the read back and the unlink is lost, and in no
\* other window.
ReplacementKept == StopStep /\ pidfile \in Running /\ pidfile' # pidfile => op.at = "unlink" /\ raced
=============================================================================
