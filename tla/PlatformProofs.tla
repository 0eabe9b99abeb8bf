--------------------------- MODULE PlatformProofs ---------------------------
(***************************************************************************)
(* The safety of what a host runs beside the coordination: the supervisor  *)
(* and its threads, the stop of the native service, the credential store   *)
(* and the migrations, for any number of starts, PIDs, supervisors, keys,  *)
(* processes and builds; and of what it keeps outside one transaction: the *)
(* backups and restores of the store, the repair of its rows, the settings *)
(* file of another program and the identity of a native session, for any   *)
(* pages, rows, Orgs, processes, edits, Sessions, secrets and deaths.      *)
(***************************************************************************)
EXTENDS MCPlatform, MCCustody, FiniteSetTheorems, WellFoundedInduction, TLAPS

-----------------------------------------------------------------------------
(* The supervisor.  Only the newest start can be alive, and nothing is at   *)
(* the points from which another one is started.                           *)

Quiet == {"off", "loop", "spawn", "after", "pausing", "done"}

SuperInv ==
    /\ SuperTypeOK
    /\ \A n \in Starts : Alive(n) => n = proc /\ supervise \notin Quiet
    /\ supervise \in {"clear", "reading"} => proc \in Starts

\* The threads that start, wait and restart.
LEMMA SuperThreadKeeps ==
    ASSUME SuperInv, StartChild \/ ThreadStep
    PROVE  SuperInv'
<1> USE DEF SuperInv, SuperTypeOK
<1>1. CASE StartChild
  BY <1>1 DEF StartChild, Alive, Quiet
<1>2. CASE Loop
  BY <1>2 DEF Loop, Alive, Quiet
<1>3. CASE Spawn
  <2>1. \A n \in Starts : Alive(n)' => n = proc + 1
    BY <1>3 DEF Spawn, Alive, Quiet
  <2>2. process' \in [Starts -> {"none", "starting", "serving", "deaf", "ended"}] /\ proc' \in Starts
    BY <1>3 DEF Spawn
  <2> QED BY <1>3, <2>1, <2>2 DEF Spawn, Quiet
<1>4. CASE StartWatcher
  <2>1. [watcher[proc] EXCEPT !.at = "watching"] \in
           [at : {"none", "watching", "done"}, ready : BOOLEAN, misses : 0..(LISTENER_FAILURE_LIMIT - 1)]
    BY <1>4 DEF StartWatcher
  <2>2. watcher' \in [Starts -> [at : {"none", "watching", "done"}, ready : BOOLEAN,
                                 misses : 0..(LISTENER_FAILURE_LIMIT - 1)]]
    BY <1>4, <2>1 DEF StartWatcher
  <2> QED BY <1>4, <2>2 DEF StartWatcher, Alive, Quiet
<1>5. CASE Reaped
  BY <1>5 DEF Reaped, Alive, Quiet
<1>6. CASE After
  BY <1>6 DEF After, Alive, Quiet
<1>7. CASE Paused
  BY <1>7 DEF Paused, Alive, Quiet
<1>8. CASE SpawnFails
  <2>1. faults' \in 0..MaxFaults
    BY <1>8, SupervisorAssumption DEF SpawnFails
  <2> QED BY <1>8, <2>1 DEF SpawnFails, Alive, Quiet
<1> QED BY <1>1, <1>2, <1>3, <1>4, <1>5, <1>6, <1>7, <1>8 DEF ThreadStep

\* The watchers and the processes.
LEMMA WatcherKeeps ==
    ASSUME SuperInv, NEW n \in Starts, Probe(n) \/ Listens(n) \/ Fail(n) \/ End(n)
    PROVE  SuperInv'
<1> USE DEF SuperInv, SuperTypeOK
<1> DEFINE Watching == [at : {"none", "watching", "done"}, ready : BOOLEAN, misses : 0..(LISTENER_FAILURE_LIMIT - 1)]
<1>1. CASE Probe(n)
  <2>1. UNCHANGED <<process, proc, supervise, main, stop, watchStop, overlooked, faults>>
    BY <1>1 DEF Probe
  <2>2. signalled' \subseteq Starts
    BY <1>1 DEF Probe, Terminate
  <2>3. watcher[n] \in Watching
    OBVIOUS
  <2>4. [watcher[n] EXCEPT !.at = "done"] \in Watching
    BY <2>3
  <2>5. [watcher[n] EXCEPT !.ready = TRUE, !.misses = 0] \in Watching
    <3>1. 0 \in 0..(LISTENER_FAILURE_LIMIT - 1)
      BY SupervisorAssumption
    <3> QED BY <2>3, <3>1
  <2>6. ~TooMany(watcher[n].misses + 1) => [watcher[n] EXCEPT !.misses = watcher[n].misses + 1] \in Watching
    BY <2>3, SupervisorAssumption DEF TooMany
  <2>7. \E record \in Watching : watcher' = [watcher EXCEPT ![n] = record]
    BY <1>1, <2>4, <2>5, <2>6, Zenon DEF Probe, Watched
  <2>8. watcher' \in [Starts -> Watching]
    BY <2>7
  <2> QED BY <2>1, <2>2, <2>8 DEF Alive
<1>2. CASE Listens(n)
  BY <1>2 DEF Listens, Become, Alive
<1>3. CASE Fail(n)
  <2>1. faults' \in 0..MaxFaults
    BY <1>3, SupervisorAssumption DEF Fail
  <2> QED BY <1>3, <2>1 DEF Fail, Become, Alive
<1>4. CASE End(n)
  BY <1>4 DEF End, Become, Alive
<1> QED BY <1>1, <1>2, <1>3, <1>4

\* The main thread.
LEMMA MainKeeps ==
    ASSUME SuperInv, MainStep \/ Signal
    PROVE  SuperInv'
<1> USE DEF SuperInv, SuperTypeOK
<1>1. CASE StopProc
  BY <1>1 DEF StopProc, Terminate, Alive
<1>2. CASE Stopped
  BY <1>2 DEF Stopped, Alive
<1>3. CASE Exit
  BY <1>3 DEF Exit, Alive
<1>4. CASE Signal
  BY <1>4 DEF Signal, Alive
<1> QED BY <1>1, <1>2, <1>3, <1>4 DEF MainStep

LEMMA SuperSteps ==
    ASSUME SuperInv, [SuperNext]_superVars
    PROVE  SuperInv'
<1>1. CASE UNCHANGED superVars
  BY <1>1 DEF superVars, SuperInv, SuperTypeOK, Alive
<1> QED BY <1>1, SuperThreadKeeps, WatcherKeeps, MainKeeps DEF SuperNext

LEMMA SuperBegins ==
    ASSUME SuperInit
    PROVE  SuperInv
<1>1. 0 \in 0..(LISTENER_FAILURE_LIMIT - 1) /\ 0 \in 0..MaxFaults
  BY SupervisorAssumption
<1>2. watcher \in [Starts -> [at : {"none", "watching", "done"}, ready : BOOLEAN,
                              misses : 0..(LISTENER_FAILURE_LIMIT - 1)]]
  BY <1>1 DEF SuperInit, NoWatcher
<1> QED BY <1>1, <1>2 DEF SuperInit, SuperInv, SuperTypeOK, Alive, Quiet

LEMMA SuperFollows ==
    ASSUME SuperInv
    PROVE  SuperTypeOK /\ OneProcess
<1> DEFINE alive == {n \in Starts : Alive(n)}
<1>1. alive \subseteq {proc}
  BY DEF SuperInv
<1>2. IsFiniteSet({proc}) /\ Cardinality({proc}) = 1
  BY FS_Singleton
<1>3. Cardinality(alive) <= 1
  BY <1>1, <1>2, FS_Subset
<1> QED BY <1>3 DEF SuperInv, OneProcess

\* control/supervisor.py, _spawn_once and Child.stop: whatever the three threads do and the
\* processes suffer, a Child has one process at a time.
THEOREM OneProcessAtATime == SuperInit /\ [][SuperNext]_superVars => []OneProcess
<1>1. SuperInv => OneProcess
  BY SuperFollows
<1> QED BY <1>1, SuperBegins, SuperSteps, PTL

-----------------------------------------------------------------------------
(* The native service.  A PID belongs to one supervisor that runs, so what  *)
(* the system says of a recorded PID tells whether its supervisor is gone,  *)
(* and stays true of it however late the stop acts on it; what it says of   *)
(* a PID that runs, and of a file that names one, may be out of date by     *)
(* then, and `raced` tells when.                                           *)

Stop == [at : {"idle", "read", "identify", "unload", "probe", "listing", "wait", "verify", "kill", "verdict",
               "cleanup", "weigh", "readback", "unlink", "confirm", "stopped", "failed"},
         captured : Supervisors \cup {0}, record : Supervisors \cup {0}, verified : BOOLEAN, unloaded : BOOLEAN,
         kill : {"none", "sent", "refused"},
         check : {"absent", "stale", "degraded", "verified", "lookalike", "mismatch"}]
Stage == {"none", "up", "recorded", "told", "leaving", "gone"}

ServiceTyped ==
    /\ loaded \in BOOLEAN /\ legible \in BOOLEAN /\ raced \in BOOLEAN
    /\ pidOf \in [Supervisors -> Pids \cup {0}] /\ strangers \subseteq Pids
    /\ stage \in [Supervisors -> Stage] /\ pidfile \in Supervisors \cup {0} /\ op \in Stop

\* Nobody shares the PID of a supervisor that runs.
PidsApart ==
    \A s \in Running : pidOf[s] \notin strangers /\ \A t \in Running : pidOf[t] = pidOf[s] => t = s

\* Where the last look at the recorded PID counts, and where the stop is past it.
Looked == {"listing", "wait", "verify", "kill", "verdict", "cleanup", "weigh", "readback", "unlink", "confirm"}
Judged == {"cleanup", "weigh", "readback", "unlink", "confirm", "stopped"}
PidOver == {"absent", "stale", "mismatch"}

\* A record names a supervisor that has started; one seen to be over is gone, and so is one
\* whose file is about to be removed.
RecordsAreTrue ==
    /\ \A s \in {pidfile, op.captured, op.record} : s # 0 => stage[s] # "none"
    /\ op.at \in Looked /\ op.check \in PidOver /\ op.record # 0 => stage[op.record] = "gone"
    /\ op.at \in Judged /\ op.record # 0 => stage[op.record] = "gone"
    /\ op.at \in {"readback", "unlink"} => op.captured # 0 /\ stage[op.captured] = "gone"

\* No process but the recorded one has its PID.
Unshared(record) == pidOf[record] \notin strangers /\ \A t \in Running : pidOf[t] = pidOf[record] => t = record

\* Unless it is raced, a stop about to signal has the right process, and one about to remove
\* the file the right file.
LooksHold ==
    /\ op.at = "kill" => op.record # 0 /\ (raced \/ Unshared(op.record))
    /\ op.at = "unlink" => raced \/ pidfile \in {0, op.captured}

ServiceInv == ServiceTyped /\ PidsApart /\ RecordsAreTrue /\ LooksHold /\ OnlyTheRecorded

\* The owner of the PID of a supervisor that runs is that supervisor.
LEMMA OwnPid ==
    ASSUME ServiceTyped, PidsApart, NEW s \in Running
    PROVE  Owner(pidOf[s]) = s
<1>1. pidOf[s] \notin strangers
  BY DEF PidsApart
<1>2. \E t \in Running : pidOf[t] = pidOf[s]
  OBVIOUS
<1>3. (CHOOSE t \in Running : pidOf[t] = pidOf[s]) \in Running
      /\ pidOf[CHOOSE t \in Running : pidOf[t] = pidOf[s]] = pidOf[s]
  BY <1>2
<1> QED BY <1>1, <1>2, <1>3 DEF PidsApart, Owner

\* Supervisors are positive numbers: none of them is nobody, or a stranger.
LEMMA Supervised0 ==
    ASSUME NEW s \in Supervisors
    PROVE  s # Free /\ s # Stranger /\ s # 0
BY ServiceAssumption DEF Free, Stranger

\* Whoever has a PID: nobody, a stranger, or a supervisor that runs.
LEMMA Owners ==
    ASSUME NEW pid
    PROVE  /\ Owner(pid) \in {Free, Stranger} \cup Running
           /\ Owner(pid) \in Running => pid \notin strangers /\ pidOf[Owner(pid)] = pid
           /\ Owner(pid) = Stranger => pid \in strangers
<1>1. (\E s \in Running : pidOf[s] = pid) =>
        /\ (CHOOSE s \in Running : pidOf[s] = pid) \in Running
        /\ pidOf[CHOOSE s \in Running : pidOf[s] = pid] = pid
  OBVIOUS
<1>2. Free \notin Running /\ Stranger \notin Running /\ Free # Stranger
  BY Supervised0 DEF Running, Free, Stranger
<1> QED BY <1>1, <1>2 DEF Owner

\* What the system says of a recorded PID, if it says that nothing runs there or somebody else.
LEMMA OverIsGone ==
    ASSUME ServiceTyped, PidsApart, NEW record \in Supervisors \cup {0}, record # 0 => stage[record] # "none",
           record # 0, Verify(record) \in PidOver
    PROVE  stage[record] = "gone"
<1>1. record \in Supervisors /\ stage[record] \in Stage
  BY DEF ServiceTyped
<1>2. ASSUME record \in Running PROVE FALSE
  <2>1. Owner(pidOf[record]) = record /\ record # Free
    BY <1>1, <1>2, OwnPid, Supervised0
  <2> QED BY <2>1 DEF Verify, PidOver
<1> QED BY <1>1, <1>2 DEF Running, Stage

\* If it says that the recorded process runs there, nobody else does.
LEMMA VerifiedIsUnshared ==
    ASSUME ServiceTyped, PidsApart, NEW record \in Supervisors \cup {0}, Verify(record) = "verified"
    PROVE  record # 0 /\ Unshared(record)
<1>1. record \in Supervisors /\ Owner(pidOf[record]) = record
  BY DEF Verify
<1>2. record \in Running /\ pidOf[record] \notin strangers
  BY <1>1, Owners, Supervised0
<1> QED BY <1>1, <1>2, Supervised0 DEF PidsApart, Unshared

\* Supervisors that come up, record themselves, leave or die, and PIDs that are handed on.
LEMMA SupervisorKeeps ==
    ASSUME ServiceInv,
           \/ \E s \in Supervisors : Start(s) \/ Record(s) \/ StopChildren(s) \/ Leave(s) \/ Crash(s)
           \/ \E pid \in Pids : Reuse(pid)
    PROVE  ServiceInv'
<1> USE DEF ServiceInv, ServiceTyped
<1>0. op.record \in Supervisors \cup {0} /\ op.captured \in Supervisors \cup {0}
  BY DEF Stop
<1>1. ASSUME NEW s \in Supervisors, Start(s) PROVE ServiceInv'
  <2>1. PICK pid \in Pids : Owner(pid) = Free /\ pidOf' = [pidOf EXCEPT ![s] = pid] /\ HandedOn(pid)
    BY <1>1 DEF Start
  <2>2. stage' = [stage EXCEPT ![s] = "up"] /\ stage[s] = "none"
        /\ UNCHANGED <<loaded, strangers, pidfile, legible, op, struck>>
    BY <1>1 DEF Start
  <2>3. Running' = Running \cup {s} /\ s \notin Running
    BY <2>2 DEF Running, Stage
  <2>4. pid \notin strangers
    BY <2>1 DEF Owner, Free, Stranger
  <2>5. ASSUME NEW t \in Running PROVE pidOf[t] # pid
    BY <2>1, <2>5, OwnPid, Supervised0 DEF Running
  <2>6. PidsApart'
    BY <2>1, <2>2, <2>3, <2>4, <2>5 DEF PidsApart, Running
  <2>7. RecordsAreTrue'
    BY <1>0, <2>2, Supervised0 DEF RecordsAreTrue
  <2>8. raced' = (raced \/ (op.at = "kill" /\ pidOf[op.record] = pid)) /\ raced' \in BOOLEAN
    BY <2>1 DEF HandedOn
  <2>9. LooksHold'
    <3>1. CASE op.at = "kill" /\ ~raced'
      <4>1. op.record \in Supervisors /\ op.record # s /\ Unshared(op.record) /\ pidOf[op.record] # pid
        BY <1>0, <2>2, <2>8, <3>1 DEF LooksHold, RecordsAreTrue
      <4>2. pidOf'[op.record] = pidOf[op.record] /\ pidOf'[s] = pid
        BY <2>1, <4>1
      <4>3. \A t \in Running : pidOf'[t] = pidOf[t]
        BY <2>1, <2>3 DEF Running
      <4>4. Unshared(op.record)'
        BY <2>2, <2>3, <4>1, <4>2, <4>3 DEF Unshared
      <4> QED BY <2>2, <3>1, <4>1, <4>4, Supervised0 DEF LooksHold
    <3> QED BY <2>2, <2>8, <3>1 DEF LooksHold
  <2> QED BY <2>1, <2>2, <2>6, <2>7, <2>8, <2>9 DEF Stage, OnlyTheRecorded
<1>2. ASSUME NEW s \in Supervisors, Record(s) PROVE ServiceInv'
  <2>1. /\ stage' = [stage EXCEPT ![s] = "recorded"] /\ stage[s] = "up" /\ pidfile' = s
        /\ raced' = (raced \/ op.at = "unlink") /\ raced' \in BOOLEAN
        /\ UNCHANGED <<loaded, pidOf, strangers, legible, op, struck>>
    BY <1>2 DEF Record
  <2>2. Running' = Running
    BY <2>1 DEF Running, Stage
  <2>3. RecordsAreTrue'
    BY <1>0, <2>1 DEF RecordsAreTrue
  <2>4. LooksHold' /\ PidsApart'
    BY <2>1, <2>2 DEF LooksHold, Unshared, PidsApart
  <2> QED BY <2>1, <2>3, <2>4 DEF Stage, OnlyTheRecorded
<1>3. ASSUME NEW s \in Supervisors, StopChildren(s) PROVE ServiceInv'
  <2>1. /\ stage' = [stage EXCEPT ![s] = "leaving"] /\ stage[s] = "told"
        /\ UNCHANGED <<loaded, pidOf, strangers, pidfile, legible, op, raced, struck>>
    BY <1>3 DEF StopChildren
  <2>2. Running' = Running
    BY <2>1 DEF Running, Stage
  <2>3. RecordsAreTrue'
    BY <1>0, <2>1 DEF RecordsAreTrue
  <2>4. LooksHold' /\ PidsApart'
    BY <2>1, <2>2 DEF LooksHold, Unshared, PidsApart
  <2> QED BY <2>1, <2>3, <2>4 DEF Stage, OnlyTheRecorded
<1>4. ASSUME NEW s \in Supervisors, Leave(s) \/ Crash(s) PROVE ServiceInv'
  <2>1. /\ stage' = [stage EXCEPT ![s] = "gone"] /\ s \in Running /\ pidfile' \in {pidfile, 0}
        /\ UNCHANGED <<loaded, pidOf, strangers, legible, op, raced, struck>>
    BY <1>4 DEF Leave, Crash, Vacate, Running
  <2>2. Running' \subseteq Running
    BY <2>1 DEF Running, Stage
  <2>3. RecordsAreTrue'
    BY <1>0, <2>1 DEF RecordsAreTrue, Running
  <2>4. LooksHold' /\ PidsApart'
    BY <2>1, <2>2 DEF LooksHold, Unshared, PidsApart
  <2> QED BY <2>1, <2>3, <2>4 DEF Stage, OnlyTheRecorded
<1>5. ASSUME NEW pid \in Pids, Reuse(pid) PROVE ServiceInv'
  <2>1. /\ Owner(pid) \in {Free, Stranger} /\ strangers' \in {strangers \ {pid}, strangers \cup {pid}}
        /\ raced' = (raced \/ (op.at = "kill" /\ pidOf[op.record] = pid)) /\ raced' \in BOOLEAN
        /\ UNCHANGED <<loaded, pidOf, stage, pidfile, legible, op, struck>>
    BY <1>5 DEF Reuse, HandedOn
  <2>2. ASSUME NEW t \in Running PROVE pidOf[t] # pid
    BY <2>1, OwnPid, Supervised0 DEF Running
  <2>3. PidsApart'
    BY <2>1, <2>2 DEF PidsApart, Running
  <2>4. RecordsAreTrue'
    BY <2>1 DEF RecordsAreTrue
  <2>5. LooksHold'
    BY <2>1, <2>2 DEF LooksHold, Unshared, Running
  <2> QED BY <2>1, <2>3, <2>4, <2>5 DEF OnlyTheRecorded
<1> QED BY <1>1, <1>2, <1>3, <1>4, <1>5

\* A supervisor that is told to leave still runs, and no other one starts to.
LEMMA TellingKeeps ==
    ASSUME ServiceInv, NEW s, stage' = Told(s), UNCHANGED <<pidOf, strangers>>
    PROVE  /\ stage' \in [Supervisors -> Stage] /\ PidsApart' /\ Running' = Running
           /\ \A t \in Supervisors : (stage'[t] = "gone" <=> stage[t] = "gone") /\ (stage'[t] = "none" <=> stage[t] = "none")
<1>1. /\ stage' \in [Supervisors -> Stage]
      /\ \A t \in Supervisors : (stage'[t] = "gone" <=> stage[t] = "gone") /\ (stage'[t] = "none" <=> stage[t] = "none")
  BY DEF ServiceInv, ServiceTyped, Told, Stage
<1>2. Running' = Running
  BY <1>1 DEF Running
<1> QED BY <1>1, <1>2 DEF ServiceInv, PidsApart

\* A step of the stop that only reads, or writes what it has read.
LEMMA ReadingKeeps ==
    ASSUME ServiceInv, UNCHANGED World, op' \in Stop, raced' \in BOOLEAN,
           RecordsAreTrue', LooksHold', struck' \in {struck, NoSignal}
    PROVE  ServiceInv' /\ ReplacementKept
<1>1. OnlyTheRecorded'
  BY DEF ServiceInv, OnlyTheRecorded, NoSignal, Free
<1>2. UNCHANGED <<loaded, pidOf, strangers, stage, byJob, pidfile, legible>>
  BY DEF World
<1>3. ServiceTyped' /\ PidsApart'
  BY <1>2 DEF ServiceInv, ServiceTyped, PidsApart, Running
<1>4. ReplacementKept
  BY <1>2 DEF ReplacementKept
<1> QED BY <1>1, <1>3, <1>4 DEF ServiceInv

\* One that moves on without a look, to where less depends on the last one.
LEMMA GoingKeeps ==
    ASSUME ServiceInv, Keep, raced' \in BOOLEAN, NEW at, StopAt(at),
           at \in {"wait", "verify", "probe", "verdict", "cleanup", "weigh", "confirm"},
           at \in Looked => op.at \in Looked, at \in Judged /\ op.record # 0 => stage[op.record] = "gone"
    PROVE  ServiceInv' /\ ReplacementKept
<1>1. op \in Stop /\ op' = [op EXCEPT !.at = at]
  BY DEF ServiceInv, ServiceTyped, StopAt
<1>2. op' \in Stop /\ op'.at = at /\ op'.record = op.record /\ op'.captured = op.captured /\ op'.check = op.check
  BY <1>1 DEF Stop
<1>3. UNCHANGED <<stage, pidfile>> /\ UNCHANGED World /\ struck' = struck
  BY DEF Keep, World
<1>4. RecordsAreTrue' /\ LooksHold'
  BY <1>2, <1>3 DEF ServiceInv, RecordsAreTrue, LooksHold, Judged
<1> QED BY <1>2, <1>3, <1>4, ReadingKeeps

\* One that fails.
LEMMA FailingKeeps ==
    ASSUME ServiceInv, Keep, raced' \in BOOLEAN, Fails
    PROVE  ServiceInv' /\ ReplacementKept
<1>1. op' = [at |-> "failed", captured |-> 0, record |-> 0, verified |-> FALSE, unloaded |-> FALSE,
             kill |-> "none", check |-> "absent"]
  BY DEF Fails, NoStop
<1>2. op' \in Stop
  BY <1>1 DEF Stop
<1>3. UNCHANGED <<stage, pidfile>> /\ UNCHANGED World /\ struck' = struck
  BY DEF Keep, World
<1>4. RecordsAreTrue' /\ LooksHold'
  BY <1>1, <1>3 DEF ServiceInv, RecordsAreTrue, LooksHold, Judged, Looked
<1> QED BY <1>2, <1>3, <1>4, ReadingKeeps

\* One that looks at the recorded PID.
LEMMA LearningKeeps ==
    ASSUME ServiceInv, Keep, raced' \in BOOLEAN, NEW at, Learns(at),
           \/ at \in {"listing", "wait", "verdict"}
           \/ at = "kill" /\ Verify(op.record) = "verified"
    PROVE  ServiceInv' /\ ReplacementKept
<1>1. op \in Stop /\ op' = [op EXCEPT !.at = at, !.check = Verify(op.record)]
  BY DEF ServiceInv, ServiceTyped, Learns
<1>2. Verify(op.record) \in {"absent", "stale", "degraded", "verified", "lookalike", "mismatch"}
  BY DEF Verify
<1>3. op' \in Stop /\ op'.at = at /\ op'.record = op.record /\ op'.captured = op.captured
      /\ op'.check = Verify(op.record) /\ op.record \in Supervisors \cup {0}
  BY <1>1, <1>2 DEF Stop
<1>4. UNCHANGED <<stage, pidfile, pidOf, strangers>> /\ UNCHANGED World /\ struck' = struck
  BY DEF Keep, World
<1>5. Verify(op.record) \in PidOver /\ op.record # 0 => stage[op.record] = "gone"
  BY <1>3, OverIsGone DEF ServiceInv, RecordsAreTrue
<1>6. RecordsAreTrue'
  BY <1>3, <1>4, <1>5 DEF ServiceInv, RecordsAreTrue, Judged
<1>7. at = "kill" => op.record # 0 /\ Unshared(op.record)
  BY <1>3, VerifiedIsUnshared DEF ServiceInv
<1>8. Running' = Running
  BY <1>4 DEF Running
<1>9. LooksHold'
  BY <1>3, <1>4, <1>7, <1>8 DEF LooksHold, Unshared
<1> QED BY <1>3, <1>4, <1>6, <1>9, ReadingKeeps

\* The stop reads what it has to end, and unloads the job.
LEMMA StopBeginsKeeps ==
    ASSUME ServiceInv, Capture \/ Read \/ Identify \/ Unload \/ StartAgain
    PROVE  ServiceInv' /\ ReplacementKept
<1> USE DEF ServiceInv, ServiceTyped
<1>1. CASE Capture
  <2>1. op' = [at |-> "read", captured |-> pidfile, record |-> 0, verified |-> FALSE, unloaded |-> FALSE,
               kill |-> "none", check |-> "absent"]
    BY <1>1 DEF Capture, NoStop
  <2>2. op' \in Stop
    BY <2>1 DEF Stop
  <2>3. UNCHANGED <<stage, pidfile>> /\ UNCHANGED World /\ struck' = NoSignal /\ raced' \in BOOLEAN
    BY <1>1 DEF Capture, World
  <2>4. RecordsAreTrue' /\ LooksHold'
    BY <2>1, <2>3 DEF RecordsAreTrue, LooksHold, Looked, Judged
  <2> QED BY <2>2, <2>3, <2>4, ReadingKeeps
<1>2. CASE Read
  <2>1. op' \in Stop /\ op'.at = "identify" /\ op'.record = pidfile /\ op'.captured = op.captured
    BY <1>2 DEF Read, Stop
  <2>2. UNCHANGED <<stage, pidfile>> /\ UNCHANGED World /\ struck' = struck /\ raced' = raced
    BY <1>2 DEF Read, Keep, World
  <2>3. RecordsAreTrue' /\ LooksHold'
    BY <2>1, <2>2 DEF RecordsAreTrue, LooksHold, Looked, Judged
  <2> QED BY <2>1, <2>2, <2>3, ReadingKeeps
<1>3. CASE Identify
  <2>1. op' \in Stop /\ op'.at = "unload" /\ op'.record = op.record /\ op'.captured = op.captured
    BY <1>3 DEF Identify, Stop
  <2>2. UNCHANGED <<stage, pidfile>> /\ UNCHANGED World /\ struck' = struck /\ raced' = raced
    BY <1>3 DEF Identify, Keep, World
  <2>3. RecordsAreTrue' /\ LooksHold'
    BY <2>1, <2>2 DEF RecordsAreTrue, LooksHold, Looked, Judged
  <2> QED BY <2>1, <2>2, <2>3, ReadingKeeps
<1>4. CASE Unload
  <2>1. UNCHANGED <<pidOf, strangers, byJob, pidfile, legible, raced, struck>> /\ loaded' \in BOOLEAN
    BY <1>4 DEF Unload
  <2>2. op' \in Stop /\ op'.record = op.record /\ op'.captured = op.captured /\ op'.at = "probe"
    BY <1>4 DEF Unload, StopAt, Stop
  <2>3. stage' = stage \/ \E s : stage' = Told(s)
    BY <1>4 DEF Unload
  <2>4. /\ stage' \in [Supervisors -> Stage] /\ PidsApart'
        /\ \A t \in Supervisors : (stage'[t] = "gone" <=> stage[t] = "gone") /\ (stage'[t] = "none" <=> stage[t] = "none")
    <3>1. CASE stage' = stage
      BY <2>1, <3>1 DEF PidsApart, Running
    <3> QED BY <2>1, <2>3, <3>1, TellingKeeps
  <2>5. op'.record \in Supervisors \cup {0} /\ op'.captured \in Supervisors \cup {0}
    BY <2>2 DEF Stop
  <2>6. RecordsAreTrue' /\ LooksHold'
    BY <2>1, <2>2, <2>4, <2>5 DEF RecordsAreTrue, LooksHold, Looked, Judged
  <2> QED BY <2>1, <2>2, <2>4, <2>6 DEF OnlyTheRecorded, ReplacementKept
<1>5. CASE StartAgain
  <2>1. UNCHANGED <<pidOf, strangers, stage, byJob, pidfile, legible, op, raced, struck>> /\ loaded' \in BOOLEAN
    BY <1>5 DEF StartAgain
  <2> QED BY <2>1 DEF RecordsAreTrue, LooksHold, Unshared, PidsApart, Running, OnlyTheRecorded, ReplacementKept
<1> QED BY <1>1, <1>2, <1>3, <1>4, <1>5

\* It waits for the recorded supervisor, and signals it.
LEMMA WaitingKeeps ==
    ASSUME ServiceInv, Inspect \/ Listing \/ Wait \/ VerifyAgain \/ Kill
    PROVE  ServiceInv' /\ ReplacementKept
<1> USE DEF ServiceInv, ServiceTyped
<1>1. CASE Inspect
  BY <1>1, LearningKeeps, FailingKeeps DEF Inspect
<1>2. CASE Listing
  BY <1>2, LearningKeeps, FailingKeeps DEF Listing
<1>3. CASE Wait
  <2>1. Keep /\ raced' \in BOOLEAN /\ op.at \in Looked
    BY <1>3 DEF Wait, Looked
  <2>2. Fails \/ StopAt("verdict") \/ StopAt("verify") \/ StopAt("probe")
    BY <1>3 DEF Wait
  <2> QED BY <2>1, <2>2, GoingKeeps, FailingKeeps DEF Judged
<1>4. CASE VerifyAgain
  <2>1. Keep /\ raced' \in BOOLEAN
    BY <1>4 DEF VerifyAgain
  <2> QED BY <1>4, <2>1, LearningKeeps DEF VerifyAgain
<1>5. CASE Kill
  <2> DEFINE hit == Owner(pidOf[op.record])
  <2>1. /\ op' = [op EXCEPT !.at = "probe", !.kill = IF hit = Free THEN "refused" ELSE "sent"]
        /\ struck' = [meant |-> op.record, hit |-> hit, raced |-> raced] /\ stage' = Told(hit) /\ raced' = FALSE
        /\ UNCHANGED <<loaded, pidOf, strangers, byJob, pidfile, legible>> /\ op.at = "kill"
    BY <1>5 DEF Kill
  <2>2. op' \in Stop /\ op'.at = "probe" /\ op'.record = op.record /\ op'.captured = op.captured
        /\ op.record \in Supervisors \cup {0} /\ op.captured \in Supervisors \cup {0}
    BY <2>1 DEF Stop
  <2>3. /\ stage' \in [Supervisors -> Stage] /\ PidsApart'
        /\ \A t \in Supervisors : (stage'[t] = "gone" <=> stage[t] = "gone") /\ (stage'[t] = "none" <=> stage[t] = "none")
    BY <2>1, TellingKeeps
  <2>4. ~raced => hit \in {op.record, Free}
    <3>1. ~raced => Unshared(op.record)
      BY <2>1 DEF LooksHold
    <3>2. ~raced => hit # Stranger
      BY <3>1, Owners DEF Unshared
    <3> QED BY <3>1, <3>2, Owners DEF Unshared
  <2>5. OnlyTheRecorded'
    BY <2>1, <2>4 DEF OnlyTheRecorded
  <2>6. RecordsAreTrue' /\ LooksHold'
    BY <2>1, <2>2, <2>3 DEF RecordsAreTrue, LooksHold, Looked, Judged
  <2> QED BY <2>1, <2>2, <2>3, <2>5, <2>6 DEF ReplacementKept
<1> QED BY <1>1, <1>2, <1>3, <1>4, <1>5

\* It judges, removes the file and looks whether it is gone.
LEMMA CleaningKeeps ==
    ASSUME ServiceInv, Verdict \/ Cleanup \/ Weigh \/ ReadBack \/ Unlink \/ Confirm
    PROVE  ServiceInv' /\ ReplacementKept
<1> USE DEF ServiceInv, ServiceTyped
<1>1. CASE Verdict
  <2>1. Keep /\ raced' \in BOOLEAN /\ op.at = "verdict"
    BY <1>1 DEF Verdict
  <2>2. CASE StopAt("cleanup") /\ (NotRunning(op.check) \/ ReusedAfterUnload)
    <3>1. op.check \in PidOver
      BY <2>2 DEF NotRunning, ReusedAfterUnload, PidOver
    <3> QED BY <2>1, <2>2, <3>1, GoingKeeps DEF RecordsAreTrue, Looked
  <2>3. CASE Fails
    BY <2>1, <2>3, FailingKeeps
  <2> QED BY <1>1, <2>2, <2>3 DEF Verdict
<1>2. CASE Cleanup
  <2>1. Keep /\ raced' \in BOOLEAN /\ op.at \in Looked /\ op.at \in Judged /\ (StopAt("weigh") \/ StopAt("confirm"))
    BY <1>2 DEF Cleanup, Looked, Judged
  <2> QED BY <2>1, GoingKeeps DEF RecordsAreTrue
<1>3. CASE Weigh
  <2>1. Keep /\ raced' \in BOOLEAN /\ op.at = "weigh"
    BY <1>3 DEF Weigh
  <2>2. CASE StopAt("readback") /\ Verify(op.captured) \in {"stale", "mismatch"}
    <3>1. op' \in Stop /\ op'.at = "readback" /\ op'.record = op.record /\ op'.captured = op.captured
          /\ op'.check = op.check /\ op.captured \in Supervisors \cup {0}
      BY <2>2 DEF StopAt, Stop
    <3>2. UNCHANGED <<stage, pidfile>> /\ UNCHANGED World /\ struck' = struck
      BY <2>1 DEF Keep, World
    <3>3. op.captured # 0
      BY <2>2 DEF Verify
    <3>4. stage[op.captured] = "gone"
      BY <2>2, <3>1, <3>3, OverIsGone DEF RecordsAreTrue, PidOver
    <3>5. RecordsAreTrue' /\ LooksHold'
      BY <2>1, <3>1, <3>2, <3>3, <3>4 DEF RecordsAreTrue, LooksHold, Looked, Judged
    <3> QED BY <2>1, <3>1, <3>2, <3>5, ReadingKeeps
  <2>3. CASE Fails
    BY <2>1, <2>3, FailingKeeps
  <2> QED BY <1>3, <2>2, <2>3 DEF Weigh
<1>4. CASE ReadBack
  <2>1. Keep /\ raced' \in BOOLEAN /\ op.at = "readback"
    BY <1>4 DEF ReadBack
  <2>2. CASE StopAt("unlink") /\ pidfile = op.captured
    <3>1. op' \in Stop /\ op'.at = "unlink" /\ op'.record = op.record /\ op'.captured = op.captured /\ op'.check = op.check
      BY <2>2 DEF StopAt, Stop
    <3>2. UNCHANGED <<stage, pidfile>> /\ UNCHANGED World /\ struck' = struck
      BY <2>1 DEF Keep, World
    <3>3. RecordsAreTrue' /\ LooksHold'
      BY <2>1, <2>2, <3>1, <3>2 DEF RecordsAreTrue, LooksHold, Looked, Judged
    <3> QED BY <2>1, <3>1, <3>2, <3>3, ReadingKeeps
  <2>3. CASE StopAt("confirm")
    BY <2>1, <2>3, GoingKeeps DEF RecordsAreTrue, Looked, Judged
  <2> QED BY <1>4, <2>2, <2>3 DEF ReadBack
<1>5. CASE Unlink
  <2>1. pidfile' = 0 /\ StopAt("confirm") /\ raced' = FALSE /\ op.at = "unlink"
        /\ UNCHANGED <<loaded, pidOf, strangers, stage, byJob, legible, struck>>
    BY <1>5 DEF Unlink
  <2>2. op' \in Stop /\ op'.at = "confirm" /\ op'.record = op.record /\ op'.captured = op.captured /\ op'.check = op.check
    BY <2>1 DEF StopAt, Stop
  <2>3. RecordsAreTrue' /\ LooksHold'
    BY <2>1, <2>2 DEF RecordsAreTrue, LooksHold, Looked, Judged
  <2>4. ReplacementKept
    <3>1. ~raced => pidfile \notin Running
      BY <2>1, Supervised0 DEF LooksHold, RecordsAreTrue, Running
    <3> QED BY <2>1, <3>1 DEF ReplacementKept
  <2> QED BY <2>1, <2>2, <2>3, <2>4 DEF PidsApart, Running, OnlyTheRecorded
<1>6. CASE Confirm
  <2>1. Keep /\ raced' \in BOOLEAN /\ op.at = "confirm"
    BY <1>6 DEF Confirm
  <2>2. CASE op' = [NoStop EXCEPT !.at = "stopped", !.record = op.record]
    <3>1. op' = [at |-> "stopped", captured |-> 0, record |-> op.record, verified |-> FALSE, unloaded |-> FALSE,
                 kill |-> "none", check |-> "absent"]
      BY <2>2 DEF NoStop
    <3>2. op' \in Stop
      BY <3>1 DEF Stop
    <3>3. UNCHANGED <<stage, pidfile>> /\ UNCHANGED World /\ struck' = struck
      BY <2>1 DEF Keep, World
    <3>4. RecordsAreTrue' /\ LooksHold'
      BY <2>1, <3>1, <3>3 DEF RecordsAreTrue, LooksHold, Looked, Judged
    <3> QED BY <2>1, <3>2, <3>3, <3>4, ReadingKeeps
  <2>3. CASE Fails
    BY <2>1, <2>3, FailingKeeps
  <2> QED BY <1>6, <2>2, <2>3 DEF Confirm
<1> QED BY <1>1, <1>2, <1>3, <1>4, <1>5, <1>6

\* Every step of the service; only a stop's could take away a record that is in use.
LEMMA ServiceSteps ==
    ASSUME ServiceInv, [ServiceNext]_serviceVars
    PROVE  ServiceInv' /\ ReplacementKept
<1>1. CASE StopStep
  BY <1>1, StopBeginsKeeps, WaitingKeeps, CleaningKeeps DEF StopStep
<1>2. CASE ~StopStep /\ ServiceNext
  BY <1>2, SupervisorKeeps DEF ServiceNext, ReplacementKept
<1>3. CASE ~StopStep /\ UNCHANGED serviceVars
  BY <1>3 DEF serviceVars, ServiceInv, ServiceTyped, PidsApart, RecordsAreTrue, LooksHold, Unshared, Running,
              OnlyTheRecorded, ReplacementKept
<1> QED BY <1>1, <1>2, <1>3

LEMMA ServiceBegins ==
    ASSUME ServiceInit
    PROVE  ServiceInv
BY DEF ServiceInit, ServiceInv, ServiceTyped, PidsApart, RecordsAreTrue, LooksHold, Looked, Judged, Running, NoStop,
       Stop, Stage, OnlyTheRecorded, NoSignal, Free

LEMMA ServiceFollows ==
    ASSUME ServiceInv
    PROVE  ServiceTypeOK /\ StopIsTrue /\ OnlyTheRecorded
<1>1. \A s \in Running : Owner(pidOf[s]) = s
  BY OwnPid DEF ServiceInv
<1> QED BY <1>1 DEF ServiceInv, ServiceTyped, RecordsAreTrue, Judged, Stop, Stage, ServiceTypeOK, StopIsTrue

\* service/macos.py, stop: it is reported only of a supervisor that is gone, however PIDs are
\* handed on between its steps; and a signal that hits another process than the recorded one was
\* sent on a verification its PID changed hands after.
THEOREM StopsAreTrue == ServiceInit /\ [][ServiceNext]_serviceVars => [](StopIsTrue /\ OnlyTheRecorded)
<1>1. ServiceInv => StopIsTrue /\ OnlyTheRecorded
  BY ServiceFollows
<1>2. ServiceInv /\ [ServiceNext]_serviceVars => ServiceInv'
  BY ServiceSteps
<1> QED BY <1>1, <1>2, ServiceBegins, PTL

-----------------------------------------------------------------------------
(* The credential store.                                                   *)

\* What a reconciliation takes for the keys on disk is well formed, cached or read.
LEMMA SourcesTyped ==
    ASSUME CredentialTypeOK, NEW p \in Processes
    PROVE  Sources(p) \in [held : BOOLEAN, fresh : BOOLEAN, keys : SUBSET Keys, stamp : -1..MaxWrites]
<1>1. stamp \in -1..MaxWrites
  BY CredentialAssumption DEF CredentialTypeOK
<1> QED BY <1>1 DEF CredentialTypeOK, Sources

CredentialStep == CredentialTypeOK' /\ RevokedStays /\ OnlyExplicitRevokes

\* A registration by a reconciliation leaves what was revoked, an explicit one does not; and
\* only a revocation takes an active row away.
LEMMA RowMoves ==
    ASSUME CredentialTypeOK, NEW p \in Processes, Register(p) \/ RegisterIssued(p) \/ Revoke(p) \/ UNCHANGED row
    PROVE  row' \in [Keys -> {"none", "active", "revoked"}] /\ RevokedStays /\ OnlyExplicitRevokes
<1>1. request[p].key \in Keys
  BY DEF CredentialTypeOK
<1>2. CASE Register(p)
  BY <1>1, <1>2 DEF Register, Registered, CredentialTypeOK, RevokedStays, OnlyExplicitRevokes
<1>3. CASE RegisterIssued(p)
  BY <1>1, <1>3 DEF RegisterIssued, Registered, CredentialTypeOK, RevokedStays, OnlyExplicitRevokes
<1>4. CASE Revoke(p)
  BY <1>1, <1>4 DEF Revoke, CredentialTypeOK, RevokedStays, OnlyExplicitRevokes
<1>5. CASE UNCHANGED row
  BY <1>5 DEF CredentialTypeOK, RevokedStays, OnlyExplicitRevokes
<1> QED BY <1>2, <1>3, <1>4, <1>5

\* Every step of the store.
LEMMA CredentialSteps ==
    ASSUME CredentialTypeOK, [CredentialNext]_credentialVars
    PROVE  CredentialStep
<1> DEFINE Source == [held : BOOLEAN, fresh : BOOLEAN, keys : SUBSET Keys, stamp : -1..MaxWrites]
           Places == {"idle", "lookup", "sync", "adopt", "register", "again", "miss", "issued", "revoke", "invalidate"}
           Request == [at : Places, key : Keys, adopt : SUBSET Keys, stamp : -1..MaxWrites]
<1>1. /\ files \subseteq Keys /\ stamp \in 0..MaxWrites /\ stamp \in -1..MaxWrites
      /\ sources \in [Processes -> Source] /\ synced \in [Processes -> -1..MaxWrites]
      /\ missed \in [Processes -> SUBSET Keys] /\ request \in [Processes -> Request]
  BY CredentialAssumption DEF CredentialTypeOK
<1>2. NoRequest \in Request /\ -1 \in -1..MaxWrites
  <2>1. (CHOOSE k \in Keys : TRUE) \in Keys
    BY CredentialAssumption
  <2> QED BY <2>1, CredentialAssumption DEF NoRequest
<1>3. NoCache \in Source
  BY <1>2 DEF NoCache
<1>4. CASE FilesChange
  <2>1. files' \subseteq Keys /\ stamp' \in 0..MaxWrites
    BY <1>1, <1>4, CredentialAssumption DEF FilesChange
  <2> QED BY <1>1, <1>4, <2>1 DEF FilesChange, CredentialStep, CredentialTypeOK, RevokedStays, OnlyExplicitRevokes
<1>5. CASE UNCHANGED credentialVars
  BY <1>5 DEF credentialVars, CredentialStep, CredentialTypeOK, RevokedStays, OnlyExplicitRevokes
<1>6. ASSUME NEW p \in Processes, Lapse(p) \/ Resolve(p) \/ ResolveStep(p) \/ Issue(p) \/ Remove(p) \/ ActStep(p)
      PROVE  CredentialStep
  <2>1. row' \in [Keys -> {"none", "active", "revoked"}] /\ RevokedStays /\ OnlyExplicitRevokes
    <3>1. Register(p) \/ RegisterIssued(p) \/ Revoke(p) \/ UNCHANGED row
      BY <1>6 DEF Lapse, Resolve, ResolveStep, Lookup, RememberMiss, Sync, Adopt, Synced, Issue, Remove, ActStep, Invalidate
    <3> QED BY <3>1, RowMoves
  <2>2. files' \subseteq Keys /\ stamp' \in 0..MaxWrites
    <3>1. CASE Issue(p) \/ Remove(p)
      <4>1. stamp < MaxWrites /\ stamp' = stamp + 1 /\ \E k \in Keys : files' = files \cup {k} \/ files' = files \ {k}
        BY <1>1, <3>1 DEF Issue, Remove
      <4> QED BY <1>1, <4>1, CredentialAssumption
    <3>2. CASE ~(Issue(p) \/ Remove(p))
      <4>1. UNCHANGED <<files, stamp>>
        BY <1>6, <3>2
        DEF Lapse, Resolve, ResolveStep, Lookup, RememberMiss, Sync, Adopt, Register, Synced, ActStep, RegisterIssued,
            Revoke, Invalidate
      <4> QED BY <1>1, <4>1
    <3> QED BY <3>1, <3>2
  <2>3. /\ sources' \in [Processes -> Source] /\ synced' \in [Processes -> -1..MaxWrites]
        /\ missed' \in [Processes -> SUBSET Keys]
    <3>1. request[p] \in Request /\ Sources(p) \in Source /\ sources[p] \in Source
      BY <1>1, SourcesTyped
    <3>2. \E c \in Source : sources' = sources \/ sources' = [sources EXCEPT ![p] = c]
      <4>1. CASE Lapse(p)
        <5>1. [sources[p] EXCEPT !.fresh = FALSE] \in Source
          BY <3>1
        <5> QED BY <3>1, <4>1, <5>1 DEF Lapse
      <4>2. CASE Sync(p)
        BY <3>1, <4>2 DEF Sync
      <4>3. CASE Invalidate(p)
        BY <1>3, <4>3 DEF Invalidate
      <4>4. CASE UNCHANGED sources
        BY <3>1, <4>4
      <4> QED BY <1>6, <4>1, <4>2, <4>3, <4>4
          DEF Resolve, ResolveStep, Lookup, RememberMiss, Adopt, Register, Synced, Issue, Remove, ActStep, RegisterIssued, Revoke
    <3>3. \E n \in -1..MaxWrites : synced' = synced \/ synced' = [synced EXCEPT ![p] = n]
      BY <1>2, <1>6, <3>1
      DEF Lapse, Resolve, ResolveStep, Lookup, RememberMiss, Sync, Adopt, Register, Synced, Issue, Remove, ActStep,
          RegisterIssued, Revoke, Invalidate
    <3>4. \E ks \in SUBSET Keys : missed' = missed \/ missed' = [missed EXCEPT ![p] = ks]
      <4>1. CASE RememberMiss(p) \/ Register(p) \/ Revoke(p)
        BY <1>1, <3>1, <4>1 DEF RememberMiss, Register, Revoke
      <4>2. CASE missed' = missed \/ Forget(p)
        BY <4>2 DEF Forget
      <4> QED BY <1>6, <4>1, <4>2
          DEF Lapse, Resolve, ResolveStep, Lookup, Sync, Adopt, Synced, Issue, Remove, ActStep, RegisterIssued, Invalidate
    <3>5. sources' \in [Processes -> Source]
      BY <1>1, <3>2
    <3>6. synced' \in [Processes -> -1..MaxWrites]
      BY <1>1, <3>3
    <3>7. missed' \in [Processes -> SUBSET Keys]
      BY <1>1, <3>4
    <3> QED BY <3>5, <3>6, <3>7
  <2>4. \E q \in Request : request' = request \/ request' = [request EXCEPT ![p] = q]
    <3>1. request[p] \in Request /\ Sources(p).keys \subseteq Keys
      BY <1>1, SourcesTyped
    <3>2. ASSUME NEW place \in Places PROVE [request[p] EXCEPT !.at = place] \in Request
      BY <3>1
    <3>4. CASE Lapse(p)
      BY <1>2, <3>4 DEF Lapse
    <3>5. CASE Resolve(p) \/ Issue(p) \/ Remove(p)
      <4> DEFINE begun(place) == \E k \in Keys : request' = [request EXCEPT ![p] = [NoRequest EXCEPT !.at = place, !.key = k]]
      <4>1. Resolve(p) => begun("lookup")
        BY Zenon DEF Resolve
      <4>2. Issue(p) => begun("issued")
        BY Zenon DEF Issue
      <4>3. Remove(p) => begun("revoke")
        <5>1. \A k \in files : k \in Keys
          BY <1>1
        <5> QED BY <5>1, Zenon DEF Remove
      <4>4. ASSUME NEW place \in Places, begun(place) PROVE \E q \in Request : request' = [request EXCEPT ![p] = q]
        <5>1. PICK k \in Keys : request' = [request EXCEPT ![p] = [NoRequest EXCEPT !.at = place, !.key = k]]
          BY <4>4
        <5>2. [NoRequest EXCEPT !.at = place, !.key = k] \in Request
          BY <1>2
        <5> QED BY <5>1, <5>2, Zenon
      <4> HIDE DEF begun
      <4> QED BY <3>5, <4>1, <4>2, <4>3, <4>4
    <3>6. CASE Lookup(p)
      BY <1>2, <3>2, <3>6 DEF Lookup, Rest, Goto
    <3>7. CASE RememberMiss(p)
      BY <1>2, <3>7 DEF RememberMiss, Rest
    <3>8. CASE Sync(p)
      <4>1. [request[p] EXCEPT !.at = IF synced[p] = stamp THEN "again" ELSE "adopt",
                               !.adopt = Sources(p).keys, !.stamp = stamp] \in Request
        BY <1>1, <3>1
      <4> QED BY <3>8, <4>1 DEF Sync
    <3>9. CASE Adopt(p)
      <4>1. PICK k \in request[p].adopt :
               request' = [request EXCEPT ![p].adopt = request[p].adopt \ {k},
                                          ![p].key = IF row[k] = "none" THEN k ELSE request[p].key,
                                          ![p].at = IF row[k] = "none" THEN "register" ELSE request[p].at]
        BY <3>9 DEF Adopt
      <4>2. [request[p] EXCEPT !.adopt = request[p].adopt \ {k}, !.key = IF row[k] = "none" THEN k ELSE request[p].key,
                               !.at = IF row[k] = "none" THEN "register" ELSE request[p].at] \in Request
        BY <3>1
      <4> QED BY <4>1, <4>2
    <3>10. CASE Register(p) \/ Synced(p) \/ RegisterIssued(p) \/ Revoke(p) \/ Invalidate(p)
      <4>1. Goto(p, "adopt") \/ Goto(p, "again") \/ Goto(p, "invalidate") \/ Goto(p, "sync")
        BY <3>10, Zenon DEF Register, Synced, RegisterIssued, Revoke, Invalidate
      <4>2. \A place \in {"adopt", "again", "invalidate", "sync"} : [request[p] EXCEPT !.at = place] \in Request
        BY <3>2
      <4> QED BY <4>1, <4>2 DEF Goto
    <3> QED BY <1>6, <3>4, <3>5, <3>6, <3>7, <3>8, <3>9, <3>10 DEF ResolveStep, ActStep
  <2>5. request' \in [Processes -> Request]
    BY <1>1, <2>4
  <2> QED BY <2>1, <2>2, <2>3, <2>5 DEF CredentialStep, CredentialTypeOK
<1> QED BY <1>4, <1>5, <1>6 DEF CredentialNext

LEMMA CredentialBegins ==
    ASSUME CredentialInit
    PROVE  CredentialTypeOK
<1>1. (CHOOSE k \in Keys : TRUE) \in Keys /\ -1 \in -1..MaxWrites /\ 0 \in 0..MaxWrites
  BY CredentialAssumption
<1> QED BY <1>1 DEF CredentialInit, CredentialTypeOK, NoRequest, NoCache

\* authz/credentials.py: a revoked key comes back only by an explicit registration, and a row
\* that is active goes only by an explicit revocation.
THEOREM RevocationsStand == CredentialInit /\ [][CredentialNext]_credentialVars => [][RevokedStays /\ OnlyExplicitRevokes]_credentialVars
<1>1. CredentialTypeOK /\ [CredentialNext]_credentialVars => CredentialTypeOK' /\ [RevokedStays /\ OnlyExplicitRevokes]_credentialVars
  BY CredentialSteps DEF CredentialStep
<1> QED BY <1>1, CredentialBegins, PTL

-----------------------------------------------------------------------------
(* Migrations.  Processes of one build at a time go through the ledger,     *)
(* each on its own old copy.  What keeps them from harm: a row that was     *)
(* there before the runner is never begun by anybody who supports it, a row *)
(* that was begun is never adopted, and nobody goes past a migration that   *)
(* is neither in the schema nor labelled as unproven.                      *)

Row == [status : {"absent", "null", "running", "failed", "applied", "skipped"},
        checksum : {"none", "body", "unimplemented"},
        origin : {"none", "runner", "legacy-adopted", "legacy-unproven"}]
RunnerPlaces == {"idle", "ensure", "adopt", "read", "decide", "execute", "finish", "failed", "verify", "ready", "refused", "drift"}
Runner == [at : RunnerPlaces, build : Builds, next : Nat, view : [Ids -> Row], executed : BOOLEAN, verified : BOOLEAN]

\* The rows there can be of migration m, and what one that says applied stands for.
Written(r, m) ==
    /\ r.status \in {"absent", "null"} => r.checksum = "none" /\ r.origin = "none"
    /\ r.status = "applied" => r.checksum \in {"none", "body"} /\ (r.checksum = "none" <=> r.origin = "none")
    /\ r.status \in {"running", "failed"} => r.checksum = "body" /\ r.origin = "runner"
    /\ r.status = "skipped" <=> r.checksum = "unimplemented"
    /\ r.checksum = "body" => m \in Implements[Newest][backend]
    /\ r.checksum = "body" /\ r.origin = "legacy-adopted" => backend = "sqlite"
    /\ r.checksum = "body" /\ r.origin = "legacy-unproven" => backend # "sqlite"
    /\ r.status \in {"null", "applied"} /\ (r.origin = "runner" \/ backend = "sqlite") => m \in schema

\* A row that says applied and that no runner has begun; one that is labelled unproven.
Inherited(r) == r.status \in {"null", "applied"} /\ r.origin # "runner"
Unproven(r) == r.status = "applied" /\ r.checksum = "body" /\ r.origin = "legacy-unproven"

MigrationTyped ==
    /\ backend \in Backends /\ schema \subseteq Ids /\ shape \in {"none", "old", "new"} /\ setbacks \in 0..MaxSetbacks
    /\ ledger \in [Ids -> Row] /\ runner \in [Runners -> Runner]

\* A migration before another one that is settled has a row.
NoGap ==
    \A m, later \in Ids : later > m /\ Settled(ledger[later]) /\ ledger[later].checksum # "none"
                              => ledger[m].status # "absent"

\* InOrder, with what labels a delta that may be missing.
Ordered ==
    \A m \in schema \ (birth \cup Covered) : \A earlier \in Implements[Newest][backend] :
        earlier < m => earlier \in schema \/ Unproven(ledger[earlier])

Going == {"ensure", "adopt", "read", "decide", "execute", "finish", "failed"}
Deciders == {"decide", "execute", "finish", "failed"}
Attempting == {"execute", "finish", "failed"}

\* What the copy that process p decides on still says of the ledger.
CopyIsApt(p) ==
    /\ \A m \in Ids : runner[p].view[m].status # "absent" => ledger[m].status # "absent"
    /\ \A m \in Implements[runner[p].build][backend] :
         /\ Inherited(runner[p].view[m]) <=> Inherited(ledger[m])
         /\ runner[p].view[m].checksum = "body" => ledger[m].checksum = "body"

\* What process p has behind it.
PassedAre(p) ==
    \A m \in Ships[runner[p].build] : m < runner[p].next =>
        /\ ledger[m].status # "absent"
        /\ (m \in Implements[runner[p].build][backend] => m \in schema \/ Unproven(ledger[m]))

\* The migration that process p executes.
AttemptIsApt(p) ==
    /\ Pending(p) # {} /\ Due(p) \in Implements[runner[p].build][backend]
    /\ ledger[Due(p)].checksum = "body" /\ ~Inherited(ledger[Due(p)])
    /\ runner[p].at = "finish" => Due(p) \in schema

RunnerIsApt(p) ==
    /\ runner[p].at = "idle" => ~runner[p].verified
    /\ runner[p].at = "ready" => runner[p].verified
    /\ runner[p].verified => Ships[runner[p].build] \subseteq schema
    /\ runner[p].at = "refused" => runner[p].build # Newest
    /\ runner[p].at \in {"ensure", "adopt", "read"} => runner[p].next = 1
    /\ \A m \in Ids : Written(runner[p].view[m], m)
    /\ runner[p].at \in Going => \A m \in Ids \ Implements[runner[p].build][backend] : ~Unproven(ledger[m])
    /\ runner[p].at \in Deciders => CopyIsApt(p) /\ PassedAre(p)
    /\ runner[p].at \in Attempting => AttemptIsApt(p)

MigrationInv ==
    /\ MigrationTyped /\ NoGap /\ Ordered
    /\ \A m \in Ids : Written(ledger[m], m)
    /\ \A p \in Runners : RunnerIsApt(p)

\* What a step leaves standing for a process of build b: rows stay, and so does what they say
\* to somebody who supports the migration.
Kept(b) ==
    /\ UNCHANGED <<backend, birth>> /\ schema \subseteq schema' /\ schema' \subseteq Ids /\ ledger' \in [Ids -> Row]
    /\ \A m \in Ids : /\ Written(ledger[m], m)'
                      /\ ledger[m].status # "absent" => ledger'[m].status # "absent"
                      /\ Unproven(ledger[m]) => Unproven(ledger'[m])
                      /\ Unproven(ledger'[m]) => m \in Implements[b][backend] \/ Unproven(ledger[m])
    /\ \A m \in Implements[b][backend] : /\ Inherited(ledger'[m]) <=> Inherited(ledger[m])
                                         /\ ledger[m].checksum = "body" => ledger'[m].checksum = "body"

\* The migrations of a build and of what it implements are migrations, in corpus order.
LEMMA CorpusFacts ==
    ASSUME MigrationTyped, NEW b \in Builds
    PROVE  /\ Ships[b] \subseteq Ids /\ Ids \subseteq Nat \ {0}
           /\ Implements[b][backend] \subseteq Ships[b]
           /\ Implements[b][backend] \subseteq Implements[Newest][backend]
           /\ Ships[b] \ Implements[b][backend] \subseteq Covered
           /\ \A m \in Ships[b], earlier \in Ids : earlier < m => earlier \in Ships[b]
           /\ \A m \in Implements[b][backend], earlier \in Implements[Newest][backend] :
                 earlier < m => earlier \in Implements[b][backend]
<1>1. backend \in {"sqlite", "postgresql"}
  BY DEF MigrationTyped, Backends
<1> QED BY <1>1, MigrationsAssumption

NatLess == OpToRel(<, Nat)

LEMMA DueIsNext ==
    ASSUME MigrationTyped, NEW p \in Runners, Pending(p) # {}
    PROVE  /\ Due(p) \in Ships[runner[p].build] /\ Due(p) \in Ids /\ Due(p) \in Nat
           /\ runner[p].next <= Due(p)
           /\ \A m \in Ships[runner[p].build] : m < Due(p) + 1 => m < runner[p].next \/ m = Due(p)
           /\ \A m \in Ids : m < Due(p) => m \in Ships[runner[p].build] /\ m < runner[p].next
<1>1. runner[p] \in Runner /\ runner[p].build \in Builds /\ runner[p].next \in Nat
  BY DEF MigrationTyped, Runner
<1>2. Ships[runner[p].build] \subseteq Ids /\ Ids \subseteq Nat
  BY <1>1, CorpusFacts
<1>3. Pending(p) \subseteq Nat
  BY <1>2 DEF Pending
<1>4. IsWellFoundedOn(NatLess, Nat)
  BY NatLessThanWellFounded DEF NatLess
<1>5. \A x, y \in Nat : <<y, x>> \in NatLess <=> y < x
  <2>1. NatLess = {ss \in Nat \X Nat : ss[1] < ss[2]}
    BY DEF NatLess, OpToRel
  <2> QED BY <2>1
<1>6. \E least \in Pending(p) : \A other \in Pending(p) : least <= other
  <2>1. PICK least \in Pending(p) : \A other \in Pending(p) : ~(<<other, least>> \in NatLess)
    BY <1>3, <1>4, WFMin
  <2>2. ASSUME NEW other \in Pending(p) PROVE least <= other
    <3>1. least \in Nat /\ other \in Nat /\ ~(<<other, least>> \in NatLess)
      BY <1>3, <2>1
    <3> QED BY <1>5, <3>1
  <2> QED BY <2>2
<1>7. Due(p) \in Pending(p) /\ \A other \in Pending(p) : Due(p) <= other
  BY <1>6 DEF Due
<1>8. Due(p) \in Ships[runner[p].build] /\ Due(p) \in Ids /\ Due(p) \in Nat /\ runner[p].next <= Due(p)
  BY <1>2, <1>7 DEF Pending
<1>9. \A m \in Ships[runner[p].build] : m < Due(p) + 1 => m < runner[p].next \/ m = Due(p)
  <2>1. ASSUME NEW m \in Ships[runner[p].build], m < Due(p) + 1, ~(m < runner[p].next)
        PROVE  m = Due(p)
    <3>1. m \in Nat
      BY <1>2
    <3>3. m >= runner[p].next
      BY <1>1, <2>1, <3>1
    <3>2. m \in Pending(p)
      BY <3>3 DEF Pending
    <3> QED BY <1>7, <1>8, <2>1, <3>1, <3>2
  <2> QED BY <2>1
<1>10. \A m \in Ids : m < Due(p) => m \in Ships[runner[p].build] /\ m < runner[p].next
  BY <1>1, <1>2, <1>7, <1>8, CorpusFacts DEF Pending
<1> QED BY <1>8, <1>9, <1>10

\* A step that leaves the ledger alone keeps it for everybody.
LEMMA KeptAlone ==
    ASSUME MigrationInv, UNCHANGED <<backend, birth, ledger>>, schema \subseteq schema', schema' \subseteq Ids, NEW b
    PROVE  Kept(b)
<1>1. \A m \in Ids : Written(ledger[m], m)'
  BY DEF MigrationInv, Written
<1> QED BY <1>1 DEF Kept, MigrationInv, MigrationTyped

\* What a process knows stands through the steps that keep the ledger for its build.
LEMMA KnownStands ==
    ASSUME MigrationInv, NEW p \in Runners, Kept(runner[p].build),
           runner'[p].build = runner[p].build, runner'[p].view = runner[p].view
    PROVE  /\ \A m \in Ids : Written(runner[p].view[m], m)'
           /\ CopyIsApt(p) => CopyIsApt(p)'
           /\ PassedAre(p) /\ runner'[p].next = runner[p].next => PassedAre(p)'
           /\ AttemptIsApt(p) /\ runner'[p].next = runner[p].next /\ runner[p].at = "finish"
                 => AttemptIsApt(p)'
           /\ AttemptIsApt(p) /\ runner'[p].next = runner[p].next /\ runner'[p].at # "finish"
                 => AttemptIsApt(p)'
<1>1. runner[p] \in Runner /\ runner[p].build \in Builds /\ MigrationTyped
  BY DEF MigrationInv, MigrationTyped, Runner
<1>2. Ships[runner[p].build] \subseteq Ids /\ Implements[runner[p].build][backend] \subseteq Ids
  BY <1>1, CorpusFacts
<1>3. \A m \in Ids : Written(runner[p].view[m], m)'
  BY DEF MigrationInv, RunnerIsApt, Written, Kept
<1>4. CopyIsApt(p) => CopyIsApt(p)'
  BY <1>2 DEF CopyIsApt, Kept
<1>5. PassedAre(p) /\ runner'[p].next = runner[p].next => PassedAre(p)'
  BY <1>2 DEF PassedAre, Kept
<1>6. runner'[p].next = runner[p].next => Pending(p)' = Pending(p) /\ Due(p)' = Due(p)
  BY DEF Pending, Due
<1>7. AttemptIsApt(p) /\ runner'[p].next = runner[p].next /\ (runner[p].at = "finish" \/ runner'[p].at # "finish")
         => AttemptIsApt(p)'
  BY <1>2, <1>6 DEF AttemptIsApt, Kept
<1> QED BY <1>3, <1>4, <1>5, <1>7

\* A process that does not move.
LEMMA BystanderKeeps ==
    ASSUME MigrationInv, NEW q \in Runners, runner'[q] = runner[q], schema \subseteq schema', backend' = backend,
           runner[q].at \in Going => Kept(runner[q].build)
    PROVE  RunnerIsApt(q)'
<1>1. RunnerIsApt(q) /\ runner[q] \in Runner /\ runner[q].build \in Builds /\ MigrationTyped
  BY DEF MigrationInv, MigrationTyped, Runner
<1>2. \A m \in Ids : Written(runner[q].view[m], m)'
  BY <1>1 DEF RunnerIsApt, Written
<1>3. runner[q].at \in Going => \A m \in Ids \ Implements[runner[q].build][backend] : ~Unproven(ledger'[m])
  BY <1>1 DEF RunnerIsApt, Kept
<1>4. runner[q].at \in Deciders => CopyIsApt(q)' /\ PassedAre(q)'
  BY <1>1, KnownStands DEF RunnerIsApt, Deciders, Going
<1>5. runner[q].at \in Attempting => AttemptIsApt(q)'
  BY <1>1, KnownStands DEF RunnerIsApt, Attempting, Going
<1> QED BY <1>1, <1>2, <1>3, <1>4, <1>5 DEF RunnerIsApt

\* The step of one process, put together.
LEMMA OneMoves ==
    ASSUME MigrationInv, NEW p \in Runners, NEW r \in Runner, runner' = [runner EXCEPT ![p] = r],
           \A q \in Runners \ {p} : runner[q].at \in Going => Kept(runner[q].build),
           shape' \in {"none", "old", "new"}, setbacks' \in 0..MaxSetbacks,
           Kept(r.build), NoGap', Ordered', RunnerIsApt(p)'
    PROVE  MigrationInv'
<1>1. schema \subseteq schema' /\ backend' = backend /\ schema' \subseteq Ids /\ ledger' \in [Ids -> Row]
  BY DEF Kept
<1>2. runner' \in [Runners -> Runner] /\ \A q \in Runners \ {p} : runner'[q] = runner[q]
  BY DEF MigrationInv, MigrationTyped
<1>3. \A q \in Runners : RunnerIsApt(q)'
  BY <1>1, <1>2, BystanderKeeps
<1>4. MigrationTyped'
  BY <1>1, <1>2 DEF MigrationInv, MigrationTyped
<1>5. \A m \in Ids : Written(ledger[m], m)'
  BY DEF Kept
<1> QED BY <1>3, <1>4, <1>5 DEF MigrationInv

\* The steps that leave the ledger and the schema alone.
LEMMA OneMovesAlone ==
    ASSUME MigrationInv, NEW p \in Runners, NEW r \in Runner, runner' = [runner EXCEPT ![p] = r],
           shape' \in {"none", "old", "new"}, setbacks' \in 0..MaxSetbacks,
           UNCHANGED <<backend, birth, schema, ledger>>, RunnerIsApt(p)'
    PROVE  MigrationInv'
<1>1. \A b \in Builds : Kept(b)
  BY KeptAlone DEF MigrationInv, MigrationTyped
<1>2. NoGap' /\ Ordered'
  BY DEF MigrationInv, NoGap, Ordered
<1>3. r.build \in Builds /\ \A q \in Runners : runner[q].build \in Builds
  BY DEF MigrationInv, MigrationTyped, Runner
<1> QED BY <1>1, <1>2, <1>3, OneMoves

\* The row of the due migration is written: what the new row has to keep of the old one.
LEMMA RowIsWritten ==
    ASSUME MigrationInv, NEW p \in Runners, Pending(p) # {}, PassedAre(p), NEW r \in Row,
           ledger' = [ledger EXCEPT ![Due(p)] = r], UNCHANGED <<backend, birth, schema>>,
           Written(r, Due(p)), r.status # "absent",
           Unproven(ledger[Due(p)]) => Unproven(r),
           Unproven(r) => Due(p) \in Implements[runner[p].build][backend],
           Due(p) \in Implements[runner[p].build][backend]
              => (Inherited(r) <=> Inherited(ledger[Due(p)])) /\ r.checksum = "body"
    PROVE  Kept(runner[p].build) /\ NoGap' /\ Ordered'
<1> DEFINE d == Due(p)
<1>1. MigrationTyped /\ runner[p].build \in Builds /\ d \in Ids
  BY DueIsNext DEF MigrationInv, MigrationTyped, Runner
<1>2. Implements[runner[p].build][backend] \subseteq Ids /\ Implements[Newest][backend] \subseteq Ids
  BY <1>1, CorpusFacts, MigrationsAssumption
<1>3. ledger' \in [Ids -> Row] /\ ledger'[d] = r /\ \A m \in Ids \ {d} : ledger'[m] = ledger[m]
  BY <1>1 DEF MigrationTyped
<1>4. Kept(runner[p].build)
  <2>1. \A m \in Ids : Written(ledger[m], m)'
    BY <1>3 DEF MigrationInv, Written
  <2>2. schema \subseteq schema' /\ schema' \subseteq Ids
    BY <1>1 DEF MigrationTyped
  <2>3. \A m \in Ids : /\ ledger[m].status # "absent" => ledger'[m].status # "absent"
                       /\ Unproven(ledger[m]) => Unproven(ledger'[m])
                       /\ Unproven(ledger'[m]) => m \in Implements[runner[p].build][backend] \/ Unproven(ledger[m])
    BY <1>3
  <2>4. \A m \in Implements[runner[p].build][backend] :
           /\ Inherited(ledger'[m]) <=> Inherited(ledger[m])
           /\ ledger[m].checksum = "body" => ledger'[m].checksum = "body"
    BY <1>2, <1>3
  <2> QED BY <1>3, <2>1, <2>2, <2>3, <2>4 DEF Kept
<1>5. NoGap'
  <2> SUFFICES ASSUME NEW m \in Ids, NEW later \in Ids, later > m, Settled(ledger'[later]), ledger'[later].checksum # "none"
               PROVE  ledger'[m].status # "absent"
    BY DEF NoGap, Settled, EffectiveStatus
  <2>1. CASE later = d
    <3>1. m \in Nat /\ d \in Nat
      BY <1>1, CorpusFacts
    <3>2. m \in Ships[runner[p].build] /\ m < runner[p].next
      BY <1>1, <2>1, <3>1, DueIsNext
    <3> QED BY <1>3, <3>2 DEF PassedAre
  <2>2. CASE later # d
    BY <1>3, <2>2 DEF MigrationInv, NoGap
  <2> QED BY <2>1, <2>2
<1>6. Ordered'
  BY <1>2, <1>3 DEF MigrationInv, Ordered
<1> QED BY <1>4, <1>5, <1>6

\* A process goes to another place, or on to the next migration.
LEMMA ProceedShape ==
    ASSUME MigrationTyped, NEW p \in Runners, NEW place \in RunnerPlaces, Proceed(p, place)
    PROVE  \E n \in Runner : /\ runner' = [runner EXCEPT ![p] = n] /\ runner'[p] = n
                             /\ n.at = place /\ n.build = runner[p].build /\ n.next = runner[p].next
                             /\ n.view = runner[p].view /\ n.verified = runner[p].verified
<1> DEFINE n == [runner[p] EXCEPT !.at = place]
<1>1. n \in Runner /\ runner' = [runner EXCEPT ![p] = n] /\ runner'[p] = n
  BY DEF MigrationTyped, Runner, Proceed
<1>2. n.at = place /\ n.build = runner[p].build /\ n.next = runner[p].next /\ n.view = runner[p].view /\ n.verified = runner[p].verified
  BY DEF MigrationTyped, Runner
<1> QED BY <1>1, <1>2

LEMMA AdvanceShape ==
    ASSUME MigrationTyped, NEW p \in Runners, Pending(p) # {}, NEW wrote \in BOOLEAN, Advance(p, wrote)
    PROVE  \E n \in Runner : /\ runner' = [runner EXCEPT ![p] = n] /\ runner'[p] = n
                             /\ n.at = "decide" /\ n.build = runner[p].build /\ n.next = Due(p) + 1
                             /\ n.view = runner[p].view /\ n.verified = runner[p].verified
<1> DEFINE n == [runner[p] EXCEPT !.at = "decide", !.next = Due(p) + 1, !.executed = runner[p].executed \/ wrote]
<1>1. Due(p) + 1 \in Nat
  BY DueIsNext
<1>2. runner[p] \in Runner /\ (runner[p].executed \/ wrote) \in BOOLEAN
  BY DEF MigrationTyped, Runner
<1>3. n \in Runner /\ n.at = "decide" /\ n.build = runner[p].build /\ n.next = Due(p) + 1
         /\ n.view = runner[p].view /\ n.verified = runner[p].verified
  BY <1>1, <1>2 DEF Runner, RunnerPlaces
<1>4. runner' = [runner EXCEPT ![p] = n] /\ runner'[p] = n
  BY DEF MigrationTyped, Advance
<1> QED BY <1>3, <1>4

\* The process that goes on has the migration it was at behind it.
LEMMA AdvanceIsApt ==
    ASSUME MigrationInv, NEW p \in Runners, Pending(p) # {}, NEW wrote \in BOOLEAN, Advance(p, wrote),
           runner[p].at \in Deciders, Kept(runner[p].build), ledger'[Due(p)].status # "absent",
           Due(p) \in Implements[runner[p].build][backend] => Due(p) \in schema' \/ Unproven(ledger'[Due(p)])
    PROVE  RunnerIsApt(p)'
<1> DEFINE b == runner[p].build
           d == Due(p)
<1>1. MigrationTyped /\ runner[p] \in Runner /\ b \in Builds /\ RunnerIsApt(p) /\ backend' = backend
  BY DEF MigrationInv, MigrationTyped, Runner, Kept
<1>2. /\ runner'[p].at = "decide" /\ runner'[p].build = b /\ runner'[p].next = d + 1
      /\ runner'[p].view = runner[p].view /\ runner'[p].verified = runner[p].verified
  BY <1>1, AdvanceShape
<1>3. CopyIsApt(p) /\ PassedAre(p)
  BY <1>1 DEF RunnerIsApt
<1>4. CopyIsApt(p)' /\ \A m \in Ids : Written(runner[p].view[m], m)'
  BY <1>2, <1>3, KnownStands
<1>5. PassedAre(p)'
  <2>1. \A m \in Ships[b] : m < d + 1 => m < runner[p].next \/ m = d
    BY <1>1, DueIsNext
  <2>2. Ships[b] \subseteq Ids
    BY <1>1, CorpusFacts
  <2>3. \A m \in Ships[b] : m < runner[p].next =>
            /\ ledger'[m].status # "absent"
            /\ (m \in Implements[b][backend] => m \in schema' \/ Unproven(ledger'[m]))
    BY <1>3, <2>2 DEF PassedAre, Kept
  <2>4. \A m \in Ships[b] : m < d + 1 =>
            /\ ledger'[m].status # "absent"
            /\ (m \in Implements[b][backend] => m \in schema' \/ Unproven(ledger'[m]))
    BY <2>1, <2>3
  <2> QED BY <1>1, <1>2, <2>4 DEF PassedAre
<1>6. \A m \in Ids \ Implements[b][backend] : ~Unproven(ledger'[m])
  BY <1>1 DEF RunnerIsApt, Kept, Deciders, Going
<1>7. runner[p].verified => Ships[b] \subseteq schema'
  BY <1>1 DEF RunnerIsApt, Kept
<1>8. (\A m \in Ids : Written(runner[p].view[m], m))'
  BY <1>2, <1>4 DEF Written
<1> QED BY <1>1, <1>2, <1>4, <1>5, <1>6, <1>7, <1>8 DEF RunnerIsApt, Attempting

\* Others that go through the ledger are of the build of the process that moves.
LEMMA TheOthersFollow ==
    ASSUME OneBuild, NEW p \in Runners, runner[p].at # "idle", Kept(runner[p].build)
    PROVE  \A q \in Runners \ {p} : runner[q].at \in Going => Kept(runner[q].build)
<1>1. \A q \in Runners : runner[q].at \in Going => runner[q].build = runner[p].build
  BY DEF OneBuild, Going
<1> QED BY <1>1

\* No race or death leaves a ledger that the newest build refuses, and a build that a ledger
\* does not turn away finds none of its gaps labelled as unproven.
LEMMA HistoryIsAccepted ==
    ASSUME MigrationInv
    PROVE  /\ ~Fatal(Newest, ledger)
           /\ \A b \in Builds : ~Fatal(b, ledger) => \A m \in Ids \ Implements[b][backend] : ~Unproven(ledger[m])
<1>1. MigrationTyped /\ Ships[Newest] = Ids /\ ledger \in [Ids -> Row] /\ Newest \in Builds
  BY MigrationsAssumption DEF MigrationInv, MigrationTyped
<1>2. ~Fatal(Newest, ledger)
  <2>1. \A m, later \in Ids : ledger[m] = NoRow => ~(later > m /\ Settled(ledger[later]) /\ ledger[later].checksum # "none")
    BY DEF MigrationInv, NoGap, NoRow
  <2>2. ASSUME NEW m \in Ids, Settled(ledger[m]), ~Reapplicable(Newest, m, ledger[m])
        PROVE  ledger[m].checksum \in {"none", ChecksumFor(Newest, m)}
    <3>1. ledger[m] \in Row /\ Written(ledger[m], m)
      BY <1>1 DEF MigrationInv
    <3> QED BY <2>2, <3>1 DEF Written, Row, Reapplicable, ChecksumFor, Supports, Settled, EffectiveStatus
  <2> QED BY <1>1, <2>1, <2>2 DEF Fatal
<1>3. ASSUME NEW b \in Builds, NEW m \in Ids \ Implements[b][backend], Unproven(ledger[m])
      PROVE  Fatal(b, ledger)
  <2>1. ledger[m].status = "applied" /\ ledger[m].checksum = "body"
    BY <1>3 DEF Unproven
  <2>2. CASE m \notin Ships[b]
    BY <2>1, <2>2 DEF Fatal, NoRow
  <2>3. CASE m \in Ships[b]
    BY <1>3, <2>1, <2>3 DEF Fatal, Settled, EffectiveStatus, Reapplicable, ChecksumFor, Supports
  <2> QED BY <2>2, <2>3
<1> QED BY <1>2, <1>3

\* A process at rest.
LEMMA IdleIsApt ==
    ASSUME MigrationInv, NEW p \in Runners, runner'[p] = Idle
    PROVE  Idle \in Runner /\ RunnerIsApt(p)'
<1>1. Idle \in Runner
  BY MigrationsAssumption DEF Idle, Runner, RunnerPlaces, Row, NoRow
<1>2. (\A m \in Ids : Written(runner[p].view[m], m))'
  BY DEF Idle, NoRow, Written
<1>3. runner'[p].at = "idle" /\ runner'[p].verified = FALSE
  BY DEF Idle
<1> QED BY <1>1, <1>2, <1>3 DEF RunnerIsApt, Going, Deciders, Attempting

LEMMA PreflightKeeps ==
    ASSUME MigrationInv, NEW p \in Runners, Preflight(p)
    PROVE  MigrationInv'
<1>1. MigrationTyped /\ runner[p] \in Runner /\ RunnerIsApt(p) /\ Newest \in Builds
  BY MigrationsAssumption DEF MigrationInv, MigrationTyped
<1>2. PICK b \in IF runner[p].at = "ready" THEN {runner[p].build} ELSE Builds :
         runner' = [runner EXCEPT ![p] = [Idle EXCEPT !.build = b, !.verified = runner[p].verified,
                                          !.at = IF Fatal(b, ledger) THEN "refused" ELSE "ensure"]]
  BY Zenon DEF Preflight
<1> DEFINE n == [Idle EXCEPT !.build = b, !.verified = runner[p].verified,
                             !.at = IF Fatal(b, ledger) THEN "refused" ELSE "ensure"]
<1>3. b \in Builds
  BY <1>1, <1>2 DEF Runner
<1>4. Idle \in Runner
  BY <1>1, MigrationsAssumption DEF Idle, Runner, RunnerPlaces, Row, NoRow
<1>5. n \in Runner /\ n.build = b /\ n.verified = runner[p].verified /\ n.next = 1 /\ n.view = [m \in Ids |-> NoRow]
         /\ n.at = IF Fatal(b, ledger) THEN "refused" ELSE "ensure"
  BY <1>1, <1>3, <1>4 DEF Idle, Runner, RunnerPlaces
<1>6. runner' = [runner EXCEPT ![p] = n] /\ runner'[p] = n /\ UNCHANGED <<backend, birth, schema, shape, ledger, setbacks>>
  BY <1>1, <1>2 DEF MigrationTyped, Preflight
<1> HIDE DEF n
<1>7. runner[p].verified => Ships[b] \subseteq schema
  BY <1>1, <1>2 DEF RunnerIsApt, Preflight
<1>8. n.at = "refused" => b # Newest
  BY <1>5, HistoryIsAccepted
<1>9. n.at = "ensure" => \A m \in Ids \ Implements[b][backend] : ~Unproven(ledger[m])
  BY <1>3, <1>5, HistoryIsAccepted
<1>10. (\A m \in Ids : Written(runner[p].view[m], m))'
  BY <1>5, <1>6 DEF NoRow, Written
<1>11. RunnerIsApt(p)'
  BY <1>5, <1>6, <1>7, <1>8, <1>9, <1>10 DEF RunnerIsApt, Going, Deciders, Attempting
<1>12. shape' \in {"none", "old", "new"} /\ setbacks' \in 0..MaxSetbacks
  BY <1>1, <1>6 DEF MigrationTyped
<1> QED BY <1>5, <1>6, <1>11, <1>12, OneMovesAlone

LEMMA EnsureColumnsKeeps ==
    ASSUME MigrationInv, NEW p \in Runners, EnsureColumns(p)
    PROVE  MigrationInv'
<1>1. MigrationTyped /\ runner[p] \in Runner /\ RunnerIsApt(p)
  BY DEF MigrationInv, MigrationTyped
<1>2. PICK place \in {"read", "adopt"} : Proceed(p, place)
  BY DEF EnsureColumns
<1>3. PICK n \in Runner : /\ runner' = [runner EXCEPT ![p] = n] /\ runner'[p] = n
                          /\ n.at = place /\ n.build = runner[p].build /\ n.next = runner[p].next
                          /\ n.view = runner[p].view /\ n.verified = runner[p].verified
  BY <1>1, <1>2, ProceedShape DEF RunnerPlaces
<1>4. RunnerIsApt(p)'
  BY <1>1, <1>3 DEF EnsureColumns, RunnerIsApt, Written, Going, Deciders, Attempting
<1> QED BY <1>1, <1>3, <1>4, OneMovesAlone DEF EnsureColumns, MigrationTyped

LEMMA AdoptStatusKeeps ==
    ASSUME MigrationInv, OneBuild, NEW p \in Runners, AdoptStatus(p)
    PROVE  MigrationInv'
<1> DEFINE b == runner[p].build
<1>1. MigrationTyped /\ runner[p] \in Runner /\ RunnerIsApt(p) /\ ledger \in [Ids -> Row] /\ b \in Builds
  BY DEF MigrationInv, MigrationTyped, Runner
<1>2. PICK n \in Runner : /\ runner' = [runner EXCEPT ![p] = n] /\ runner'[p] = n
                          /\ n.at = "read" /\ n.build = b /\ n.next = runner[p].next
                          /\ n.view = runner[p].view /\ n.verified = runner[p].verified
  BY <1>1, ProceedShape DEF AdoptStatus, RunnerPlaces
<1>3. ledger' \in [Ids -> Row]
  <2>1. \A m \in Ids : [ledger[m] EXCEPT !.status = IF ledger[m].status = "null" THEN "applied" ELSE ledger[m].status] \in Row
    BY <1>1 DEF Row
  <2> QED BY <2>1 DEF AdoptStatus
<1>4. \A m \in Ids : /\ ledger'[m].status = IF ledger[m].status = "null" THEN "applied" ELSE ledger[m].status
                     /\ ledger'[m].checksum = ledger[m].checksum /\ ledger'[m].origin = ledger[m].origin
  BY <1>1 DEF AdoptStatus, Row
<1>5. UNCHANGED <<backend, birth, schema, shape, setbacks>>
  BY DEF AdoptStatus
<1>6. Implements[b][backend] \subseteq Ids
  BY <1>1, CorpusFacts
<1>7. \A m \in Ids : Written(ledger[m], m)
  BY DEF MigrationInv
<1>8. Kept(b)
  <2>1. \A m \in Ids : Written(ledger[m], m)'
    BY <1>4, <1>5, <1>7 DEF Written
  <2>2. \A m \in Ids : /\ ledger[m].status # "absent" => ledger'[m].status # "absent"
                       /\ Unproven(ledger'[m]) <=> Unproven(ledger[m])
                       /\ Inherited(ledger'[m]) <=> Inherited(ledger[m])
    BY <1>4, <1>7 DEF Written, Unproven, Inherited
  <2> QED BY <1>1, <1>3, <1>4, <1>5, <1>6, <2>1, <2>2 DEF Kept, MigrationTyped
<1>9. NoGap'
  BY <1>4 DEF MigrationInv, NoGap, Settled, EffectiveStatus
<1>10. Ordered'
  <2>1. Implements[Newest][backend] \subseteq Ids
    BY <1>1, CorpusFacts, MigrationsAssumption
  <2> QED BY <1>5, <1>8, <2>1 DEF MigrationInv, Ordered, Kept
<1>11. RunnerIsApt(p)'
  <2>1. (\A m \in Ids : Written(runner[p].view[m], m))'
    BY <1>1, <1>2, <1>5 DEF RunnerIsApt, Written
  <2>2. \A m \in Ids \ Implements[b][backend] : ~Unproven(ledger'[m])
    BY <1>1, <1>8 DEF RunnerIsApt, Kept, AdoptStatus, Going
  <2> QED BY <1>1, <1>2, <1>5, <2>1, <2>2 DEF RunnerIsApt, AdoptStatus, Deciders, Attempting, Going
<1>12. runner[p].at # "idle"
  BY DEF AdoptStatus
<1>13. shape' \in {"none", "old", "new"} /\ setbacks' \in 0..MaxSetbacks
  BY <1>1, <1>5 DEF MigrationTyped
<1> QED BY <1>2, <1>8, <1>9, <1>10, <1>11, <1>12, <1>13, TheOthersFollow, OneMoves

LEMMA ReadLedgerKeeps ==
    ASSUME MigrationInv, NEW p \in Runners, ReadLedger(p)
    PROVE  MigrationInv'
<1> DEFINE b == runner[p].build
           n == [runner[p] EXCEPT !.at = "decide", !.view = ledger]
<1>1. MigrationTyped /\ runner[p] \in Runner /\ RunnerIsApt(p) /\ ledger \in [Ids -> Row] /\ b \in Builds
  BY DEF MigrationInv, MigrationTyped, Runner
<1>2. n \in Runner /\ n.at = "decide" /\ n.build = b /\ n.next = runner[p].next /\ n.view = ledger /\ n.verified = runner[p].verified
  BY <1>1 DEF Runner, RunnerPlaces
<1>3. runner' = [runner EXCEPT ![p] = n] /\ runner'[p] = n /\ UNCHANGED <<backend, birth, schema, shape, ledger, setbacks>>
  BY <1>1 DEF MigrationTyped, ReadLedger
<1>4. runner[p].next = 1
  BY <1>1 DEF RunnerIsApt, ReadLedger
<1>5. Implements[b][backend] \subseteq Ids /\ Ships[b] \subseteq Nat \ {0}
  BY <1>1, CorpusFacts
<1> HIDE DEF n
<1>6. CopyIsApt(p)'
  BY <1>2, <1>3, <1>5 DEF CopyIsApt
<1>7. PassedAre(p)'
  <2>1. \A m \in Ships[b] : ~(m < 1)
    BY <1>5
  <2> QED BY <1>2, <1>3, <1>4, <2>1 DEF PassedAre
<1>8. (\A m \in Ids : Written(runner[p].view[m], m))'
  BY <1>2, <1>3 DEF MigrationInv, Written
<1>9. RunnerIsApt(p)'
  BY <1>1, <1>2, <1>3, <1>6, <1>7, <1>8 DEF RunnerIsApt, ReadLedger, Going, Attempting
<1>10. shape' \in {"none", "old", "new"} /\ setbacks' \in 0..MaxSetbacks
  BY <1>1, <1>3 DEF MigrationTyped
<1> QED BY <1>2, <1>3, <1>9, <1>10, OneMovesAlone

\* What holds of a process that decides, and of the migration it is at.
LEMMA AtDue ==
    ASSUME MigrationInv, NEW p \in Runners, runner[p].at \in Deciders, Pending(p) # {}
    PROVE  /\ MigrationTyped /\ runner[p] \in Runner /\ RunnerIsApt(p) /\ CopyIsApt(p) /\ PassedAre(p)
           /\ runner[p].build \in Builds /\ Due(p) \in Ids /\ Due(p) \in Ships[runner[p].build]
           /\ ledger[Due(p)] \in Row /\ Written(ledger[Due(p)], Due(p))
           /\ runner[p].view[Due(p)] \in Row /\ Written(runner[p].view[Due(p)], Due(p))
           /\ shape \in {"none", "old", "new"} /\ setbacks \in 0..MaxSetbacks
           /\ \A m \in Ids \ Implements[runner[p].build][backend] : ~Unproven(ledger[m])
<1>1. MigrationTyped /\ runner[p] \in Runner /\ RunnerIsApt(p)
  BY DEF MigrationInv, MigrationTyped
<1>2. Due(p) \in Ids /\ Due(p) \in Ships[runner[p].build]
  BY <1>1, DueIsNext
<1> QED BY <1>1, <1>2 DEF MigrationInv, MigrationTyped, Runner, RunnerIsApt, Deciders, Going

\* A settled row, as the copy shows it, of a migration that the build supports: the delta is in
\* the schema, or the ledger does not vouch for it.
LEMMA CopyVouches ==
    ASSUME MigrationInv, NEW p \in Runners, runner[p].at \in Deciders, Pending(p) # {},
           Supports(runner[p].build, Due(p)), Settled(runner[p].view[Due(p)]),
           ~Reapplicable(runner[p].build, Due(p), runner[p].view[Due(p)])
    PROVE  LET seen == runner[p].view[Due(p)]
           IN /\ seen.checksum = "none" => /\ Inherited(ledger[Due(p)])
                                           /\ backend = "sqlite" => Due(p) \in schema
              /\ seen.checksum = "body" => Due(p) \in schema \/ Unproven(ledger[Due(p)])
<1> DEFINE seen == runner[p].view[Due(p)]
           d == Due(p)
<1>1. /\ seen \in Row /\ Written(seen, d) /\ ledger[d] \in Row /\ Written(ledger[d], d) /\ backend \in Backends
      /\ d \in Implements[runner[p].build][backend] /\ seen.status \in {"null", "applied"}
  BY AtDue DEF Supports, Settled, Reapplicable, EffectiveStatus, MigrationTyped, Row
<1>2. /\ Inherited(seen) <=> Inherited(ledger[d])
      /\ seen.checksum = "body" => ledger[d].checksum = "body"
  BY <1>1, AtDue DEF CopyIsApt
<1> HIDE DEF seen, d
<1>3. seen.checksum = "none" => Inherited(ledger[d]) /\ (backend = "sqlite" => d \in schema)
  BY <1>1, <1>2 DEF Written, Inherited, Row
<1>4. ASSUME seen.checksum = "body" PROVE d \in schema \/ Unproven(ledger[d])
  <2>1. d \in schema \/ Inherited(seen)
    BY <1>1, <1>4 DEF Written, Inherited, Row
  <2>2. CASE Inherited(seen)
    <3>1. Inherited(ledger[d]) /\ ledger[d].checksum = "body"
      BY <1>2, <1>4, <2>2
    <3>2. d \in schema \/ Unproven(ledger[d])
      BY <1>1, <3>1 DEF Written, Inherited, Unproven, Row, Backends
    <3> QED BY <3>2
  <2> QED BY <2>1, <2>2
<1> USE DEF seen, d
<1>5. seen.checksum = "body" => d \in schema \/ Unproven(ledger[d])
  BY <1>4
<1> QED BY <1>3, <1>5

\* The due row is written and the process goes on, or begins its attempt.
LEMMA WriterMoves ==
    ASSUME MigrationInv, OneBuild, NEW p \in Runners, runner[p].at \in Deciders, Pending(p) # {}, NEW n \in Runner,
           runner' = [runner EXCEPT ![p] = n], n.build = runner[p].build, UNCHANGED <<shape, setbacks>>,
           Kept(runner[p].build), NoGap', Ordered', RunnerIsApt(p)'
    PROVE  MigrationInv'
<1>1. runner[p].at # "idle"
  BY DEF Deciders
<1>2. shape' \in {"none", "old", "new"} /\ setbacks' \in 0..MaxSetbacks
  BY AtDue
<1> QED BY <1>1, <1>2, TheOthersFollow, OneMoves

LEMMA SettleRecordedKeeps ==
    ASSUME MigrationInv, OneBuild, NEW p \in Runners, SettleRecorded(p)
    PROVE  MigrationInv'
<1> DEFINE b == runner[p].build
           d == Due(p)
           seen == runner[p].view[d]
<1>1. /\ runner[p].at \in Deciders /\ Pending(p) # {} /\ Settled(seen) /\ ~Reapplicable(b, d, seen)
      /\ UNCHANGED <<backend, birth, schema, shape, setbacks>>
  BY DEF SettleRecorded, Deciding, Deciders
<1>2. /\ MigrationTyped /\ runner[p] \in Runner /\ PassedAre(p) /\ b \in Builds /\ d \in Ids /\ CopyIsApt(p)
      /\ ledger[d] \in Row /\ Written(ledger[d], d) /\ seen \in Row /\ Written(seen, d) /\ backend \in Backends
      /\ ledger \in [Ids -> Row] /\ schema \subseteq Ids
      /\ \A m \in Ids \ Implements[b][backend] : ~Unproven(ledger[m])
  BY <1>1, AtDue DEF MigrationTyped
<1>3. d \in Implements[b][backend] => d \in Implements[Newest][backend]
  BY <1>2, CorpusFacts
<1>4. CASE seen.checksum = "none" /\ Advance(p, FALSE) /\ Supports(b, d)
           /\ Recorded(d, "applied", "body", IF backend = "sqlite" THEN "legacy-adopted" ELSE "legacy-unproven")
  <2> DEFINE r == [status |-> "applied", checksum |-> "body",
                   origin |-> IF backend = "sqlite" THEN "legacy-adopted" ELSE "legacy-unproven"]
  <2>1. r \in Row /\ ledger' = [ledger EXCEPT ![d] = r] /\ ledger'[d] = r
    BY <1>2, <1>4 DEF Row, Recorded
  <2>2. Inherited(ledger[d]) /\ (backend = "sqlite" => d \in schema) /\ d \in Implements[b][backend]
    BY <1>1, <1>4, CopyVouches DEF Supports
  <2>3. Written(r, d) /\ Inherited(r) /\ r.checksum = "body" /\ r.status # "absent"
    BY <1>2, <1>3, <2>2 DEF Written, Inherited, Backends
  <2>4. Unproven(ledger[d]) => Unproven(r)
    BY <1>2 DEF Written, Unproven
  <2>5. d \in schema \/ Unproven(r)
    BY <2>2 DEF Unproven
  <2> HIDE DEF r
  <2>6. Kept(b) /\ NoGap' /\ Ordered'
    BY <1>1, <1>2, <2>1, <2>2, <2>3, <2>4, RowIsWritten
  <2>7. RunnerIsApt(p)'
    BY <1>1, <1>4, <2>1, <2>3, <2>5, <2>6, AdvanceIsApt
  <2> QED BY <1>1, <1>2, <1>4, <2>6, <2>7, AdvanceShape, WriterMoves
<1>5. CASE seen.checksum = "none" /\ Advance(p, FALSE) /\ ~Supports(b, d)
           /\ Recorded(d, "skipped", "unimplemented", "legacy-unproven")
  <2> DEFINE r == [status |-> "skipped", checksum |-> "unimplemented", origin |-> "legacy-unproven"]
  <2>1. r \in Row /\ ledger' = [ledger EXCEPT ![d] = r] /\ ledger'[d] = r
    BY <1>2, <1>5 DEF Row, Recorded
  <2>2. d \notin Implements[b][backend] /\ ~Unproven(ledger[d])
    BY <1>2, <1>5 DEF Supports
  <2>3. Written(r, d) /\ ~Unproven(r) /\ r.status # "absent"
    BY DEF Written, Unproven
  <2> HIDE DEF r
  <2>6. Kept(b) /\ NoGap' /\ Ordered'
    BY <1>1, <1>2, <2>1, <2>2, <2>3, RowIsWritten
  <2>7. RunnerIsApt(p)'
    BY <1>1, <1>5, <2>1, <2>2, <2>3, <2>6, AdvanceIsApt
  <2> QED BY <1>1, <1>2, <1>5, <2>6, <2>7, AdvanceShape, WriterMoves
<1>6. CASE seen.checksum = ChecksumFor(b, d) /\ Advance(p, FALSE) /\ UNCHANGED ledger
  <2>1. Kept(b) /\ NoGap' /\ Ordered'
    BY <1>1, <1>2, <1>6, KeptAlone DEF MigrationInv, NoGap, Ordered
  <2>2. ledger[d].status # "absent"
    BY <1>1, <1>2 DEF CopyIsApt, Settled, EffectiveStatus
  <2>3. d \in Implements[b][backend] => d \in schema \/ Unproven(ledger[d])
    BY <1>1, <1>6, CopyVouches DEF Supports, ChecksumFor
  <2>4. RunnerIsApt(p)'
    BY <1>1, <1>6, <2>1, <2>2, <2>3, AdvanceIsApt
  <2> QED BY <1>1, <1>2, <1>6, <2>1, <2>4, AdvanceShape, WriterMoves
<1>7. CASE seen.checksum \notin {"none", ChecksumFor(b, d)} /\ Proceed(p, "refused") /\ UNCHANGED ledger
  <2>1. b # Newest
    <3>1. ASSUME b = Newest PROVE FALSE
      BY <1>1, <1>2, <1>7, <3>1 DEF Written, Row, Reapplicable, ChecksumFor, Supports, Settled, EffectiveStatus
    <3> QED BY <3>1
  <2>2. PICK n \in Runner : /\ runner' = [runner EXCEPT ![p] = n] /\ runner'[p] = n
                            /\ n.at = "refused" /\ n.build = b /\ n.next = runner[p].next
                            /\ n.view = runner[p].view /\ n.verified = runner[p].verified
    BY <1>2, <1>7, ProceedShape DEF RunnerPlaces
  <2>3. RunnerIsApt(p)'
    BY <1>1, <1>2, <2>1, <2>2, AtDue DEF RunnerIsApt, Written, Going, Deciders, Attempting
  <2> QED BY <1>1, <1>2, <1>7, <2>2, <2>3, OneMovesAlone DEF MigrationTyped
<1>8. \/ seen.checksum = "none" /\ Advance(p, FALSE) /\ Supports(b, d)
           /\ Recorded(d, "applied", "body", IF backend = "sqlite" THEN "legacy-adopted" ELSE "legacy-unproven")
      \/ seen.checksum = "none" /\ Advance(p, FALSE) /\ ~Supports(b, d)
           /\ Recorded(d, "skipped", "unimplemented", "legacy-unproven")
      \/ seen.checksum = ChecksumFor(b, d) /\ Advance(p, FALSE) /\ UNCHANGED ledger
      \/ seen.checksum \notin {"none", ChecksumFor(b, d)} /\ Proceed(p, "refused") /\ UNCHANGED ledger
  BY DEF SettleRecorded
<1> QED BY <1>4, <1>5, <1>6, <1>7, <1>8

LEMMA SkipKeeps ==
    ASSUME MigrationInv, OneBuild, NEW p \in Runners, Skip(p)
    PROVE  MigrationInv'
<1> DEFINE b == runner[p].build
           d == Due(p)
           r == [status |-> "skipped", checksum |-> "unimplemented", origin |-> "runner"]
<1>1. /\ runner[p].at \in Deciders /\ Pending(p) # {} /\ d \notin Implements[b][backend]
      /\ UNCHANGED <<backend, birth, schema, shape, setbacks>>
  BY DEF Skip, Deciding, Deciders, Supports
<1>2. /\ MigrationTyped /\ runner[p] \in Runner /\ PassedAre(p) /\ b \in Builds /\ d \in Ids /\ d \in Ships[b]
      /\ ledger \in [Ids -> Row] /\ ~Unproven(ledger[d])
  BY <1>1, AtDue DEF MigrationTyped
<1>3. d \in Covered
  BY <1>1, <1>2, CorpusFacts
<1>4. Recorded(d, "skipped", "unimplemented", "runner") /\ Advance(p, TRUE)
  BY <1>3 DEF Skip
<1>5. r \in Row /\ ledger' = [ledger EXCEPT ![d] = r] /\ ledger'[d] = r
  BY <1>2, <1>4 DEF Row, Recorded
<1>6. Written(r, d) /\ ~Unproven(r) /\ r.status # "absent"
  BY DEF Written, Unproven
<1> HIDE DEF r
<1>7. Kept(b) /\ NoGap' /\ Ordered'
  BY <1>1, <1>2, <1>5, <1>6, RowIsWritten
<1>8. RunnerIsApt(p)'
  BY <1>1, <1>4, <1>5, <1>6, <1>7, AdvanceIsApt
<1> QED BY <1>1, <1>2, <1>4, <1>7, <1>8, AdvanceShape, WriterMoves

LEMMA BeginAttemptKeeps ==
    ASSUME MigrationInv, OneBuild, NEW p \in Runners, BeginAttempt(p)
    PROVE  MigrationInv'
<1> DEFINE b == runner[p].build
           d == Due(p)
           seen == runner[p].view[d]
           r == [status |-> "running", checksum |-> "body", origin |-> "runner"]
<1>1. /\ runner[p].at \in Deciders /\ runner[p].at = "decide" /\ Pending(p) # {} /\ Unsettled(p)
      /\ d \in Implements[b][backend] /\ UNCHANGED <<backend, birth, schema, shape, setbacks>>
      /\ Recorded(d, "running", "body", "runner") /\ Proceed(p, "execute")
  BY DEF BeginAttempt, Deciding, Deciders, Supports
<1>2. /\ MigrationTyped /\ runner[p] \in Runner /\ RunnerIsApt(p) /\ PassedAre(p) /\ CopyIsApt(p) /\ b \in Builds /\ d \in Ids
      /\ ledger \in [Ids -> Row] /\ seen \in Row /\ Written(seen, d)
  BY <1>1, AtDue DEF MigrationTyped
<1>3. ~Inherited(ledger[d]) /\ ~Unproven(ledger[d])
  <2>1. ~Inherited(seen)
    BY <1>1 DEF Unsettled, Reapplicable, Settled, EffectiveStatus, Inherited
  <2>2. ~Inherited(ledger[d])
    BY <1>1, <1>2, <2>1 DEF CopyIsApt
  <2> QED BY <2>2 DEF Inherited, Unproven
<1>4. r \in Row /\ ledger' = [ledger EXCEPT ![d] = r] /\ ledger'[d] = r
  BY <1>1, <1>2 DEF Row, Recorded
<1>5. d \in Implements[Newest][backend]
  BY <1>1, <1>2, CorpusFacts
<1>6. Written(r, d) /\ ~Inherited(r) /\ ~Unproven(r) /\ r.status # "absent" /\ r.checksum = "body"
  BY <1>5 DEF Written, Inherited, Unproven
<1> HIDE DEF r
<1>7. Kept(b) /\ NoGap' /\ Ordered'
  BY <1>1, <1>2, <1>3, <1>4, <1>6, RowIsWritten
<1>8. PICK n \in Runner : /\ runner' = [runner EXCEPT ![p] = n] /\ runner'[p] = n
                          /\ n.at = "execute" /\ n.build = b /\ n.next = runner[p].next
                          /\ n.view = runner[p].view /\ n.verified = runner[p].verified
  BY <1>1, <1>2, ProceedShape DEF RunnerPlaces
<1>9. (\A m \in Ids : Written(runner[p].view[m], m))' /\ CopyIsApt(p)' /\ PassedAre(p)'
  <2>1. \A m \in Ids : Written(runner[p].view[m], m)'
    BY <1>7, <1>8, KnownStands
  <2>2. CopyIsApt(p)' /\ PassedAre(p)'
    BY <1>2, <1>7, <1>8, KnownStands
  <2> QED BY <1>8, <2>1, <2>2 DEF Written
<1>10. AttemptIsApt(p)'
  <2>1. Pending(p)' = Pending(p) /\ Due(p)' = d
    BY <1>8 DEF Pending, Due
  <2> QED BY <1>1, <1>4, <1>6, <1>8, <2>1 DEF AttemptIsApt
<1>11. \A m \in Ids \ Implements[b][backend] : ~Unproven(ledger'[m])
  BY <1>1, <1>7, AtDue DEF Kept
<1>12. RunnerIsApt(p)'
  BY <1>1, <1>2, <1>8, <1>9, <1>10, <1>11 DEF RunnerIsApt
<1> QED BY <1>1, <1>7, <1>8, <1>12, WriterMoves

LEMMA ExecuteKeeps ==
    ASSUME MigrationInv, OneBuild, NEW p \in Runners, Execute(p)
    PROVE  MigrationInv'
<1> DEFINE b == runner[p].build
           d == Due(p)
<1>1. runner[p].at = "execute" /\ UNCHANGED <<backend, birth, shape, ledger, setbacks>> /\ Proceed(p, "finish")
  BY DEF Execute
<1>2. MigrationTyped /\ RunnerIsApt(p) /\ runner[p] \in Runner /\ b \in Builds /\ AttemptIsApt(p)
  BY <1>1 DEF MigrationInv, MigrationTyped, Runner, RunnerIsApt, Attempting
<1>3. Pending(p) # {} /\ d \in Implements[b][backend] /\ runner[p].at \in Deciders
  BY <1>1, <1>2 DEF AttemptIsApt, Deciders
<1>4. PassedAre(p) /\ CopyIsApt(p) /\ d \in Ids /\ \A m \in Ids \ Implements[b][backend] : ~Unproven(ledger[m])
  BY <1>3, AtDue
<1>5. schema \subseteq schema' /\ d \in schema' /\ schema' \subseteq Ids /\ schema' \subseteq schema \cup {d} \cup Covered
  BY <1>2, <1>4, MigrationsAssumption DEF Execute, MigrationTyped
<1>6. Kept(b)
  BY <1>1, <1>5, KeptAlone
<1>7. NoGap'
  BY <1>1 DEF MigrationInv, NoGap
<1>8. Ordered'
  <2> SUFFICES ASSUME NEW m \in schema' \ (birth \cup Covered), NEW earlier \in Implements[Newest][backend], earlier < m
               PROVE  earlier \in schema' \/ Unproven(ledger[earlier])
    BY <1>1 DEF Ordered
  <2>1. CASE m \in schema
    BY <1>5, <2>1 DEF MigrationInv, Ordered
  <2>2. CASE m = d
    <3>1. earlier \in Implements[b][backend] /\ earlier \in Ships[b] /\ earlier \in Ids
      BY <1>2, <1>3, <2>2, CorpusFacts
    <3>2. earlier < runner[p].next
      BY <1>2, <1>3, <2>2, <3>1, DueIsNext
    <3> QED BY <1>4, <1>5, <3>1, <3>2 DEF PassedAre
  <2> QED BY <1>5, <2>1, <2>2
<1>9. PICK n \in Runner : /\ runner' = [runner EXCEPT ![p] = n] /\ runner'[p] = n
                          /\ n.at = "finish" /\ n.build = b /\ n.next = runner[p].next
                          /\ n.view = runner[p].view /\ n.verified = runner[p].verified
  BY <1>1, <1>2, ProceedShape DEF RunnerPlaces
<1>10. (\A m \in Ids : Written(runner[p].view[m], m))' /\ CopyIsApt(p)' /\ PassedAre(p)'
  <2>1. \A m \in Ids : Written(runner[p].view[m], m)'
    BY <1>6, <1>9, KnownStands
  <2>2. CopyIsApt(p)' /\ PassedAre(p)'
    BY <1>4, <1>6, <1>9, KnownStands
  <2> QED BY <1>9, <2>1, <2>2 DEF Written
<1>11. AttemptIsApt(p)'
  <2>1. Pending(p)' = Pending(p) /\ Due(p)' = d
    BY <1>9 DEF Pending, Due
  <2> QED BY <1>1, <1>2, <1>5, <1>9, <2>1 DEF AttemptIsApt
<1>12. RunnerIsApt(p)'
  BY <1>1, <1>2, <1>4, <1>5, <1>9, <1>10, <1>11 DEF RunnerIsApt
<1> QED BY <1>1, <1>3, <1>6, <1>7, <1>8, <1>9, <1>12, WriterMoves

LEMMA ExecuteFailsKeeps ==
    ASSUME MigrationInv, NEW p \in Runners, ExecuteFails(p)
    PROVE  MigrationInv'
<1> DEFINE b == runner[p].build
<1>1. /\ runner[p].at = "execute" /\ UNCHANGED <<backend, birth, schema, shape, ledger>>
      /\ Proceed(p, "failed") /\ setbacks' \in 0..MaxSetbacks
  BY MigrationsAssumption DEF ExecuteFails, MigrationInv, MigrationTyped
<1>2. MigrationTyped /\ RunnerIsApt(p) /\ runner[p] \in Runner /\ AttemptIsApt(p) /\ CopyIsApt(p) /\ PassedAre(p)
  BY <1>1 DEF MigrationInv, MigrationTyped, RunnerIsApt, Attempting, Deciders
<1>3. PICK n \in Runner : /\ runner' = [runner EXCEPT ![p] = n] /\ runner'[p] = n
                          /\ n.at = "failed" /\ n.build = b /\ n.next = runner[p].next
                          /\ n.view = runner[p].view /\ n.verified = runner[p].verified
  BY <1>1, <1>2, ProceedShape DEF RunnerPlaces
<1>4. Kept(b)
  BY <1>1, <1>2, KeptAlone DEF MigrationTyped
<1>5. CopyIsApt(p)' /\ PassedAre(p)' /\ AttemptIsApt(p)'
  BY <1>2, <1>3, <1>4, KnownStands
<1>6. (\A m \in Ids : Written(runner[p].view[m], m))'
  BY <1>1, <1>2, <1>3 DEF RunnerIsApt, Written
<1>7. \A m \in Ids \ Implements[b][backend] : ~Unproven(ledger[m])
  BY <1>1, <1>2 DEF RunnerIsApt, Going
<1>8. RunnerIsApt(p)'
  BY <1>1, <1>2, <1>3, <1>5, <1>6, <1>7 DEF RunnerIsApt
<1> QED BY <1>1, <1>2, <1>3, <1>8, OneMovesAlone DEF MigrationTyped

\* The outcome of an attempt is recorded on the row that the attempt began.
LEMMA FinishKeeps ==
    ASSUME MigrationInv, OneBuild, NEW p \in Runners, FinishApplied(p) \/ FinishFailed(p)
    PROVE  MigrationInv'
<1> DEFINE b == runner[p].build
           d == Due(p)
<1>1. runner[p].at \in Attempting /\ runner[p].at \in Deciders /\ UNCHANGED <<backend, birth, schema, shape, setbacks>>
  BY DEF FinishApplied, FinishFailed, Attempting, Deciders
<1>2. AttemptIsApt(p)
  BY <1>1 DEF MigrationInv, RunnerIsApt
<1>3. Pending(p) # {} /\ d \in Implements[b][backend] /\ ledger[d].checksum = "body" /\ ~Inherited(ledger[d])
  BY <1>2 DEF AttemptIsApt
<1>4. /\ MigrationTyped /\ PassedAre(p) /\ runner[p] \in Runner /\ b \in Builds /\ d \in Ids
      /\ ledger[d] \in Row /\ Written(ledger[d], d) /\ ledger \in [Ids -> Row]
  BY <1>1, <1>3, AtDue DEF MigrationTyped
<1>5. ledger[d].origin = "runner" /\ d \in Implements[Newest][backend] /\ ~Unproven(ledger[d])
  BY <1>3, <1>4 DEF Written, Inherited, Row, Unproven
<1>6. ASSUME NEW status \in {"applied", "failed"}, Finish(p, d, status), status = "applied" => d \in schema
      PROVE  Kept(b) /\ NoGap' /\ Ordered' /\ ledger'[d].status # "absent"
  <2> DEFINE r == [ledger[d] EXCEPT !.status = status]
  <2>1. r \in Row /\ r.status = status /\ r.checksum = "body" /\ r.origin = "runner"
    BY <1>3, <1>4, <1>5 DEF Row
  <2>2. ledger' = [ledger EXCEPT ![d] = r] /\ ledger'[d] = r
    BY <1>4, <1>6 DEF Finish
  <2> HIDE DEF r
  <2>3. Written(r, d) /\ ~Inherited(r) /\ ~Unproven(r) /\ r.status # "absent"
    BY <1>5, <1>6, <2>1 DEF Written, Inherited, Unproven
  <2> QED BY <1>1, <1>3, <1>4, <1>5, <2>1, <2>2, <2>3, RowIsWritten
<1>7. CASE FinishApplied(p)
  <2>1. Finish(p, d, "applied") /\ Advance(p, TRUE) /\ d \in schema
    BY <1>2, <1>7 DEF FinishApplied, AttemptIsApt
  <2>2. Kept(b) /\ NoGap' /\ Ordered' /\ ledger'[d].status # "absent"
    BY <1>6, <2>1
  <2>3. RunnerIsApt(p)'
    BY <1>1, <1>3, <2>1, <2>2, AdvanceIsApt
  <2> QED BY <1>1, <1>3, <1>4, <2>1, <2>2, <2>3, AdvanceShape, WriterMoves
<1>8. CASE FinishFailed(p)
  <2>1. Finish(p, d, "failed") /\ runner' = [runner EXCEPT ![p] = Idle] /\ runner'[p] = Idle
    BY <1>4, <1>8 DEF FinishFailed, MigrationTyped
  <2>2. Kept(b) /\ NoGap' /\ Ordered'
    BY <1>6, <2>1
  <2>3. Idle \in Runner /\ RunnerIsApt(p)'
    BY <2>1, IdleIsApt
  <2>4. \A q \in Runners \ {p} : runner[q].at \in Going => Kept(runner[q].build)
    BY <1>1, <2>2, TheOthersFollow DEF Attempting
  <2>5. Kept(Idle.build)
    <3>1. Idle.build = Newest
      BY DEF Idle
    <3>2. \A m \in Ids : Unproven(ledger'[m]) => m \in Implements[Newest][backend]
      BY <2>2 DEF Kept, Written, Unproven
    <3>3. Implements[Newest][backend] \subseteq Ids
      BY <1>4, CorpusFacts, MigrationsAssumption
    <3>4. ledger' = [ledger EXCEPT ![d] = [ledger[d] EXCEPT !.status = "failed"]] /\ ~Inherited(ledger'[d]) /\ ledger'[d].checksum = "body"
      BY <1>3, <1>4, <1>5, <2>1 DEF Finish, Inherited, Row
    <3>5. \A m \in Ids : /\ Inherited(ledger'[m]) <=> Inherited(ledger[m])
                         /\ ledger[m].checksum = "body" => ledger'[m].checksum = "body"
      BY <1>3, <1>4, <3>4
    <3> QED BY <2>2, <3>1, <3>2, <3>3, <3>5 DEF Kept
  <2>6. shape' \in {"none", "old", "new"} /\ setbacks' \in 0..MaxSetbacks
    BY <1>1, <1>4 DEF MigrationTyped
  <2> QED BY <2>1, <2>2, <2>3, <2>4, <2>5, <2>6, OneMoves
<1> QED BY <1>7, <1>8

LEMMA VerifySchemaKeeps ==
    ASSUME MigrationInv, NEW p \in Runners, VerifySchema(p)
    PROVE  MigrationInv'
<1> DEFINE b == runner[p].build
           current == Ships[b] \subseteq schema
           looks == runner[p].executed \/ ~runner[p].verified
           n == [runner[p] EXCEPT !.at = IF looks /\ ~current THEN "drift" ELSE "ready", !.verified = ~looks \/ current]
<1>1. MigrationTyped /\ runner[p] \in Runner /\ RunnerIsApt(p) /\ UNCHANGED <<backend, birth, schema, shape, ledger, setbacks>>
  BY DEF MigrationInv, MigrationTyped, VerifySchema
<1>2. runner' = [runner EXCEPT ![p] = n] /\ runner'[p] = n
  BY <1>1 DEF VerifySchema, MigrationTyped
<1>3. n \in Runner /\ n.at = (IF looks /\ ~current THEN "drift" ELSE "ready") /\ n.verified = (~looks \/ current)
         /\ n.build = b /\ n.view = runner[p].view
  BY <1>1 DEF Runner, RunnerPlaces
<1>4. runner[p].verified => current
  BY <1>1 DEF RunnerIsApt
<1> HIDE DEF n
<1>5. n.at \in {"drift", "ready"} /\ (n.at = "ready" => n.verified) /\ (n.verified => current)
  <2>1. CASE looks /\ ~current
    <3>1. n.at = "drift" /\ n.verified = FALSE
      BY <1>3, <2>1
    <3> QED BY <3>1
  <2>2. CASE ~looks \/ current
    <3>1. n.at = "ready" /\ n.verified = TRUE
      BY <1>3, <2>2
    <3>2. current
      BY <1>1, <1>4, <2>2 DEF Runner
    <3> QED BY <3>1, <3>2
  <2> QED BY <2>1, <2>2
<1>6. (\A m \in Ids : Written(runner[p].view[m], m))'
  BY <1>1, <1>2, <1>3 DEF RunnerIsApt, Written
<1>7. RunnerIsApt(p)'
  BY <1>1, <1>2, <1>3, <1>5, <1>6 DEF RunnerIsApt, Going, Deciders, Attempting
<1> QED BY <1>1, <1>2, <1>3, <1>7, OneMovesAlone DEF MigrationTyped

LEMMA RestartKeeps ==
    ASSUME MigrationInv, NEW p \in Runners, Restart(p)
    PROVE  MigrationInv'
<1>1. UNCHANGED <<backend, birth, schema, shape, ledger>> /\ runner' = [runner EXCEPT ![p] = Idle] /\ runner'[p] = Idle
  BY DEF Restart, MigrationInv, MigrationTyped
<1>2. setbacks' \in 0..MaxSetbacks /\ shape' \in {"none", "old", "new"}
  BY <1>1, MigrationsAssumption DEF Restart, MigrationInv, MigrationTyped
<1> QED BY <1>1, <1>2, IdleIsApt, OneMovesAlone

LEMMA MigrationSteps ==
    ASSUME MigrationInv, OneBuild, [MigrationNext]_migrationVars
    PROVE  MigrationInv'
<1>1. CASE MigrationNext
  <2>1. PICK p \in Runners : Preflight(p) \/ RunnerStep(p) \/ ExecuteFails(p) \/ Restart(p)
    BY <1>1 DEF MigrationNext
  <2> QED BY <2>1, PreflightKeeps, EnsureColumnsKeeps, AdoptStatusKeeps, ReadLedgerKeeps, SettleRecordedKeeps, SkipKeeps,
             BeginAttemptKeeps, ExecuteKeeps, ExecuteFailsKeeps, FinishKeeps, VerifySchemaKeeps, RestartKeeps DEF RunnerStep
<1>2. CASE UNCHANGED migrationVars
  BY <1>2 DEF migrationVars, MigrationInv, MigrationTyped, NoGap, Ordered, Written, RunnerIsApt, CopyIsApt, PassedAre,
              AttemptIsApt, Pending, Due
<1> QED BY <1>1, <1>2

LEMMA MigrationBegins ==
    ASSUME MigrationInit
    PROVE  MigrationInv
<1>1. PICK rows \in SUBSET (Ids \ {1}) :
        /\ shape = IF rows = {} THEN "none" ELSE "old"
        /\ ledger = [m \in Ids |-> IF m \in rows THEN LegacyRow ELSE NoRow]
        /\ birth \in IF rows = {} THEN {{}} ELSE IF backend = "sqlite" THEN {rows} ELSE SUBSET rows
  BY DEF MigrationInit
<1>2. ledger \in [Ids -> Row] /\ \A m \in Ids : ledger[m].checksum = "none" /\ ledger[m].origin = "none"
  BY <1>1 DEF Row, LegacyRow, NoRow
<1>3. Idle \in Runner /\ 0 \in 0..MaxSetbacks
  BY MigrationsAssumption DEF Idle, Runner, RunnerPlaces, Row, NoRow
<1>4. MigrationTyped
  <2>1. shape \in {"none", "old", "new"} /\ schema \subseteq Ids
    BY <1>1 DEF MigrationInit
  <2> QED BY <1>2, <1>3, <2>1 DEF MigrationInit, MigrationTyped
<1>5. NoGap /\ Ordered
  BY <1>2 DEF MigrationInit, NoGap, Ordered
<1>6. \A m \in Ids : Written(ledger[m], m)
  <2> SUFFICES ASSUME NEW m \in Ids PROVE Written(ledger[m], m)
    OBVIOUS
  <2>1. CASE m \in rows
    <3>1. ledger[m] = LegacyRow /\ (backend = "sqlite" => m \in schema)
      BY <1>1, <2>1 DEF MigrationInit
    <3> QED BY <3>1 DEF LegacyRow, Written
  <2>2. CASE m \notin rows
    <3>1. ledger[m] = NoRow
      BY <1>1, <2>2
    <3> QED BY <3>1 DEF NoRow, Written
  <2> QED BY <2>1, <2>2
<1>7. \A p \in Runners : RunnerIsApt(p)
  <2> SUFFICES ASSUME NEW p \in Runners PROVE RunnerIsApt(p)
    OBVIOUS
  <2>1. runner[p] = Idle
    BY DEF MigrationInit
  <2>2. \A m \in Ids : Written(runner[p].view[m], m)
    BY <2>1 DEF Idle, NoRow, Written
  <2>3. runner[p].at = "idle" /\ runner[p].verified = FALSE
    BY <2>1 DEF Idle
  <2> QED BY <2>2, <2>3 DEF RunnerIsApt, Going, Deciders, Attempting
<1> QED BY <1>4, <1>5, <1>6, <1>7 DEF MigrationInv

LEMMA MigrationFollows ==
    ASSUME MigrationInv
    PROVE  LedgerIsTrue
<1>1. MigrationTyped /\ (\A m \in Ids : ledger[m] \in Row /\ Written(ledger[m], m)) /\ \A p \in Runners : runner[p] \in Runner /\ RunnerIsApt(p)
  BY DEF MigrationInv, MigrationTyped
<1>2. MigrationTypeOK
  <2>1. \A m \in Ids : ledger[m].status = "skipped" <=> ledger[m].checksum = "unimplemented"
    BY <1>1 DEF Written
  <2>2. \A p \in Runners : runner[p].at \in RunnerPlaces
    BY <1>1 DEF Runner
  <2> QED BY <1>1, <2>1, <2>2 DEF MigrationTypeOK, MigrationTyped, Row, RunnerPlaces
<1>3. AppliedIsReal
  BY <1>1 DEF AppliedIsReal, EffectiveStatus, Proven, Written
<1>4. InOrder
  <2>1. Implements[Newest][backend] \subseteq Ids
    BY <1>1, CorpusFacts, MigrationsAssumption
  <2>2. \A m \in Ids : Unproven(ledger[m]) => ~Proven(m)
    BY <1>1 DEF Unproven, Proven, Written
  <2> QED BY <2>1, <2>2 DEF MigrationInv, Ordered, InOrder
<1>5. ReadyMeansCurrent /\ NewestNeverRefused
  BY <1>1 DEF RunnerIsApt, ReadyMeansCurrent, NewestNeverRefused
<1> QED BY <1>2, <1>3, <1>4, <1>5 DEF LedgerIsTrue

\* storage/migrations.py: whatever processes of one build do to each other's ledger, and wherever
\* they die, the ledger tells the truth about the schema, the deltas keep their order, a process
\* that serves has its schema, and the newest build refuses no store.
THEOREM LedgersAreTrue == MigrationInit /\ [][MigrationNext]_migrationVars /\ []OneBuild => []LedgerIsTrue
<1>1. MigrationInv /\ OneBuild /\ [MigrationNext]_migrationVars => MigrationInv'
  BY MigrationSteps
<1> QED BY <1>1, MigrationBegins, MigrationFollows, PTL

-----------------------------------------------------------------------------
(* The composition that is checked.                                        *)

HostInv == SuperInv /\ ServiceInv /\ CredentialTypeOK

\* Whoever moves, each component takes a step of its own or stands.
LEMMA EachStands ==
    ASSUME [PlatformNext]_PlatformVars
    PROVE  [MigrationNext]_migrationVars /\ [SuperNext]_superVars /\ [ServiceNext]_serviceVars /\ [CredentialNext]_credentialVars
BY DEF PlatformNext, PlatformVars

LEMMA HostSteps ==
    ASSUME HostInv, [PlatformNext]_PlatformVars
    PROVE  HostInv' /\ ReplacementKept /\ CredentialStep
BY EachStands, SuperSteps, ServiceSteps, CredentialSteps DEF HostInv, CredentialStep

LEMMA HostBegins ==
    ASSUME PlatformInit
    PROVE  HostInv
BY SuperBegins, ServiceBegins, CredentialBegins DEF PlatformInit, HostInv

\* The supervisor, the service and the credential store, as they are checked together: one
\* process of a Child at a time, and a stop that is honest about whom it stopped.
THEOREM HostStaysHonest == PlatformSpec => []HostIsHonest
<1>1. HostInv => HostIsHonest
  BY SuperFollows, ServiceFollows DEF HostInv, HostIsHonest
<1>2. HostInv /\ [PlatformNext]_PlatformVars => HostInv'
  BY HostSteps
<1> QED BY <1>1, <1>2, HostBegins, PTL DEF PlatformSpec

\* What one actor recorded - a supervisor its PID, an operator a key's revocation - no other
\* actor's stale knowledge undoes.
THEOREM HostRecordsHold == PlatformSpec => HostRecordsStand
<1>1. HostInv /\ [PlatformNext]_PlatformVars
         => HostInv' /\ [ReplacementKept /\ RevokedStays /\ OnlyExplicitRevokes]_<<serviceVars, credentialVars>>
  BY HostSteps DEF CredentialStep
<1> QED BY <1>1, HostBegins, PTL DEF PlatformSpec, HostRecordsStand

\* And the ledger, as long as the processes that migrate at one time are of one build.
THEOREM HostLedgersAreTrue == PlatformSpec /\ []OneBuild => []LedgerIsTrue
<1>1. MigrationInv /\ OneBuild /\ [PlatformNext]_PlatformVars => MigrationInv'
  BY EachStands, MigrationSteps
<1>2. PlatformInit => MigrationInv
  BY MigrationBegins DEF PlatformInit
<1> QED BY <1>1, <1>2, MigrationFollows, PTL DEF PlatformSpec

-----------------------------------------------------------------------------

-----------------------------------------------------------------------------
(* Backup, restore and the frame of a repair.  A repair holds the write     *)
(* lock from its look at the archive to its commit, so that the archive     *)
(* stays the store; a restore that nobody writes beside keeps the rollback  *)
(* point as the store, and then the sidecar as a part of it.                *)

CommandRows == [op : Commands \cup {"none"},
                at : {"none", "attempted", "capture", "verify", "converge", "commit", "rollback", "replace", "check",
                      "restored", "outcome"},
                before : Images \cup {NoImage}, alone : BOOLEAN]
RecoveryTyped ==
    /\ file \in Images /\ frames \in [Pages -> Versions \cup {-1}] /\ serving \in BOOLEAN
    /\ archive \in Images \cup {NoImage} /\ rollback \in Images \cup {NoImage} /\ minted \in Versions
    /\ command \in CommandRows

RecoveryInv ==
    /\ RecoveryTyped
    /\ command.op = "restore" => archive \in Images
    /\ command.at \in {"rollback", "replace", "check"} => rollback \in Images
    /\ command.alone => ~serving
    /\ command.op \in Repairs /\ command.at \in {"converge", "commit"} => archive = View
    /\ command.at \in {"capture", "verify", "converge", "commit"} => command.op \in Repairs
    /\ command.at = "replace" /\ command.alone => rollback = View
    /\ command.at \in {"check", "restored"} /\ command.alone => rollback = command.before
    /\ command.at = "check" /\ command.alone => \A page \in Pages : frames[page] # -1 => frames[page] = rollback[page]

LEMMA ViewIs ==
    ASSUME RecoveryTyped
    PROVE  View \in Images
BY DEF View, RecoveryTyped, Images

\* The sidecar goes into the file and no reader sees a difference.
LEMMA MovesKeepView ==
    ASSUME RecoveryTyped, Moves
    PROVE  View' = View /\ file' \in Images /\ frames' = NoImage /\ NoImage \in [Pages -> Versions \cup {-1}]
           /\ \A page \in Pages : frames'[page] = -1
<1>1. file' = View /\ View \in Images /\ frames' = NoImage
  BY ViewIs DEF Moves
<1>2. \A page \in Pages : frames'[page] = -1
  BY <1>1 DEF NoImage
<1>3. View' = [page \in Pages |-> file'[page]]
  BY <1>2 DEF View
<1>4. NoImage \in [Pages -> Versions \cup {-1}]
  BY DEF NoImage
<1> QED BY <1>1, <1>2, <1>3, <1>4 DEF Images

\* What SQLite and the service tree do.
LEMMA CommitsType ==
    ASSUME RecoveryTyped, NEW page \in Pages, Commits(page)
    PROVE  file' \in Images /\ frames' \in [Pages -> Versions \cup {-1}] /\ minted' \in Versions
BY RecoveryAssumption DEF Commits, RecoveryTyped, Versions, Images

LEMMA AroundKeeps ==
    ASSUME RecoveryInv, ServiceWrites \/ Checkpoint \/ StopService \/ StartService
    PROVE  RecoveryInv'
<1>0. RecoveryTyped
  BY DEF RecoveryInv
<1>1. CASE ServiceWrites
  <2>1. serving /\ ~Locked /\ Commits("data") /\ UNCHANGED <<serving, archive, rollback, command>>
    BY <1>1 DEF ServiceWrites
  <2>2. RecoveryTyped'
    BY <1>0, <2>1, CommitsType DEF RecoveryTyped, Pages
  <2>3. ~command.alone
    BY <2>1 DEF RecoveryInv
  <2>4. ~(command.op \in Repairs /\ command.at \in {"converge", "commit"})
    BY <2>1 DEF Locked, Repairs
  <2> QED BY <2>1, <2>2, <2>3, <2>4 DEF RecoveryInv
<1>2. ASSUME Moves, UNCHANGED <<archive, rollback, command, minted>>, serving' \in BOOLEAN, serving' => serving
      PROVE  RecoveryInv'
  <2>1. View' = View /\ file' \in Images /\ frames' \in [Pages -> Versions \cup {-1}] /\ \A page \in Pages : frames'[page] = -1
    BY <1>0, <1>2, MovesKeepView
  <2>2. RecoveryTyped'
    BY <1>0, <1>2, <2>1 DEF RecoveryTyped
  <2> QED BY <1>2, <2>1, <2>2 DEF RecoveryInv
<1>3. CASE Checkpoint
  BY <1>0, <1>2, <1>3 DEF Checkpoint, RecoveryTyped
<1>4. CASE StopService
  <2>1. CASE Pooled
    <3>1. RecoveryTyped' /\ View' = View
      BY <1>0, <1>4, <2>1 DEF StopService, RecoveryTyped, View
    <3> QED BY <1>4, <2>1, <3>1 DEF StopService, RecoveryInv
  <2>2. CASE ~Pooled
    BY <1>2, <1>4, <2>2 DEF StopService
  <2> QED BY <2>1, <2>2
<1>5. CASE StartService
  <2>1. PICK no \in BOOLEAN : no = FALSE
    OBVIOUS
  <2>2. command' = [command EXCEPT !.alone = no] /\ command \in CommandRows
    BY <1>0, <1>5, <2>1 DEF StartService, RecoveryTyped
  <2>3. command' \in CommandRows /\ command'.op = command.op /\ command'.at = command.at /\ command'.before = command.before
        /\ command'.alone = no
    BY <2>2 DEF CommandRows
  <2>4. RecoveryTyped' /\ View' = View
    BY <1>0, <1>5, <2>3 DEF StartService, RecoveryTyped, View
  <2> QED BY <1>5, <2>1, <2>3, <2>4 DEF StartService, RecoveryInv
<1> QED BY <1>1, <1>3, <1>4, <1>5

\* A command goes on to its next step.
LEMMA GoesTo ==
    ASSUME command \in CommandRows, NEW to \in {"none", "attempted", "capture", "verify", "converge", "commit", "rollback",
                                                "replace", "check", "restored", "outcome"}, Goes(to)
    PROVE  /\ command' \in CommandRows /\ command'.op = command.op /\ command'.at = to /\ command'.before = command.before
           /\ command'.alone = command.alone
<1>1. command' = [command EXCEPT !.at = to]
  BY DEF Goes
<1>2. command' \in CommandRows /\ command'.op = command.op /\ command'.at = to /\ command'.before = command.before
  BY <1>1 DEF CommandRows
<1>3. command'.alone = command.alone
  BY <1>1 DEF CommandRows
<1> QED BY <1>2, <1>3

LEMMA BeginAndEndKeep ==
    ASSUME RecoveryInv, (\E deed \in Commands : attempt(deed)) \/ outcome \/ CommandEnds
    PROVE  RecoveryInv'
<1>0. RecoveryTyped /\ command \in CommandRows
  BY DEF RecoveryInv, RecoveryTyped
<1>1. ASSUME NEW deed \in Commands, attempt(deed)
      PROVE  RecoveryInv'
  <2>1. PICK b \in BOOLEAN : b = ~serving
    BY <1>0 DEF RecoveryTyped
  <2>2. command' = [op |-> deed, at |-> "attempted", before |-> View, alone |-> b]
        /\ Commits("log") /\ UNCHANGED <<serving, archive, rollback>> /\ (deed = "restore" => archive # NoImage)
    BY <1>1, <2>1 DEF attempt
  <2>3. command' \in CommandRows /\ command'.op = deed /\ command'.at = "attempted" /\ command'.alone = b
    BY <1>0, <2>2, ViewIs DEF CommandRows
  <2>4. RecoveryTyped'
    BY <1>0, <2>2, <2>3, CommitsType DEF RecoveryTyped, Pages
  <2>5. deed = "restore" => archive \in Images
    BY <1>0, <2>2 DEF RecoveryTyped
  <2> QED BY <2>1, <2>2, <2>3, <2>4, <2>5 DEF RecoveryInv
<1>2. CASE outcome
  <2>1. Commits("log") /\ Goes("none") /\ UNCHANGED <<serving, archive, rollback>>
    BY <1>2 DEF outcome
  <2>2. command' \in CommandRows /\ command'.op = command.op /\ command'.at = "none" /\ command'.alone = command.alone
    BY <1>0, <2>1, GoesTo
  <2>3. RecoveryTyped'
    BY <1>0, <2>1, <2>2, CommitsType DEF RecoveryTyped, Pages
  <2> QED BY <2>1, <2>2, <2>3 DEF RecoveryInv
<1>3. CASE CommandEnds
  <2>1. PICK no \in BOOLEAN : no = FALSE
    OBVIOUS
  <2>2. command' = [op |-> "none", at |-> "none", before |-> NoImage, alone |-> no] /\ UNCHANGED <<serving, archive, rollback, minted>>
    BY <1>3, <2>1 DEF CommandEnds, NoCommand
  <2>3. command' \in CommandRows /\ command'.op = "none" /\ command'.at = "none" /\ command'.alone = no
    BY <2>2 DEF CommandRows
  <2>4. file' \in Images /\ frames' \in [Pages -> Versions \cup {-1}]
    BY <1>0, <1>3, MovesKeepView DEF CommandEnds, RecoveryTyped
  <2>5. RecoveryTyped'
    BY <1>0, <2>2, <2>3, <2>4 DEF RecoveryTyped
  <2> QED BY <2>1, <2>2, <2>3, <2>5 DEF RecoveryInv
<1> QED BY <1>1, <1>2, <1>3

\* The backup and the repair: nobody else writes from the verification to the commit.
LEMMA RepairKeeps ==
    ASSUME RecoveryInv, create_backup \/ _acquire_write_lock \/ capture \/ verify_backup \/ converge \/ commit
    PROVE  RecoveryInv'
<1>0. RecoveryTyped /\ command \in CommandRows /\ View \in Images
  BY ViewIs DEF RecoveryInv, RecoveryTyped
<1>1. CASE create_backup
  <2>1. Goes("outcome") /\ archive' = View /\ Reads /\ UNCHANGED <<serving, rollback>>
    BY <1>1 DEF create_backup, Image
  <2>2. command' \in CommandRows /\ command'.op = command.op /\ command'.at = "outcome" /\ command'.alone = command.alone
    BY <1>0, <2>1, GoesTo
  <2>3. RecoveryTyped'
    BY <1>0, <2>1, <2>2 DEF Reads, RecoveryTyped
  <2> QED BY <1>0, <2>1, <2>2, <2>3 DEF RecoveryInv
<1>2. CASE _acquire_write_lock
  <2> DEFINE to == IF command.op = "repair" THEN "capture" ELSE "verify"
  <2>1. Goes(to) /\ Reads /\ UNCHANGED <<serving, archive, rollback>> /\ command.op \in Repairs
    BY <1>2 DEF _acquire_write_lock
  <2>2. to \in {"capture", "verify"}
    OBVIOUS
  <2> HIDE DEF to
  <2>3. command' \in CommandRows /\ command'.op = command.op /\ command'.at = to /\ command'.alone = command.alone
    BY <1>0, <2>1, <2>2, GoesTo
  <2>4. RecoveryTyped'
    BY <1>0, <2>1, <2>3 DEF Reads, RecoveryTyped
  <2> QED BY <2>1, <2>2, <2>3, <2>4 DEF RecoveryInv
<1>3. CASE capture
  <2>1. Goes("verify") /\ archive' = View /\ Reads /\ UNCHANGED <<serving, rollback>> /\ command.op \in Repairs
    BY <1>3 DEF capture, Image, Repairs
  <2>2. command' \in CommandRows /\ command'.op = command.op /\ command'.at = "verify" /\ command'.alone = command.alone
    BY <1>0, <2>1, GoesTo
  <2>3. RecoveryTyped'
    BY <1>0, <2>1, <2>2 DEF Reads, RecoveryTyped
  <2> QED BY <1>0, <2>1, <2>2, <2>3 DEF RecoveryInv
<1>4. CASE verify_backup
  <2> DEFINE to == IF _bind_to_live_source(archive) THEN "converge" ELSE "outcome"
  <2>1. Goes(to) /\ Reads /\ UNCHANGED <<serving, archive, rollback>> /\ command.op \in Repairs
    BY <1>4 DEF verify_backup
  <2>2. to \in {"converge", "outcome"} /\ (to = "converge" => archive = View)
    BY DEF _bind_to_live_source
  <2> HIDE DEF to
  <2>3. command' \in CommandRows /\ command'.op = command.op /\ command'.at = to /\ command'.alone = command.alone
    BY <1>0, <2>1, <2>2, GoesTo
  <2>4. RecoveryTyped' /\ View' = View
    BY <1>0, <2>1, <2>3 DEF Reads, RecoveryTyped, View
  <2> QED BY <2>1, <2>2, <2>3, <2>4 DEF RecoveryInv
<1>5. CASE converge
  <2>1. Goes("commit") /\ Reads /\ UNCHANGED <<serving, archive, rollback>> /\ command.op \in Repairs /\ command.at = "converge"
    BY <1>5 DEF converge
  <2>2. command' \in CommandRows /\ command'.op = command.op /\ command'.at = "commit" /\ command'.alone = command.alone
    BY <1>0, <2>1, GoesTo
  <2>3. RecoveryTyped' /\ View' = View
    BY <1>0, <2>1, <2>2 DEF Reads, RecoveryTyped, View
  <2> QED BY <2>1, <2>2, <2>3 DEF RecoveryInv
<1>6. CASE commit
  <2>1. Goes("outcome") /\ Commits("data") /\ UNCHANGED <<serving, archive, rollback>>
    BY <1>6 DEF commit
  <2>2. command' \in CommandRows /\ command'.op = command.op /\ command'.at = "outcome" /\ command'.alone = command.alone
    BY <1>0, <2>1, GoesTo
  <2>3. RecoveryTyped'
    BY <1>0, <2>1, <2>2, CommitsType DEF RecoveryTyped, Pages
  <2> QED BY <2>1, <2>2, <2>3 DEF RecoveryInv
<1> QED BY <1>1, <1>2, <1>3, <1>4, <1>5, <1>6

\* The restore.
LEMMA RestoreKeeps ==
    ASSUME RecoveryInv, capture_rollback \/ verify_rollback \/ _restore_sqlite \/ check_restored
    PROVE  RecoveryInv'
<1>0. RecoveryTyped /\ command \in CommandRows /\ View \in Images
  BY ViewIs DEF RecoveryInv, RecoveryTyped
<1>1. CASE capture_rollback
  <2>1. Goes("rollback") /\ rollback' = View /\ Reads /\ UNCHANGED <<serving, archive>>
    BY <1>1 DEF capture_rollback, Image
  <2>2. command' \in CommandRows /\ command'.op = command.op /\ command'.at = "rollback" /\ command'.alone = command.alone
    BY <1>0, <2>1, GoesTo
  <2>3. RecoveryTyped'
    BY <1>0, <2>1, <2>2 DEF Reads, RecoveryTyped
  <2> QED BY <1>0, <2>1, <2>2, <2>3 DEF RecoveryInv
<1>2. CASE verify_rollback
  <2> DEFINE to == IF _bind_to_live_source(rollback) THEN "replace" ELSE "outcome"
  <2>1. PICK b \in BOOLEAN : b = ~serving
    BY <1>0 DEF RecoveryTyped
  <2>2. command' = [command EXCEPT !.at = to, !.alone = b] /\ Reads /\ UNCHANGED <<serving, archive, rollback>>
    BY <1>2, <2>1 DEF verify_rollback
  <2>3. to \in {"replace", "outcome"} /\ (to = "replace" => rollback = View)
    BY DEF _bind_to_live_source
  <2> HIDE DEF to
  <2>4. command' \in CommandRows /\ command'.op = command.op /\ command'.at = to /\ command'.alone = b
    BY <1>0, <2>2, <2>3 DEF CommandRows
  <2>5. RecoveryTyped' /\ View' = View
    BY <1>0, <2>2, <2>4 DEF Reads, RecoveryTyped, View
  <2> QED BY <1>0, <2>1, <2>2, <2>3, <2>4, <2>5 DEF RecoveryInv
<1>3. CASE _restore_sqlite
  <2>1. /\ command' = [command EXCEPT !.at = "check", !.before = View] /\ file' = archive /\ command.at = "replace"
        /\ UNCHANGED <<frames, serving, archive, rollback, minted>>
    BY <1>3 DEF _restore_sqlite
  <2>2. command' \in CommandRows /\ command'.op = command.op /\ command'.at = "check" /\ command'.before = View
    BY <1>0, <2>1 DEF CommandRows
  <2>3. command'.alone = command.alone
    BY <1>0, <2>1 DEF CommandRows
  <2>4. archive \in Images /\ rollback \in Images
    BY <1>3 DEF RecoveryInv, _restore_sqlite
  <2>5. RecoveryTyped'
    BY <1>0, <2>1, <2>2, <2>4 DEF RecoveryTyped
  <2>6. command.alone => rollback = View /\ ~serving
    BY <2>1 DEF RecoveryInv
  <2>7. \A page \in Pages : frames[page] # -1 => frames[page] = View[page]
    BY DEF View
  <2> QED BY <2>1, <2>2, <2>3, <2>5, <2>6, <2>7 DEF RecoveryInv
<1>4. CASE check_restored
  <2>1. CASE Reads /\ Goes("restored") /\ UNCHANGED <<serving, archive, rollback>> /\ command.at = "check"
    <3>1. command' \in CommandRows /\ command'.op = command.op /\ command'.at = "restored" /\ command'.alone = command.alone /\ command'.before = command.before
      BY <1>0, <2>1, GoesTo
    <3>2. RecoveryTyped'
      BY <1>0, <2>1, <3>1 DEF Reads, RecoveryTyped
    <3> QED BY <2>1, <3>1, <3>2 DEF RecoveryInv
  <2>2. CASE file' = rollback /\ UNCHANGED <<frames, minted>> /\ Goes("outcome") /\ UNCHANGED <<serving, archive, rollback>>
    <3>1. command' \in CommandRows /\ command'.op = command.op /\ command'.at = "outcome" /\ command'.alone = command.alone
      BY <1>0, <2>2, GoesTo
    <3>2. rollback \in Images
      BY <1>4 DEF RecoveryInv, check_restored
    <3>3. RecoveryTyped'
      BY <1>0, <2>2, <3>1, <3>2 DEF RecoveryTyped
    <3> QED BY <2>2, <3>1, <3>3 DEF RecoveryInv
  <2> QED BY <1>4, <2>1, <2>2 DEF check_restored
<1> QED BY <1>1, <1>2, <1>3, <1>4

LEMMA RecoverySteps ==
    ASSUME RecoveryInv, [RecoveryNext]_recoveryVars
    PROVE  RecoveryInv'
<1>1. CASE UNCHANGED recoveryVars
  <2>1. View' = View
    BY <1>1 DEF recoveryVars, View
  <2> QED BY <1>1, <2>1 DEF recoveryVars, RecoveryInv, RecoveryTyped
<1> QED BY <1>1, AroundKeeps, BeginAndEndKeep, RepairKeeps, RestoreKeeps DEF RecoveryNext

LEMMA RecoveryBegins ==
    ASSUME RecoveryInit
    PROVE  RecoveryInv
<1>1. PICK no \in BOOLEAN, yes \in BOOLEAN : no = FALSE /\ yes = TRUE
  OBVIOUS
<1>2. command = [op |-> "none", at |-> "none", before |-> NoImage, alone |-> no] /\ serving = yes
  BY <1>1 DEF RecoveryInit, NoCommand
<1>3. command \in CommandRows /\ command.at = "none" /\ command.op = "none" /\ command.alone = no
  BY <1>2 DEF CommandRows
<1>4. 0 \in Versions /\ NoImage \in [Pages -> Versions \cup {-1}]
  BY RecoveryAssumption DEF Versions, NoImage
<1>5. RecoveryTyped
  BY <1>2, <1>3, <1>4 DEF RecoveryInit, RecoveryTyped, Images
<1> QED BY <1>1, <1>3, <1>5 DEF RecoveryInv, Repairs

LEMMA RecoveryFollows ==
    ASSUME RecoveryInv
    PROVE  RecoveryIsSound
<1>1. command \in CommandRows
  BY DEF RecoveryInv, RecoveryTyped
<1>2. /\ command.op \in Commands \cup {"none"} /\ command.before \in Images \cup {NoImage}
      /\ command.at \in {"none", "attempted", "capture", "verify", "converge", "commit", "rollback", "replace", "check",
                         "restored", "outcome"}
  BY <1>1 DEF CommandRows
<1>3. RecoveryTypeOK
  BY <1>2 DEF RecoveryInv, RecoveryTyped, RecoveryTypeOK
<1>4. RollbackIsBefore
  BY DEF RecoveryInv, RollbackIsBefore
<1> QED BY <1>3, <1>4 DEF RecoveryIsSound

\* What is archived is the store at one instant, what is repaired is archived, and what is refused undone.
LEMMA RecoveryStands ==
    ASSUME RecoveryInv, [RecoveryNext]_recoveryVars
    PROVE  RepairedIsArchived /\ RefusedIsUndone /\ ArchiveIsOneInstant
<1>0. command \in CommandRows /\ RecoveryTyped
  BY DEF RecoveryInv, RecoveryTyped
<1>1. RepairedIsArchived
  BY DEF RepairedIsArchived, commit, RecoveryInv
<1>2. ArchiveIsOneInstant
  <2>1. archive' # archive => create_backup \/ capture
    BY DEF RecoveryNext, recoveryVars, ServiceWrites, Checkpoint, StopService, StartService, attempt, outcome, CommandEnds,
           _acquire_write_lock, verify_backup, converge, commit, capture_rollback, verify_rollback, _restore_sqlite, check_restored
  <2>2. create_backup \/ capture => archive' = View /\ View' = View
    BY DEF create_backup, capture, Reads, Image, View
  <2> QED BY <2>1, <2>2 DEF ArchiveIsOneInstant
<1>3. RefusedIsUndone
  <2> SUFFICES ASSUME command.alone, command.at = "check", command'.at = "outcome"
               PROVE  View' = command.before
    BY DEF RefusedIsUndone
  <2>1. check_restored
    <3>1. command' # command
      OBVIOUS
    <3>2. ~(ServiceWrites \/ Checkpoint \/ StopService \/ UNCHANGED recoveryVars)
      BY <3>1 DEF ServiceWrites, Checkpoint, StopService, recoveryVars
    <3>3. ~StartService
      BY <1>0 DEF StartService, CommandRows
    <3>4. ~\E deed \in Commands : attempt(deed)
      BY DEF attempt, NoCommand
    <3>5. ~(outcome \/ create_backup \/ _acquire_write_lock \/ capture \/ verify_backup \/ converge \/ commit
            \/ capture_rollback \/ verify_rollback \/ _restore_sqlite)
      BY DEF outcome, create_backup, _acquire_write_lock, capture, verify_backup, converge, commit,
             capture_rollback, verify_rollback, _restore_sqlite
    <3>6. ~CommandEnds
      BY DEF CommandEnds, NoCommand
    <3> QED BY <3>2, <3>3, <3>4, <3>5, <3>6 DEF RecoveryNext
  <2>2. file' = rollback /\ frames' = frames
    <3>1. ~Goes("restored")
      BY <1>0 DEF Goes, CommandRows
    <3> QED BY <2>1, <3>1 DEF check_restored
  <2>3. rollback \in Images /\ rollback = command.before
    BY DEF RecoveryInv
  <2>4. \A page \in Pages : frames[page] # -1 => frames[page] = rollback[page]
    BY DEF RecoveryInv
  <2> QED BY <2>2, <2>3, <2>4 DEF View, Images
<1> QED BY <1>1, <1>2, <1>3

-----------------------------------------------------------------------------

-----------------------------------------------------------------------------
(* The repair of a store.  The first pass leaves only what it can have      *)
(* caused itself - a Workspace without its Org, a claim of a Session it has *)
(* ended, a reply to a record it has deleted - and the second one nothing.  *)

Stores == [orgs : SUBSET (Orgs \cup {"default"}), org : Orgs \cup {"default", None, Gone},
           session : SessionRows, claim : ClaimRows, record : [Records -> RecordRows],
           decision : DecisionRefs, note : NoteRefs]

\* e is d but for these tables.
SameBut(d, e, tables) ==
    /\ d \in Stores /\ e \in Stores
    /\ "orgs" \notin tables => e.orgs = d.orgs
    /\ "org" \notin tables => e.org = d.org
    /\ "session" \notin tables => e.session = d.session
    /\ "claim" \notin tables => e.claim = d.claim
    /\ "record" \notin tables => e.record = d.record
    /\ "decision" \notin tables => e.decision = d.decision
    /\ "note" \notin tables => e.note = d.note

\* What is only left to a second pass.
AfterOne == {"orgless", "held", "reply"}

-----------------------------------------------------------------------------
(* The phases of a pass, one by one.                                        *)

\* One field of a row is set.
LEMMA StateSet ==
    ASSUME NEW s \in SessionRows, s # NoSession, NEW to \in TERMINAL_SESSION_STATES, NEW t, t = [s EXCEPT !.state = to]
    PROVE  /\ t \in SessionRows /\ t.there = s.there /\ t.home = s.home /\ t.state = to
           /\ t.ended = s.ended /\ t.dated = s.dated /\ t.event = s.event
<1> DEFINE rows == [there : {TRUE}, home : BOOLEAN, state : {"running"} \cup TERMINAL_SESSION_STATES, ended : BOOLEAN,
                    dated : BOOLEAN, event : {None, "session_end", "session_reaped"}]
<1>1. s \in rows
  BY DEF SessionRows
<1>2. t \in rows
  BY <1>1
<1>3. /\ t.there = s.there /\ t.home = s.home /\ t.state = to
      /\ t.ended = s.ended /\ t.dated = s.dated /\ t.event = s.event
  BY <1>1
<1> QED BY <1>2, <1>3 DEF SessionRows

LEMMA EndSet ==
    ASSUME NEW s \in SessionRows, s # NoSession, NEW t, t = [s EXCEPT !.ended = TRUE]
    PROVE  /\ t \in SessionRows /\ t.there = s.there /\ t.home = s.home /\ t.state = s.state
           /\ t.ended /\ t.dated = s.dated /\ t.event = s.event
<1> DEFINE rows == [there : {TRUE}, home : BOOLEAN, state : {"running"} \cup TERMINAL_SESSION_STATES, ended : BOOLEAN,
                    dated : BOOLEAN, event : {None, "session_end", "session_reaped"}]
<1>1. s \in rows
  BY DEF SessionRows
<1>2. PICK yes \in BOOLEAN : yes = TRUE
  OBVIOUS
<1>3. t = [s EXCEPT !.ended = yes]
  BY <1>2
<1>4. t \in rows
  BY <1>1, <1>3
<1>5. /\ t.there = s.there /\ t.home = s.home /\ t.state = s.state
      /\ t.ended = yes /\ t.dated = s.dated /\ t.event = s.event
  BY <1>1, <1>3
<1> QED BY <1>2, <1>4, <1>5 DEF SessionRows

LEMMA ReplySet ==
    ASSUME NEW s \in RecordRows, NEW t, t = [s EXCEPT !.reply = None]
    PROVE  t \in RecordRows /\ t.there = s.there /\ t.home = s.home /\ t.reply = None
<1> DEFINE rows == [there : {TRUE}, home : BOOLEAN, reply : Records \cup {None, Gone}]
<1>1. CASE s = NoRecord
  <2>1. PICK no \in BOOLEAN, yes \in BOOLEAN : no = FALSE /\ yes = TRUE
    OBVIOUS
  <2>2. s = [there |-> no, home |-> yes, reply |-> None]
    BY <1>1, <2>1 DEF NoRecord
  <2>3. t = s
    BY <2>2
  <2> QED BY <1>1, <2>3 DEF NoRecord
<1>2. CASE s \in rows
  <2>1. t \in rows /\ t.there = s.there /\ t.home = s.home /\ t.reply = None
    BY <1>2
  <2> QED BY <2>1 DEF RecordRows
<1> QED BY <1>1, <1>2 DEF RecordRows

LEMMA StatePhase ==
    ASSUME NEW d \in Stores, NEW plan, NEW e, e = synchronize_terminal_state(d, plan)
    PROVE  /\ SameBut(d, e, {"session"})
           /\ e.session.there = d.session.there /\ e.session.home = d.session.home /\ e.session.ended = d.session.ended
           /\ e.session.dated = d.session.dated /\ e.session.event = d.session.event
           /\ e.session.state # d.session.state => "state" \in plan /\ EndedWithoutState(d)
           /\ "state" \in plan => ~EndedWithoutState(e)
           /\ ~EndedWithoutState(d) => e.session = d.session
<1> USE DEF Stores
<1>1. CASE "state" \in plan /\ EndedWithoutState(d)
  <2> DEFINE s == [d.session EXCEPT !.state = IF d.session.event = "session_reaped" THEN "failed" ELSE "completed"]
  <2>1. e = [d EXCEPT !.session = s]
    BY <1>1 DEF synchronize_terminal_state
  <2>2. s \in SessionRows /\ s.state \in TERMINAL_SESSION_STATES /\ s.there = d.session.there /\ s.home = d.session.home
        /\ s.ended = d.session.ended /\ s.dated = d.session.dated /\ s.event = d.session.event
    <3> DEFINE to == IF d.session.event = "session_reaped" THEN "failed" ELSE "completed"
    <3>1. d.session \in SessionRows /\ d.session # NoSession
      BY <1>1 DEF EndedWithoutState, NoSession
    <3>2. to \in TERMINAL_SESSION_STATES /\ s = [d.session EXCEPT !.state = to]
      BY DEF TERMINAL_SESSION_STATES
    <3> HIDE DEF to, s
    <3> QED BY <3>1, <3>2, StateSet
  <2> HIDE DEF s
  <2>3. e \in Stores /\ e.session = s
    BY <2>1, <2>2
  <2> QED BY <1>1, <2>1, <2>2, <2>3 DEF SameBut, EndedWithoutState
<1>2. CASE ~("state" \in plan /\ EndedWithoutState(d))
  BY <1>2 DEF synchronize_terminal_state, SameBut
<1> QED BY <1>1, <1>2

LEMMA EndPhase ==
    ASSUME NEW d \in Stores, NEW plan, NEW e, e = StampEndedAt(d, plan)
    PROVE  /\ SameBut(d, e, {"session"})
           /\ e.session.there = d.session.there /\ e.session.home = d.session.home /\ e.session.state = d.session.state
           /\ e.session.dated = d.session.dated /\ e.session.event = d.session.event
           /\ e.session.ended # d.session.ended => "end" \in plan /\ StateWithoutEnd(d)
           /\ "end" \in plan => ~StateWithoutEnd(e)
           /\ ~StateWithoutEnd(d) => e.session = d.session
<1> USE DEF Stores
<1>1. CASE "end" \in plan /\ StateWithoutEnd(d)
  <2> DEFINE s == [d.session EXCEPT !.ended = TRUE]
  <2>1. e = [d EXCEPT !.session = s]
    BY <1>1 DEF StampEndedAt
  <2>2. s \in SessionRows /\ s.state = d.session.state /\ s.there = d.session.there /\ s.home = d.session.home
        /\ s.ended /\ s.dated = d.session.dated /\ s.event = d.session.event
    <3>1. d.session \in SessionRows /\ d.session # NoSession
      BY <1>1 DEF StateWithoutEnd, NoSession
    <3> QED BY <3>1, EndSet
  <2> HIDE DEF s
  <2>3. e \in Stores /\ e.session = s
    BY <2>1, <2>2
  <2> QED BY <1>1, <2>1, <2>2, <2>3 DEF SameBut, StateWithoutEnd
<1>2. CASE ~("end" \in plan /\ StateWithoutEnd(d))
  BY <1>2 DEF StampEndedAt, SameBut
<1> QED BY <1>1, <1>2

\* The Org that a Workspace without one is assigned to.
LEMMA DefaultOrg ==
    ASSUME NEW d \in Stores
    PROVE  /\ _resolve_default_org(d) \in d.orgs \cup {None}
           /\ _resolve_default_org(d) # None => _resolve_default_org(d) = "default" \/ d.orgs = {_resolve_default_org(d)}
<1>1. d.orgs \in SUBSET (Orgs \cup {"default"}) /\ IsFiniteSet(d.orgs)
  <2>1. IsFiniteSet(Orgs \cup {"default"})
    BY IntegrityAssumption, FS_AddElement
  <2> QED BY <2>1, FS_Subset DEF Stores
<1>2. CASE "default" \in d.orgs
  BY <1>2 DEF _resolve_default_org
<1>3. CASE "default" \notin d.orgs /\ Cardinality(d.orgs) = 1
  <2>1. PICK x : d.orgs = {x}
    BY <1>1, <1>3, FS_Singleton
  <2>2. (CHOOSE o \in d.orgs : TRUE) = x
    BY <2>1
  <2> QED BY <1>3, <2>1, <2>2 DEF _resolve_default_org
<1>4. CASE "default" \notin d.orgs /\ Cardinality(d.orgs) # 1
  BY <1>4 DEF _resolve_default_org
<1> QED BY <1>2, <1>3, <1>4

LEMMA OrgPhase ==
    ASSUME NEW d \in Stores, NEW plan, NEW e, e = AssignOrg(d, plan)
    PROVE  /\ SameBut(d, e, {"orgs", "org"})
           /\ d.orgs \subseteq e.orgs
           /\ ~"orgless" \in plan \/ d.org # None => e.orgs = d.orgs /\ e.org = d.org
           /\ "orgless" \in plan /\ d.org = None => e.org \in e.orgs /\ (d.orgs = {} \/ e.org = "default" \/ d.orgs = {e.org})
<1> USE DEF Stores
<1> DEFINE o == _resolve_default_org(d)
<1>1. o \in d.orgs \cup {None} /\ (o # None => o = "default" \/ d.orgs = {o})
  BY DefaultOrg
<1>2. CASE ~"orgless" \in plan \/ d.org # None
  BY <1>2 DEF AssignOrg, SameBut
<1>3. CASE "orgless" \in plan /\ d.org = None /\ o # None
  BY <1>1, <1>3 DEF AssignOrg, SameBut
<1>4. CASE "orgless" \in plan /\ d.org = None /\ o = None
  BY <1>1, <1>4 DEF AssignOrg, SameBut
<1> QED BY <1>2, <1>3, <1>4

LEMMA ExpiredPhase ==
    ASSUME NEW d \in Stores, NEW plan, NEW e, e = ReleaseExpired(d, plan)
    PROVE  /\ SameBut(d, e, {"claim"})
           /\ e.claim = IF "expired" \in plan /\ d.claim.expired THEN NoClaim ELSE d.claim
<1>1. NoClaim \in ClaimRows
  BY DEF ClaimRows
<1> QED BY <1>1 DEF ReleaseExpired, SameBut, Stores

LEMMA HeldPhase ==
    ASSUME NEW d \in Stores, NEW plan, NEW e, e = ReleaseHeld(d, plan)
    PROVE  /\ SameBut(d, e, {"claim"})
           /\ e.claim = IF "held" \in plan /\ HeldByEnded(d) THEN NoClaim ELSE d.claim
<1>1. NoClaim \in ClaimRows
  BY DEF ClaimRows
<1> QED BY <1>1 DEF ReleaseHeld, SameBut, Stores

LEMMA SessionPhase ==
    ASSUME NEW d \in Stores, NEW plan, NEW e, e = DeleteSession(d, plan)
    PROVE  /\ SameBut(d, e, {"session", "claim", "note"})
           /\ ~ToRepair(d, plan, "session") => e.session = d.session /\ e.claim = d.claim /\ e.note = d.note
           /\ ToRepair(d, plan, "session") =>
                /\ e.session = NoSession /\ e.note = (IF d.note = "session" THEN None ELSE d.note)
                /\ e.claim = (IF Claimant(d) THEN NoClaim ELSE d.claim)
<1>1. NoClaim \in ClaimRows /\ NoSession \in SessionRows /\ None \in NoteRefs
  BY DEF ClaimRows, SessionRows, NoteRefs
<1>2. CASE ~ToRepair(d, plan, "session")
  BY <1>2 DEF DeleteSession, SameBut, Stores
<1>3. CASE ToRepair(d, plan, "session")
  <2>1. e = [d EXCEPT !.session = NoSession, !.note = IF @ = "session" THEN None ELSE @,
                      !.claim = IF Claimant(d) THEN NoClaim ELSE @]
    BY <1>3 DEF DeleteSession
  <2> QED BY <1>1, <1>3, <2>1 DEF SameBut, Stores
<1> QED BY <1>2, <1>3

LEMMA DecisionPhase ==
    ASSUME NEW d \in Stores, NEW plan, NEW e, e = DeleteDecision(d, plan)
    PROVE  /\ SameBut(d, e, {"decision"})
           /\ e.decision = IF ToRepair(d, plan, "decision") THEN None ELSE d.decision
<1>1. None \in DecisionRefs
  BY DEF DecisionRefs
<1> QED BY <1>1 DEF DeleteDecision, SameBut, Stores

LEMMA NotePhase ==
    ASSUME NEW d \in Stores, NEW plan, NEW e, e = ClearNote(d, plan)
    PROVE  /\ SameBut(d, e, {"note"})
           /\ e.note = IF ToRepair(d, plan, "note") THEN None ELSE d.note
<1>1. None \in NoteRefs
  BY DEF NoteRefs
<1> QED BY <1>1 DEF ClearNote, SameBut, Stores

LEMMA ReplyPhase ==
    ASSUME NEW d \in Stores, NEW plan, NEW e, e = ClearReplies(d, plan)
    PROVE  /\ SameBut(d, e, {"record"})
           /\ \A r \in Records : e.record[r].there = d.record[r].there /\ e.record[r].home = d.record[r].home
           /\ \A r \in Records : e.record[r].reply = d.record[r].reply \/ e.record[r].reply = None
           /\ ~ToRepair(d, plan, "reply") => e.record = d.record
           /\ "reply" \in plan => ~Orphaned(e, "reply")
<1>1. CASE ~ToRepair(d, plan, "reply")
  BY <1>1 DEF ClearReplies, SameBut, ToRepair
<1>2. CASE ToRepair(d, plan, "reply")
  <2> DEFINE slip(r) == WithoutReply(d, r)
             rows == [r \in Records |-> slip(r)]
  <2>1. e = [d EXCEPT !.record = rows]
    BY <1>2 DEF ClearReplies
  <2>2. \A r \in Records : /\ slip(r) \in RecordRows /\ slip(r).there = d.record[r].there /\ slip(r).home = d.record[r].home
                           /\ slip(r).reply = None \/ (slip(r).reply = d.record[r].reply /\ Here(d, slip(r).reply))
    <3> SUFFICES ASSUME NEW r \in Records
                 PROVE  /\ slip(r) \in RecordRows /\ slip(r).there = d.record[r].there /\ slip(r).home = d.record[r].home
                        /\ slip(r).reply = None \/ (slip(r).reply = d.record[r].reply /\ Here(d, slip(r).reply))
      OBVIOUS
    <3>1. d.record[r] \in RecordRows
      BY DEF Stores
    <3>2. CASE Here(d, d.record[r].reply)
      BY <3>1, <3>2 DEF WithoutReply
    <3>3. CASE ~Here(d, d.record[r].reply)
      BY <3>1, <3>3, ReplySet DEF WithoutReply
    <3> QED BY <3>2, <3>3
  <2>3. \A r \in Records : rows[r] = slip(r)
    OBVIOUS
  <2> HIDE DEF slip
  <2>4. rows \in [Records -> RecordRows]
    BY <2>2
  <2> HIDE DEF rows
  <2>5. e \in Stores /\ e.record = rows /\ SameBut(d, e, {"record"})
    BY <2>1, <2>4 DEF Stores, SameBut
  <2>6. ~Orphaned(e, "reply")
    BY <2>2, <2>3, <2>5 DEF Orphaned, Here
  <2> QED BY <1>2, <2>2, <2>3, <2>5, <2>6
<1> QED BY <1>1, <1>2

LEMMA RecordPhase ==
    ASSUME NEW d \in Stores, NEW plan, NEW e, e = DeleteRecords(d, plan)
    PROVE  /\ SameBut(d, e, {"record", "decision", "note"})
           /\ ~ToRepair(d, plan, "record") => e.record = d.record /\ e.decision = d.decision /\ e.note = d.note
           /\ ToRepair(d, plan, "record") =>
                /\ e.record = [r \in Records |-> IF r \in Doomed(d) THEN NoRecord ELSE d.record[r]]
                /\ e.decision = (IF d.decision \in Doomed(d) THEN None ELSE d.decision)
                /\ e.note = (IF d.note \in Doomed(d) THEN None ELSE d.note)
<1>1. NoRecord \in RecordRows /\ None \in DecisionRefs /\ None \in NoteRefs
  BY DEF RecordRows, DecisionRefs, NoteRefs
<1>2. CASE ~ToRepair(d, plan, "record")
  BY <1>2 DEF DeleteRecords, SameBut
<1>3. CASE ToRepair(d, plan, "record")
  <2> DEFINE rows == [r \in Records |-> IF r \in Doomed(d) THEN NoRecord ELSE d.record[r]]
  <2>1. e = [d EXCEPT !.record = rows, !.decision = IF @ \in Doomed(d) THEN None ELSE @,
                      !.note = IF @ \in Doomed(d) THEN None ELSE @]
    BY <1>3 DEF DeleteRecords
  <2>2. rows \in [Records -> RecordRows]
    BY <1>1 DEF Stores
  <2> HIDE DEF rows
  <2>3. e \in Stores /\ e.record = rows
    BY <1>1, <2>1, <2>2 DEF Stores
  <2>4. SameBut(d, e, {"record", "decision", "note"}) /\ e.decision = (IF d.decision \in Doomed(d) THEN None ELSE d.decision)
        /\ e.note = (IF d.note \in Doomed(d) THEN None ELSE d.note)
    BY <2>1, <2>3 DEF Stores, SameBut
  <2> QED BY <1>3, <2>3, <2>4 DEF rows
<1> QED BY <1>2, <1>3

LEMMA OrphanedClaimPhase ==
    ASSUME NEW d \in Stores, NEW plan, NEW e, e = DeleteClaim(d, plan)
    PROVE  /\ SameBut(d, e, {"claim"})
           /\ e.claim = IF ToRepair(d, plan, "claim") THEN NoClaim ELSE d.claim
<1>1. NoClaim \in ClaimRows
  BY DEF ClaimRows
<1> QED BY <1>1 DEF DeleteClaim, SameBut, Stores

LEMMA OrphanedOrgPhase ==
    ASSUME NEW d \in Stores, NEW plan, NEW e, e = ClearOrg(d, plan)
    PROVE  /\ SameBut(d, e, {"org"})
           /\ e.org = IF ToRepair(d, plan, "org") THEN None ELSE d.org
BY DEF ClearOrg, SameBut, Stores

-----------------------------------------------------------------------------
(* A pass.                                                                  *)

LEMMA Found ==
    ASSUME NEW d, NEW tables, NEW o \in BOOLEAN
    PROVE  /\ Findings(d, tables, o) \subseteq ForeignKeys \cup {"state", "end", "orgless", "expired", "held"}
           /\ "state" \in Findings(d, tables, o) <=> EndedWithoutState(d)
           /\ "end" \in Findings(d, tables, o) <=> StateWithoutEnd(d)
           /\ "orgless" \in Findings(d, tables, o) <=> OrglessWorkspace(d)
           /\ "expired" \in Findings(d, tables, o) <=> d.claim.held /\ d.claim.expired
           /\ "held" \in Findings(d, tables, o) <=> HeldByEnded(d)
           /\ \A f \in ForeignKeys :
                f \in Findings(d, tables, o) <=> TableOf(f) \in tables /\ Orphaned(d, f) /\ (Deterministic(f) \/ o)
BY DEF Findings, ForeignKeys

LEMMA AllTables == \A f \in ForeignKeys : TableOf(f) \in Tables
BY DEF Tables, Sound, TableOf, ForeignKeys

LEMMA OrphanedIs ==
    ASSUME NEW d
    PROVE  /\ Orphaned(d, "org") <=> d.org \notin d.orgs \cup {None}
           /\ Orphaned(d, "session") <=> d.session.there /\ ~d.session.home
           /\ Orphaned(d, "claim") <=> d.claim.held /\ ~Claimant(d)
           /\ Orphaned(d, "reply") <=>
                \E r \in Records : d.record[r].there /\ d.record[r].reply # None /\ ~Here(d, d.record[r].reply)
           /\ Orphaned(d, "record") <=> \E r \in Records : d.record[r].there /\ ~d.record[r].home
           /\ Orphaned(d, "decision") <=> d.decision # None /\ ~Here(d, d.decision)
           /\ Orphaned(d, "note") <=> d.note # None /\ ~Here(d, d.note) /\ ~(d.note = "session" /\ d.session.there)
BY DEF Orphaned

\* The phases of a pass, each over what the one before it left.
Phases(d, plan, d1, d2, d3, d4, d5, d6, d7, d8, d9, d10, d11, e) ==
    /\ d \in Stores
    /\ d1 = synchronize_terminal_state(d, plan) /\ d2 = StampEndedAt(d1, plan) /\ d3 = AssignOrg(d2, plan)
    /\ d4 = ReleaseExpired(d3, plan) /\ d5 = ReleaseHeld(d4, plan) /\ d6 = DeleteSession(d5, plan)
    /\ d7 = DeleteDecision(d6, plan) /\ d8 = ClearNote(d7, plan) /\ d9 = ClearReplies(d8, plan)
    /\ d10 = DeleteRecords(d9, plan) /\ d11 = DeleteClaim(d10, plan) /\ e = ClearOrg(d11, plan)

LEMMA InPhases ==
    ASSUME NEW d \in Stores, NEW plan
    PROVE  \E d1, d2, d3, d4, d5, d6, d7, d8, d9, d10, d11 :
              Phases(d, plan, d1, d2, d3, d4, d5, d6, d7, d8, d9, d10, d11, _execute_actions(d, plan))
BY DEF Phases, _execute_actions

LEMMA PhasesKeep ==
    ASSUME NEW d, NEW plan, NEW d1, NEW d2, NEW d3, NEW d4, NEW d5, NEW d6, NEW d7, NEW d8, NEW d9, NEW d10, NEW d11, NEW e,
           Phases(d, plan, d1, d2, d3, d4, d5, d6, d7, d8, d9, d10, d11, e)
    PROVE  /\ SameBut(d, d1, {"session"}) /\ SameBut(d1, d2, {"session"}) /\ SameBut(d2, d3, {"orgs", "org"})
           /\ SameBut(d3, d4, {"claim"}) /\ SameBut(d4, d5, {"claim"}) /\ SameBut(d5, d6, {"session", "claim", "note"})
           /\ SameBut(d6, d7, {"decision"}) /\ SameBut(d7, d8, {"note"}) /\ SameBut(d8, d9, {"record"})
           /\ SameBut(d9, d10, {"record", "decision", "note"}) /\ SameBut(d10, d11, {"claim"}) /\ SameBut(d11, e, {"org"})
<1> USE DEF SameBut
<1>1. SameBut(d, d1, {"session"})
  BY StatePhase DEF Phases
<1>2. SameBut(d1, d2, {"session"})
  BY <1>1, EndPhase DEF Phases
<1>3. SameBut(d2, d3, {"orgs", "org"})
  BY <1>2, OrgPhase DEF Phases
<1>4. SameBut(d3, d4, {"claim"})
  BY <1>3, ExpiredPhase DEF Phases
<1>5. SameBut(d4, d5, {"claim"})
  BY <1>4, HeldPhase DEF Phases
<1>6. SameBut(d5, d6, {"session", "claim", "note"})
  BY <1>5, SessionPhase DEF Phases
<1>7. SameBut(d6, d7, {"decision"})
  BY <1>6, DecisionPhase DEF Phases
<1>8. SameBut(d7, d8, {"note"})
  BY <1>7, NotePhase DEF Phases
<1>9. SameBut(d8, d9, {"record"})
  BY <1>8, ReplyPhase DEF Phases
<1>10. SameBut(d9, d10, {"record", "decision", "note"})
  <2>1. d9 \in Stores /\ d10 = DeleteRecords(d9, plan)
    BY <1>9 DEF Phases
  <2> HIDE DEF SameBut
  <2> QED BY <2>1, RecordPhase
<1>11. SameBut(d10, d11, {"claim"})
  BY <1>10, OrphanedClaimPhase DEF Phases
<1>12. SameBut(d11, e, {"org"})
  BY <1>11, OrphanedOrgPhase DEF Phases
<1> QED BY <1>1, <1>2, <1>3, <1>4, <1>5, <1>6, <1>7, <1>8, <1>9, <1>10, <1>11, <1>12, Zenon

\* What a pass did with the rows that are not asked for again: e is what became of d.
DurableKept(d, e, o) ==
    /\ \A r \in Records : d.record[r].there /\ ~e.record[r].there => o /\ ~d.record[r].home
    /\ d.session.there /\ ~e.session.there => o /\ ~d.session.home
    /\ d.decision # None /\ e.decision = None =>
         o /\ (~Here(d, d.decision) \/ (d.record[d.decision].there /\ ~e.record[d.decision].there))

\* ... and with the values it derived.
Derived(d, e) ==
    /\ e.session.there /\ e.session.state # d.session.state => d.session.event # None
    /\ e.session.there /\ e.session.ended # d.session.ended => d.session.dated
    /\ e.org # d.org /\ e.org # None => d.orgs = {} \/ e.org = "default" \/ d.orgs = {e.org}

\* Over any store: what a first pass leaves.
LEMMA FirstPass ==
    ASSUME NEW d, NEW o \in BOOLEAN, NEW plan, plan = Findings(d, Tables, o),
           NEW d1, NEW d2, NEW d3, NEW d4, NEW d5, NEW d6, NEW d7, NEW d8, NEW d9, NEW d10, NEW d11, NEW e,
           Phases(d, plan, d1, d2, d3, d4, d5, d6, d7, d8, d9, d10, d11, e)
    PROVE  /\ e \in Stores
           /\ ~EndedWithoutState(e) /\ ~StateWithoutEnd(e) /\ ~(e.claim.held /\ e.claim.expired)
           /\ ~Orphaned(e, "org") /\ ~Orphaned(e, "claim") /\ ~Orphaned(e, "note")
           /\ o => ~Orphaned(e, "session") /\ ~Orphaned(e, "decision") /\ ~Orphaned(e, "record")
           /\ Orphaned(e, "reply") => e.record # d.record
           /\ e.org = None => e.orgs = d.orgs
           /\ DurableKept(d, e, o) /\ Derived(d, e)
<1>1. /\ SameBut(d, d1, {"session"}) /\ SameBut(d1, d2, {"session"}) /\ SameBut(d2, d3, {"orgs", "org"})
      /\ SameBut(d3, d4, {"claim"}) /\ SameBut(d4, d5, {"claim"}) /\ SameBut(d5, d6, {"session", "claim", "note"})
      /\ SameBut(d6, d7, {"decision"}) /\ SameBut(d7, d8, {"note"}) /\ SameBut(d8, d9, {"record"})
      /\ SameBut(d9, d10, {"record", "decision", "note"}) /\ SameBut(d10, d11, {"claim"}) /\ SameBut(d11, e, {"org"})
  BY PhasesKeep
<1>2. /\ d \in Stores /\ d1 \in Stores /\ d2 \in Stores /\ d3 \in Stores /\ d4 \in Stores /\ d5 \in Stores /\ d6 \in Stores
      /\ d7 \in Stores /\ d8 \in Stores /\ d9 \in Stores /\ d10 \in Stores /\ d11 \in Stores /\ e \in Stores
  BY <1>1 DEF SameBut
<1>3. /\ "state" \in plan <=> EndedWithoutState(d)
      /\ "end" \in plan <=> StateWithoutEnd(d)
      /\ "orgless" \in plan <=> OrglessWorkspace(d)
      /\ "expired" \in plan <=> d.claim.held /\ d.claim.expired
      /\ "held" \in plan <=> HeldByEnded(d)
      /\ "org" \in plan <=> Orphaned(d, "org")
      /\ "claim" \in plan <=> Orphaned(d, "claim")
      /\ "reply" \in plan <=> Orphaned(d, "reply")
      /\ "note" \in plan <=> Orphaned(d, "note")
      /\ "session" \in plan <=> Orphaned(d, "session") /\ o
      /\ "decision" \in plan <=> Orphaned(d, "decision") /\ o
      /\ "record" \in plan <=> Orphaned(d, "record") /\ o
  BY Found, AllTables DEF ForeignKeys, Deterministic
\* The Session.
<1>4. /\ d1.session.there = d.session.there /\ d1.session.home = d.session.home /\ d1.session.ended = d.session.ended
      /\ d1.session.dated = d.session.dated /\ d1.session.event = d.session.event
      /\ d1.session.state # d.session.state => EndedWithoutState(d)
      /\ EndedWithoutState(d) => ~EndedWithoutState(d1)
      /\ ~EndedWithoutState(d) => d1.session = d.session
  BY <1>2, <1>3, StatePhase DEF Phases
<1>5. /\ d2.session.there = d1.session.there /\ d2.session.home = d1.session.home /\ d2.session.state = d1.session.state
      /\ d2.session.dated = d1.session.dated /\ d2.session.event = d1.session.event
      /\ d2.session.ended # d1.session.ended => StateWithoutEnd(d) /\ StateWithoutEnd(d1)
      /\ StateWithoutEnd(d) => ~StateWithoutEnd(d2)
      /\ ~StateWithoutEnd(d1) => d2.session = d1.session
  BY <1>2, <1>3, EndPhase DEF Phases
<1>6. ~EndedWithoutState(d2) /\ ~StateWithoutEnd(d2)
  BY <1>4, <1>5 DEF EndedWithoutState, StateWithoutEnd
<1>7. d5.session = d2.session
  BY <1>1 DEF SameBut
<1>8. ToRepair(d5, plan, "session") <=> o /\ d.session.there /\ ~d.session.home
  BY <1>3, <1>4, <1>5, <1>7, OrphanedIs DEF ToRepair
<1>9. /\ ~ToRepair(d5, plan, "session") => d6.session = d5.session /\ d6.claim = d5.claim /\ d6.note = d5.note
      /\ ToRepair(d5, plan, "session") => /\ d6.session = NoSession /\ d6.note = (IF d5.note = "session" THEN None ELSE d5.note)
                                     /\ d6.claim = (IF Claimant(d5) THEN NoClaim ELSE d5.claim)
  BY <1>2, SessionPhase DEF Phases
<1>10. e.session = d6.session
  BY <1>1 DEF SameBut
<1>11. /\ ~EndedWithoutState(e) /\ ~StateWithoutEnd(e)
       /\ o => ~Orphaned(e, "session")
       /\ d.session.there /\ ~e.session.there => o /\ ~d.session.home
       /\ e.session.there /\ e.session.state # d.session.state => d.session.event # None
       /\ e.session.there /\ e.session.ended # d.session.ended => d.session.dated
       /\ e.session.there => d.session.there /\ ~ToRepair(d5, plan, "session")
       /\ ~ToRepair(d5, plan, "session") => e.session.there = d.session.there
  <2>1. CASE ToRepair(d5, plan, "session")
    <3>1. e.session = NoSession
      BY <1>9, <1>10, <2>1
    <3>2. ~e.session.there
      BY <3>1 DEF NoSession
    <3>3. ~EndedWithoutState(e) /\ ~StateWithoutEnd(e) /\ ~Orphaned(e, "session")
      BY <3>2, OrphanedIs DEF EndedWithoutState, StateWithoutEnd
    <3> QED BY <1>8, <2>1, <3>2, <3>3
  <2>2. CASE ~ToRepair(d5, plan, "session")
    <3>1. e.session = d2.session
      BY <1>7, <1>9, <1>10, <2>2
    <3> QED BY <1>4, <1>5, <1>6, <1>8, <2>2, <3>1, OrphanedIs DEF EndedWithoutState, StateWithoutEnd
  <2> QED BY <2>1, <2>2
\* The claim.
<1>12. d4.claim = (IF "expired" \in plan /\ d3.claim.expired THEN NoClaim ELSE d3.claim) /\ d3.claim = d.claim
  BY <1>1, <1>2, ExpiredPhase DEF Phases, SameBut
<1>13. d5.claim = NoClaim \/ d5.claim = d4.claim
  BY <1>2, HeldPhase DEF Phases
<1>14. /\ d11.claim = (IF ToRepair(d10, plan, "claim") THEN NoClaim ELSE d10.claim)
       /\ d10.claim = d6.claim /\ d10.session = d6.session /\ e.claim = d11.claim
  BY <1>1, <1>2, OrphanedClaimPhase DEF Phases, SameBut
<1>15. (e.claim = NoClaim \/ (e.claim = d.claim /\ ~(d.claim.held /\ d.claim.expired))) /\ ~Orphaned(e, "claim")
  <2>1. d5.claim = NoClaim \/ (d5.claim = d.claim /\ ~(d.claim.held /\ d.claim.expired))
    BY <1>3, <1>12, <1>13 DEF NoClaim
  <2>2. d6.claim = NoClaim \/ d6.claim = d5.claim
    BY <1>9
  <2>3. CASE e.claim = NoClaim
    BY <2>3, OrphanedIs DEF NoClaim
  <2>4. CASE e.claim # NoClaim
    <3>1. e.claim = d10.claim /\ d10.claim = d6.claim /\ d6.claim = d5.claim /\ d5.claim = d.claim /\ ~ToRepair(d10, plan, "claim")
      BY <1>14, <2>1, <2>2, <2>4
    <3>2. e.session = d10.session
      BY <1>10, <1>14
    <3>3. CASE "claim" \in plan
      BY <3>1, <3>2, <3>3, <2>1, OrphanedIs DEF ToRepair, Claimant
    <3>4. CASE "claim" \notin plan
      <4>1. ~d.claim.held \/ Claimant(d)
        BY <1>3, <3>4, OrphanedIs
      <4>2. CASE ToRepair(d5, plan, "session")
        <5>1. ~Claimant(d5)
          BY <1>9, <2>4, <3>1, <4>2
        <5>2. d5.session.there = d.session.there
          BY <1>4, <1>5, <1>7
        <5> QED BY <2>1, <3>1, <4>1, <5>1, <5>2, OrphanedIs DEF Claimant
      <4>3. CASE ~ToRepair(d5, plan, "session")
        BY <1>11, <2>1, <3>1, <4>1, <4>3, OrphanedIs DEF Claimant
      <4> QED BY <4>2, <4>3
    <3> QED BY <2>1, <3>1, <3>3, <3>4
  <2> QED BY <2>1, <2>2, <2>3, <2>4
<1>16. ~(e.claim.held /\ e.claim.expired)
  BY <1>15 DEF NoClaim
\* The Workspace and the Orgs.
<1>17. /\ d.orgs \subseteq d3.orgs
       /\ "orgless" \notin plan \/ d.org # None => d3.orgs = d.orgs /\ d3.org = d.org
       /\ "orgless" \in plan /\ d.org = None => d3.org \in d3.orgs /\ (d.orgs = {} \/ d3.org = "default" \/ d.orgs = {d3.org})
  <2>1. d2.org = d.org /\ d2.orgs = d.orgs
    BY <1>1 DEF SameBut
  <2> QED BY <1>2, <2>1, OrgPhase DEF Phases
<1>18. /\ d11.org = d3.org /\ d11.orgs = d3.orgs /\ e.orgs = d3.orgs
       /\ e.org = (IF ToRepair(d11, plan, "org") THEN None ELSE d11.org)
  BY <1>1, <1>2, OrphanedOrgPhase DEF Phases, SameBut
<1>19. /\ ~Orphaned(e, "org") /\ (e.org = None => e.orgs = d.orgs)
       /\ e.org # d.org /\ e.org # None => d.orgs = {} \/ e.org = "default" \/ d.orgs = {e.org}
  <2>1. None \notin d3.orgs
    BY <1>2, IntegrityAssumption DEF Stores
  <2> QED BY <1>3, <1>17, <1>18, <2>1, OrphanedIs DEF ToRepair
\* The records.
<1>20. d8.record = d.record /\ d6.record = d.record /\ d7.record = d.record /\ e.record = d10.record
  BY <1>1 DEF SameBut
<1>21. /\ \A r \in Records : d9.record[r].there = d.record[r].there /\ d9.record[r].home = d.record[r].home
       /\ ~ToRepair(d8, plan, "reply") => d9.record = d8.record
       /\ "reply" \in plan => ~Orphaned(d9, "reply")
  BY <1>2, <1>20, ReplyPhase DEF Phases
<1>22. ~Orphaned(d9, "reply")
  BY <1>3, <1>20, <1>21, OrphanedIs DEF ToRepair, Here
<1>23. /\ ~ToRepair(d9, plan, "record") => d10.record = d9.record /\ d10.decision = d9.decision /\ d10.note = d9.note
       /\ ToRepair(d9, plan, "record") =>
            /\ d10.record = [r \in Records |-> IF r \in Doomed(d9) THEN NoRecord ELSE d9.record[r]]
            /\ d10.decision = (IF d9.decision \in Doomed(d9) THEN None ELSE d9.decision)
            /\ d10.note = (IF d9.note \in Doomed(d9) THEN None ELSE d9.note)
  BY <1>2, RecordPhase DEF Phases
<1>24. ToRepair(d9, plan, "record") <=> o /\ Orphaned(d, "record")
  BY <1>3, <1>21, OrphanedIs DEF ToRepair
<1>25. \A r \in Records : r \in Doomed(d9) <=> d.record[r].there /\ ~d.record[r].home
  BY <1>21 DEF Doomed
<1>26. /\ \A r \in Records : e.record[r].there <=> d.record[r].there /\ ~(o /\ ~d.record[r].home)
       /\ o => ~Orphaned(e, "record")
       /\ Orphaned(e, "reply") => e.record # d.record
  <2>1. CASE ToRepair(d9, plan, "record")
    <3>1. \A r \in Records : e.record[r] = IF r \in Doomed(d9) THEN NoRecord ELSE d9.record[r]
      BY <1>20, <1>23, <2>1
    <3>2. \A r \in Records : e.record[r].there <=> d.record[r].there /\ ~(o /\ ~d.record[r].home)
      BY <1>21, <1>24, <1>25, <2>1, <3>1 DEF NoRecord
    <3>3. ~Orphaned(e, "record")
      BY <1>21, <1>25, <3>1, OrphanedIs DEF NoRecord
    <3>4. PICK r \in Records : d.record[r].there /\ ~d.record[r].home
      BY <1>24, <2>1, OrphanedIs
    <3>5. e.record # d.record
      BY <1>24, <2>1, <3>2, <3>4
    <3> QED BY <3>2, <3>3, <3>5
  <2>2. CASE ~ToRepair(d9, plan, "record")
    <3>1. e.record = d9.record
      BY <1>20, <1>23, <2>2
    <3> QED BY <1>21, <1>22, <1>24, <2>2, <3>1, OrphanedIs DEF Here
  <2> QED BY <2>1, <2>2
\* The decision and the note.
<1>27. /\ d7.decision = (IF ToRepair(d6, plan, "decision") THEN None ELSE d.decision) /\ d9.decision = d7.decision
       /\ e.decision = d10.decision
  <2>1. d6.decision = d.decision
    BY <1>1 DEF SameBut
  <2>2. d9.decision = d7.decision /\ e.decision = d10.decision
    BY <1>1 DEF SameBut
  <2> QED BY <1>2, <2>1, <2>2, DecisionPhase DEF Phases
<1>28. ToRepair(d6, plan, "decision") <=> o /\ Orphaned(d, "decision")
  <2>1. d6.decision = d.decision
    BY <1>1 DEF SameBut
  <2> QED BY <1>3, <1>20, <2>1, OrphanedIs DEF ToRepair, Here
<1>29. /\ o => ~Orphaned(e, "decision")
       /\ d.decision # None /\ e.decision = None =>
            o /\ (~Here(d, d.decision) \/ (d.record[d.decision].there /\ ~e.record[d.decision].there))
  <2>0. \A x : x \in Doomed(d9) => x \in Records
    BY DEF Doomed
  <2>1. CASE ToRepair(d9, plan, "record")
    BY <1>23, <1>24, <1>25, <1>26, <1>27, <1>28, <2>0, <2>1, OrphanedIs DEF Here
  <2>2. CASE ~ToRepair(d9, plan, "record")
    BY <1>20, <1>21, <1>23, <1>26, <1>27, <1>28, <2>2, OrphanedIs DEF Here
  <2> QED BY <2>1, <2>2
<1>30. /\ d8.note = (IF ToRepair(d7, plan, "note") THEN None ELSE d7.note) /\ d7.note = d6.note /\ d9.note = d8.note /\ e.note = d10.note
       /\ d5.note = d.note /\ d7.session = d6.session
  <2>1. d7.note = d6.note /\ d9.note = d8.note /\ e.note = d10.note /\ d5.note = d.note /\ d7.session = d6.session
    BY <1>1 DEF SameBut
  <2> QED BY <1>2, <2>1, NotePhase DEF Phases
<1>31. ~Orphaned(d8, "note")
  <2>1. d8.session = d6.session
    BY <1>1 DEF SameBut
  <2>2. CASE "note" \in plan
    BY <1>20, <1>30, <2>1, <2>2, OrphanedIs DEF ToRepair, Here
  <2>3. CASE "note" \notin plan
    <3>1. ~Orphaned(d, "note")
      BY <1>3, <2>3
    <3>2. d6.note = d.note \/ d6.note = None
      BY <1>9, <1>30
    <3>3. d.note = "session" /\ ToRepair(d5, plan, "session") => d6.note = None
      BY <1>9, <1>30
    <3>4. d.note = "session" /\ ~ToRepair(d5, plan, "session") => d6.session.there = d.session.there
      BY <1>10, <1>11
    <3>5. d8.note = d6.note
      BY <1>30, <2>3 DEF ToRepair
    <3> QED BY <1>20, <2>1, <3>1, <3>2, <3>3, <3>4, <3>5, OrphanedIs DEF Here
  <2> QED BY <2>2, <2>3
<1>32. ~Orphaned(e, "note")
  <2>0. e.session = d8.session
    BY <1>1 DEF SameBut
  <2>1. CASE ToRepair(d9, plan, "record")
    <3>1. e.note = None \/ (e.note = d8.note /\ e.note \notin Doomed(d9))
      BY <1>23, <1>30, <2>1
    <3>2. Here(d8, e.note) /\ e.note \notin Doomed(d9) => Here(e, e.note)
      BY <1>20, <1>25, <1>26 DEF Here
    <3> QED BY <1>31, <2>0, <3>1, <3>2, OrphanedIs
  <2>2. CASE ~ToRepair(d9, plan, "record")
    <3>1. e.note = d8.note
      BY <1>23, <1>30, <2>2
    <3>2. Here(d8, e.note) => Here(e, e.note)
      BY <1>20, <1>21, <1>23, <2>2 DEF Here
    <3> QED BY <1>31, <2>0, <3>1, <3>2, OrphanedIs
  <2> QED BY <2>1, <2>2
<1>33. DurableKept(d, e, o)
  BY <1>11, <1>26, <1>29 DEF DurableKept
<1>34. Derived(d, e)
  BY <1>11, <1>19 DEF Derived
<1> QED BY <1>2, <1>11, <1>15, <1>16, <1>19, <1>26, <1>29, <1>32, <1>33, <1>34

\* What no second pass has to do with.
CleanButFor(d, o) ==
    /\ ~EndedWithoutState(d) /\ ~StateWithoutEnd(d) /\ ~(d.claim.held /\ d.claim.expired)
    /\ ~Orphaned(d, "org") /\ ~Orphaned(d, "claim") /\ ~Orphaned(d, "note")
    /\ o => ~Orphaned(d, "session") /\ ~Orphaned(d, "decision") /\ ~Orphaned(d, "record")

LEMMA CleanIs ==
    ASSUME NEW d, NEW o \in BOOLEAN,
           CleanButFor(d, o), ~Orphaned(d, "reply"), ~OrglessWorkspace(d), ~HeldByEnded(d)
    PROVE  Findings(d, Tables, o) = {}
BY Found DEF CleanButFor, ForeignKeys, Deterministic

LEMMA SecondPass ==
    ASSUME NEW d, NEW o \in BOOLEAN, NEW tables, NEW plan, plan = Findings(d, tables, o), CleanButFor(d, o),
           Orphaned(d, "reply") => "record" \in tables,
           NEW d1, NEW d2, NEW d3, NEW d4, NEW d5, NEW d6, NEW d7, NEW d8, NEW d9, NEW d10, NEW d11, NEW e,
           Phases(d, plan, d1, d2, d3, d4, d5, d6, d7, d8, d9, d10, d11, e)
    PROVE  /\ e \in Stores /\ Findings(e, Tables, o) = {}
           /\ e.session = d.session /\ e.decision = d.decision
           /\ \A r \in Records : e.record[r].there = d.record[r].there
           /\ e.org # d.org => d.org = None /\ (d.orgs = {} \/ e.org = "default" \/ d.orgs = {e.org})
<1>1. /\ SameBut(d, d1, {"session"}) /\ SameBut(d1, d2, {"session"}) /\ SameBut(d2, d3, {"orgs", "org"})
      /\ SameBut(d3, d4, {"claim"}) /\ SameBut(d4, d5, {"claim"}) /\ SameBut(d5, d6, {"session", "claim", "note"})
      /\ SameBut(d6, d7, {"decision"}) /\ SameBut(d7, d8, {"note"}) /\ SameBut(d8, d9, {"record"})
      /\ SameBut(d9, d10, {"record", "decision", "note"}) /\ SameBut(d10, d11, {"claim"}) /\ SameBut(d11, e, {"org"})
  BY PhasesKeep
<1>2. /\ d \in Stores /\ d1 \in Stores /\ d2 \in Stores /\ d3 \in Stores /\ d4 \in Stores /\ d5 \in Stores /\ d6 \in Stores
      /\ d7 \in Stores /\ d8 \in Stores /\ d9 \in Stores /\ d10 \in Stores /\ d11 \in Stores /\ e \in Stores
  BY <1>1 DEF SameBut
<1>3. /\ "expired" \notin plan /\ "org" \notin plan /\ "claim" \notin plan /\ "note" \notin plan
      /\ "session" \notin plan /\ "decision" \notin plan /\ "record" \notin plan
      /\ "orgless" \in plan <=> OrglessWorkspace(d)
      /\ "held" \in plan <=> HeldByEnded(d)
      /\ "reply" \in plan <=> Orphaned(d, "reply")
  BY Found DEF CleanButFor, ForeignKeys, Deterministic, TableOf
\* The Session and the claim.
<1>4. d1.session = d.session
  BY <1>2, StatePhase DEF Phases, CleanButFor
<1>5. d2.session = d.session
  <2>1. ~StateWithoutEnd(d1)
    BY <1>4 DEF CleanButFor, StateWithoutEnd
  <2> QED BY <1>2, <1>4, <2>1, EndPhase DEF Phases
<1>6. d6.session = d5.session /\ d6.claim = d5.claim /\ d6.note = d5.note
  BY <1>2, <1>3, SessionPhase DEF Phases, ToRepair
<1>7. e.session = d.session
  <2>1. d5.session = d2.session /\ e.session = d6.session
    BY <1>1 DEF SameBut
  <2> QED BY <1>5, <1>6, <2>1
<1>8. d4.claim = d.claim /\ d4.session = d.session
  <2>1. d3.claim = d.claim /\ d4.session = d2.session
    BY <1>1 DEF SameBut
  <2> QED BY <1>2, <1>3, <1>5, <2>1, ExpiredPhase DEF Phases
<1>9. d5.claim = IF "held" \in plan /\ HeldByEnded(d4) THEN NoClaim ELSE d4.claim
  BY <1>2, HeldPhase DEF Phases
<1>10. e.claim = d5.claim
  <2>1. d10.claim = d6.claim /\ e.claim = d11.claim
    BY <1>1 DEF SameBut
  <2> QED BY <1>2, <1>3, <1>6, <2>1, OrphanedClaimPhase DEF Phases, ToRepair
<1>11. HeldByEnded(d4) <=> HeldByEnded(d)
  BY <1>8 DEF HeldByEnded, Claimant
<1>12. (e.claim = NoClaim \/ e.claim = d.claim) /\ ~HeldByEnded(e)
  BY <1>3, <1>7, <1>8, <1>9, <1>10, <1>11 DEF HeldByEnded, Claimant, NoClaim
\* The Workspace.
<1>13. d11.org = d3.org /\ e.orgs = d3.orgs /\ d2.org = d.org /\ d2.orgs = d.orgs
  BY <1>1 DEF SameBut
<1>14. e.org = d3.org
  BY <1>2, <1>3, <1>13, OrphanedOrgPhase DEF Phases, ToRepair
<1>15. /\ d.orgs \subseteq e.orgs
       /\ "orgless" \notin plan \/ d.org # None => e.orgs = d.orgs /\ e.org = d.org
       /\ "orgless" \in plan /\ d.org = None => e.org \in e.orgs /\ (d.orgs = {} \/ e.org = "default" \/ d.orgs = {e.org})
  BY <1>2, <1>13, <1>14, OrgPhase DEF Phases
<1>16. None \notin e.orgs
  BY <1>2, IntegrityAssumption DEF Stores
<1>17. ~OrglessWorkspace(e)
  BY <1>3, <1>15, <1>16 DEF OrglessWorkspace, _resolve_default_org
<1>18. ~Orphaned(e, "org")
  BY <1>3, <1>15, OrphanedIs DEF CleanButFor
\* The records, the decision and the note.
<1>19. /\ d8.record = d.record /\ e.record = d10.record /\ d6.decision = d.decision /\ d9.decision = d7.decision
       /\ e.decision = d10.decision /\ d7.note = d6.note /\ d5.note = d.note /\ d9.note = d8.note /\ e.note = d10.note
  BY <1>1 DEF SameBut
<1>20. d10.record = d9.record /\ d10.decision = d9.decision /\ d10.note = d9.note
  <2>1. d9 \in Stores /\ d10 = DeleteRecords(d9, plan) /\ ~ToRepair(d9, plan, "record")
    BY <1>2, <1>3 DEF Phases, ToRepair
  <2> QED BY <2>1, RecordPhase
<1>21. e.decision = d.decision
  BY <1>2, <1>3, <1>19, <1>20, DecisionPhase DEF Phases, ToRepair
<1>22. e.note = d.note
  BY <1>2, <1>3, <1>6, <1>19, <1>20, NotePhase DEF Phases, ToRepair
<1>23. /\ \A r \in Records : e.record[r].there = d.record[r].there /\ e.record[r].home = d.record[r].home
       /\ "reply" \notin plan => e.record = d.record
       /\ "reply" \in plan => ~Orphaned(d9, "reply")
  BY <1>2, <1>19, <1>20, ReplyPhase DEF Phases, ToRepair
<1>24. ~Orphaned(e, "reply")
  BY <1>3, <1>19, <1>20, <1>23, OrphanedIs DEF Here
<1>25. ~Orphaned(e, "claim") /\ ~Orphaned(e, "note")
  BY <1>7, <1>12, <1>22, <1>23, OrphanedIs DEF CleanButFor, NoClaim, Claimant, Here
<1>26. o => ~Orphaned(e, "session") /\ ~Orphaned(e, "decision") /\ ~Orphaned(e, "record")
  BY <1>7, <1>21, <1>23, OrphanedIs DEF CleanButFor, Here
<1>27. ~EndedWithoutState(e) /\ ~StateWithoutEnd(e) /\ ~(e.claim.held /\ e.claim.expired)
  BY <1>7, <1>12 DEF CleanButFor, EndedWithoutState, StateWithoutEnd, NoClaim
<1>28. CleanButFor(e, o)
  BY <1>18, <1>25, <1>26, <1>27 DEF CleanButFor
<1>29. Findings(e, Tables, o) = {}
  BY <1>12, <1>17, <1>24, <1>28, CleanIs
<1> QED BY <1>2, <1>7, <1>15, <1>21, <1>23, <1>29

-----------------------------------------------------------------------------
(* The repair.                                                              *)

RepairRows == [at : {"idle", "passing", "committed"}, passes : 0..2, orphans : BOOLEAN, looks : SUBSET Tables]

RepairInv ==
    /\ db \in Stores /\ saved \in Stores
    /\ repair \in RepairRows
    /\ repair.at = "idle" => db = saved
    /\ repair.at = "passing" /\ repair.passes = 0 => db = saved /\ repair.looks = Tables
    /\ repair.at = "passing" /\ repair.passes = 1 =>
         /\ CleanButFor(db, repair.orphans)
         /\ Orphaned(db, "reply") => "record" \in repair.looks
         /\ db.org = None => db.orgs = saved.orgs
    /\ repair.at = "passing" /\ repair.passes = 2 => Findings(db, Tables, repair.orphans) = {}
    /\ repair.at = "committed" => Findings(db, Tables, repair.orphans) = {}
    /\ DurableKept(saved, db, repair.orphans) /\ Derived(saved, db)

LEMMA NothingDone ==
    ASSUME NEW d \in Stores, NEW o \in BOOLEAN
    PROVE  DurableKept(d, d, o) /\ Derived(d, d)
BY DEF DurableKept, Derived

LEMMA RepairBegins ==
    ASSUME IntegrityInit
    PROVE  RepairInv
<1>1. PICK parts \in Damage :
         \E orgs \in Of(parts, "org", SUBSET (Orgs \cup {"default"}), Sound.orgs),
            session \in Of(parts, "session", SessionRows, Sound.session),
            claim \in Of(parts, "claim", ClaimRows, Sound.claim),
            record \in {rows \in [Records -> RecordRows] : \A r \in Records \ parts : rows[r] = Sound.record[r]},
            decision \in Of(parts, "decision", DecisionRefs, Sound.decision),
            note \in Of(parts, "note", NoteRefs, Sound.note) :
         \E org \in Of(parts, "org", orgs \cup {None, Gone}, Sound.org) :
           db = [orgs |-> orgs, org |-> org, session |-> session, claim |-> claim,
                 record |-> record, decision |-> decision, note |-> note]
  BY Zenon DEF IntegrityInit
<1>2. db \in Stores
  <2>1. Sound \in Stores
    BY DEF Sound, Stores, SessionRows, ClaimRows, RecordRows, DecisionRefs, NoteRefs
  <2>2. PICK orgs \in Of(parts, "org", SUBSET (Orgs \cup {"default"}), Sound.orgs),
             session \in Of(parts, "session", SessionRows, Sound.session),
             claim \in Of(parts, "claim", ClaimRows, Sound.claim),
             record \in {rows \in [Records -> RecordRows] : \A r \in Records \ parts : rows[r] = Sound.record[r]},
             decision \in Of(parts, "decision", DecisionRefs, Sound.decision),
             note \in Of(parts, "note", NoteRefs, Sound.note) :
          \E org \in Of(parts, "org", orgs \cup {None, Gone}, Sound.org) :
            db = [orgs |-> orgs, org |-> org, session |-> session, claim |-> claim,
                  record |-> record, decision |-> decision, note |-> note]
    BY <1>1, Zenon
  <2>3. PICK org \in Of(parts, "org", orgs \cup {None, Gone}, Sound.org) :
          db = [orgs |-> orgs, org |-> org, session |-> session, claim |-> claim,
                record |-> record, decision |-> decision, note |-> note]
    BY <2>2
  <2>4. /\ orgs \in SUBSET (Orgs \cup {"default"}) /\ org \in Orgs \cup {"default", None, Gone}
        /\ session \in SessionRows /\ claim \in ClaimRows /\ record \in [Records -> RecordRows]
        /\ decision \in DecisionRefs /\ note \in NoteRefs
    BY <2>1, <2>2, <2>3 DEF Of, Stores
  <2> QED BY <2>3, <2>4 DEF Stores
<1>3. repair = [at |-> "idle", passes |-> 0, orphans |-> FALSE, looks |-> Tables] /\ saved = db
  BY DEF IntegrityInit, AtRepair
<1>4. repair \in RepairRows
      /\ repair.at = "idle"
  BY <1>3 DEF RepairRows
<1>5. DurableKept(saved, db, repair.orphans) /\ Derived(saved, db)
  BY <1>2, <1>3, <1>4, NothingDone
<1> QED BY <1>2, <1>3, <1>4, <1>5 DEF RepairInv

LEMMA PassKeeps ==
    ASSUME RepairInv, _converge_within_transaction
    PROVE  RepairInv'
<1> DEFINE o == repair.orphans
           e == _execute_actions(db, Plan)
<1>1. /\ db \in Stores /\ saved \in Stores /\ o \in BOOLEAN /\ repair.at = "passing" /\ Plan # {}
      /\ repair \in RepairRows
  BY DEF RepairInv, _converge_within_transaction, RepairRows
<1>2. db' = e /\ saved' = saved
      /\ repair' = [repair EXCEPT !.passes = @ + 1, !.looks = _replan_scope(WrittenTables(db, e))]
  BY <1>1 DEF _converge_within_transaction, MAX_REPAIR_PASSES, RepairRows
<1>3. PICK d1, d2, d3, d4, d5, d6, d7, d8, d9, d10, d11 :
        Phases(db, Plan, d1, d2, d3, d4, d5, d6, d7, d8, d9, d10, d11, e)
  BY <1>1, InPhases
<1>4. Plan = Findings(db, repair.looks, o)
  BY DEF Plan
<1>5. _replan_scope(WrittenTables(db, e)) \subseteq Tables
  BY DEF _replan_scope, WrittenTables, Children, Tables, Sound
<1> HIDE DEF e
<1> DEFINE scope == _replan_scope(WrittenTables(db, e))
<1>6. CASE repair.passes = 0
  <2>1. repair.looks = Tables /\ db = saved
    BY <1>1, <1>6 DEF RepairInv
  <2>2. /\ e \in Stores
        /\ ~EndedWithoutState(e) /\ ~StateWithoutEnd(e) /\ ~(e.claim.held /\ e.claim.expired)
        /\ ~Orphaned(e, "org") /\ ~Orphaned(e, "claim") /\ ~Orphaned(e, "note")
        /\ o => ~Orphaned(e, "session") /\ ~Orphaned(e, "decision") /\ ~Orphaned(e, "record")
        /\ Orphaned(e, "reply") => e.record # db.record
        /\ e.org = None => e.orgs = db.orgs
        /\ DurableKept(db, e, o) /\ Derived(db, e)
    BY <1>1, <1>3, <1>4, <2>1, FirstPass
  <2>3. repair'.at = "passing" /\ repair'.passes = 1 /\ repair'.orphans = o
        /\ repair' \in RepairRows
        /\ repair'.looks = scope
    <3>1. repair' = [repair EXCEPT !.passes = 1, !.looks = scope] /\ scope \in SUBSET Tables
      BY <1>2, <1>5, <1>6
    <3> HIDE DEF scope
    <3>2. repair \in RepairRows /\ 1 \in 0..2
      BY <1>1
    <3>3. repair' \in RepairRows
      BY <3>1, <3>2 DEF RepairRows
    <3>4. repair'.at = "passing" /\ repair'.passes = 1 /\ repair'.looks = scope
      BY <1>1, <3>1, <3>2 DEF RepairRows
    <3>5. repair'.orphans = repair.orphans
      BY <3>1, <3>2 DEF RepairRows
    <3> QED BY <3>3, <3>4, <3>5, Zenon
  <2>4. CleanButFor(e, o)
    BY <2>2 DEF CleanButFor
  <2>5. e.record # db.record => "record" \in _replan_scope(WrittenTables(db, e))
    BY DEF _replan_scope, WrittenTables, Tables, Sound
  <2> QED BY <1>1, <1>2, <2>1, <2>2, <2>3, <2>4, <2>5 DEF RepairInv
<1>7. CASE repair.passes = 1
  <2>1. CleanButFor(db, o) /\ (Orphaned(db, "reply") => "record" \in repair.looks) /\ (db.org = None => db.orgs = saved.orgs)
        /\ DurableKept(saved, db, o) /\ Derived(saved, db)
    BY <1>1, <1>7 DEF RepairInv
  <2>2. /\ e \in Stores /\ Findings(e, Tables, o) = {}
        /\ e.session = db.session /\ e.decision = db.decision
        /\ \A r \in Records : e.record[r].there = db.record[r].there
        /\ e.org # db.org => db.org = None /\ (db.orgs = {} \/ e.org = "default" \/ db.orgs = {e.org})
    BY <1>1, <1>3, <1>4, <2>1, SecondPass
  <2>3. repair'.at = "passing" /\ repair'.passes = 2 /\ repair'.orphans = o
        /\ repair' \in RepairRows
    <3>1. repair' = [repair EXCEPT !.passes = 2, !.looks = scope] /\ scope \in SUBSET Tables
      BY <1>2, <1>5, <1>7
    <3> HIDE DEF scope
    <3>2. repair \in RepairRows /\ 2 \in 0..2
      BY <1>1
    <3>3. repair' \in RepairRows
      BY <3>1, <3>2 DEF RepairRows
    <3>4. repair'.at = "passing" /\ repair'.passes = 2 /\ repair'.looks = scope
      BY <1>1, <3>1, <3>2 DEF RepairRows
    <3>5. repair'.orphans = repair.orphans
      BY <3>1, <3>2 DEF RepairRows
    <3> QED BY <3>3, <3>4, <3>5, Zenon
  <2>4. DurableKept(saved, e, o)
    <3>1. saved.decision # None /\ saved.decision \in Records /\ db.decision = None
            => (e.record[saved.decision].there = db.record[saved.decision].there)
      BY <2>2
    <3> QED BY <1>1, <2>1, <2>2, <3>1 DEF DurableKept, Here, Stores
  <2>5. Derived(saved, e)
    BY <2>1, <2>2 DEF Derived
  <2> QED BY <1>1, <1>2, <2>2, <2>3, <2>4, <2>5 DEF RepairInv
<1>8. CASE repair.passes = 2
  <2>1. Findings(db, Tables, o) = {}
    BY <1>1, <1>8 DEF RepairInv
  <2>2. Plan \subseteq Findings(db, Tables, o)
    BY <1>4, AllTables DEF Findings
  <2> QED BY <1>1, <2>1, <2>2
<1> QED BY <1>1, <1>6, <1>7, <1>8 DEF RepairRows

LEMMA RepairSteps ==
    ASSUME RepairInv, [IntegrityNext]_integrityVars
    PROVE  RepairInv'
<1>1. /\ db \in Stores /\ saved \in Stores
      /\ repair \in RepairRows
  BY DEF RepairInv
<1>2. CASE repair_database
  <2>1. PICK o \in BOOLEAN : repair' = [at |-> "passing", passes |-> 0, orphans |-> o, looks |-> Tables]
    BY <1>2 DEF repair_database, AtRepair
  <2>2. db' = db /\ saved' = saved /\ db = saved
    BY <1>2 DEF repair_database, RepairInv
  <2>3. DurableKept(saved, db, o) /\ Derived(saved, db)
    BY <1>1, <2>2, NothingDone
  <2> QED BY <1>1, <2>1, <2>2, <2>3 DEF RepairInv, RepairRows
<1>3. CASE _converge_within_transaction
  BY <1>3, PassKeeps
<1>4. CASE Commit
  <2>1. repair.at = "passing" /\ Findings(db, repair.looks, repair.orphans) = {} /\ db' = db /\ saved' = saved
        /\ repair' = [repair EXCEPT !.at = "committed"]
    BY <1>4 DEF Commit, Converged, Plan
  <2>2. Findings(db, Tables, repair.orphans) = {}
    <3>1. CASE repair.passes = 0
      BY <2>1, <3>1 DEF RepairInv
    <3>2. CASE repair.passes = 1
      <4>1. CleanButFor(db, repair.orphans) /\ (Orphaned(db, "reply") => "record" \in repair.looks) /\ repair.orphans \in BOOLEAN
        BY <1>1, <2>1, <3>2 DEF RepairInv, RepairRows
      <4>2. ~Orphaned(db, "reply") /\ ~OrglessWorkspace(db) /\ ~HeldByEnded(db)
        BY <2>1, <4>1, Found DEF ForeignKeys, Deterministic, TableOf
      <4> QED BY <4>1, <4>2, CleanIs
    <3>3. CASE repair.passes = 2
      BY <2>1, <3>3 DEF RepairInv
    <3> QED BY <1>1, <3>1, <3>2, <3>3 DEF RepairRows
  <2>3. repair' \in RepairRows
        /\ repair'.at = "committed" /\ repair'.orphans = repair.orphans
    BY <1>1, <2>1 DEF RepairRows
  <2> QED BY <1>1, <2>1, <2>2, <2>3 DEF RepairInv
<1>5. CASE Rollback
  <2>1. repair' = [at |-> "idle", passes |-> 0, orphans |-> FALSE, looks |-> Tables] /\ db' = saved /\ saved' = saved
    BY <1>5 DEF Rollback, AtRepair
  <2>2. DurableKept(saved, saved, FALSE) /\ Derived(saved, saved)
    BY <1>1, NothingDone
  <2>3. repair' \in RepairRows
        /\ repair'.at = "idle" /\ repair'.orphans = FALSE
    BY <2>1 DEF RepairRows
  <2> QED BY <1>1, <2>1, <2>2, <2>3 DEF RepairInv
<1>6. CASE UNCHANGED integrityVars
  BY <1>6 DEF RepairInv, integrityVars
<1> QED BY <1>2, <1>3, <1>4, <1>5, <1>6 DEF IntegrityNext

LEMMA RepairFollows ==
    ASSUME RepairInv
    PROVE  RepairIsSound
<1>1. IntegrityTypeOK
  BY DEF RepairInv, IntegrityTypeOK, Stores, MAX_REPAIR_PASSES, RepairRows
<1>2. RepairConverges /\ CommitIsClean
  BY DEF RepairInv, RepairConverges, CommitIsClean, RepairRows
<1>3. DurableRowsStand
  BY DEF RepairInv, DurableRowsStand, DurableKept, Lost, Here, Stores
<1>4. NothingGuessed
  BY DEF RepairInv, NothingGuessed, Derived
<1> QED BY <1>1, <1>2, <1>3, <1>4 DEF RepairIsSound

-----------------------------------------------------------------------------
(* The settings file of another program.  Where no two processes got into   *)
(* the lock, what the process inside knows of the four files depends on its *)
(* step, and what the files say to each other, when nobody is inside or     *)
(* somebody died there, is enough for the next one: an edit from outside is *)
(* newer than whatever is recorded, and is only ever replaced by a process  *)
(* that has it displaced or recorded.                                       *)

Contents == [text : -1 .. MaxEdits, hook : BOOLEAN]
Operations == {"none", "install", "remove"}
HandSteps == {"none", "check", "read", "document", "journal", "swap", "exchange", "verify", "put_back", "backup", "manifest",
              "unmanifest", "unbackup", "late_unbackup", "late_unmanifest", "uncapture", "unjournal", "over"}
HandRows == [op : Operations, step : HandSteps, expected : Contents, desired : Contents]
LockFiles == [by : Hands \cup {Nobody}, signed : BOOLEAN]
LockPlaces == {"out", "waiting", "opened", "in", "refused", "stale"}
SettingsTyped ==
    /\ {settings, displaced, backup} \subseteq Contents
    /\ journal \in [op : Operations, expected : Contents, desired : Contents]
    /\ manifest \in [prior : Contents, installed : Contents]
    /\ hand \in [Hands -> HandRows]
    /\ handAt \in [Hands -> LockPlaces]
    /\ edits \in 0..MaxEdits /\ latest \in 0..edits
    /\ placed \in BOOLEAN /\ crowded \in BOOLEAN /\ overrun \in BOOLEAN

\* No content is newer than the last edit; without a file there is no hook.
Dated(content) == content.text <= edits /\ (content.text = -1 => content = Absent)
AllDated ==
    /\ Dated(settings) /\ Dated(displaced) /\ Dated(backup)
    /\ Dated(journal.expected) /\ Dated(journal.desired) /\ Dated(manifest.prior) /\ Dated(manifest.installed)
    /\ \A p \in Hands : Dated(hand[p].expected) /\ Dated(hand[p].desired)

UpToDate(content) == latest = 0 \/ content.text = latest
\* Whoever loses the one has the other.
Covers(kept, other) == latest # 0 /\ other.text = latest => kept.text = latest
\* The file is this, or somebody outside has written it since.
OrEdited(content) == settings = content \/ (~placed /\ UpToDate(settings))

\* An install that is journalled and not finished.
Unhooked(e, w) == ~e.hook \/ (displaced \in {Absent, w} /\ settings # e) \/ (e # Absent /\ displaced \notin {Absent, e})
KeepsEdit(e, w) == Covers(e, w) \/ (settings # e /\ settings # w) \/ (e # Absent /\ displaced \notin {Absent, e})

FilesAgree ==
    /\ journal.op = "none" => journal = NoJournal
    /\ journal = NoJournal => displaced = Absent
    /\ journal = NoJournal /\ manifest = NoManifest => backup = Absent
    /\ journal.op = "install" =>
         /\ journal.desired.hook /\ backup \in {Absent, journal.expected}
         /\ manifest = NoManifest =>
              /\ backup # Absent => displaced = journal.expected
              /\ Unhooked(journal.expected, journal.desired) /\ KeepsEdit(journal.expected, journal.desired)
         /\ manifest # NoManifest =>
              /\ manifest.installed = journal.desired /\ manifest.prior = journal.expected
              /\ displaced \in {Absent, journal.expected}
    /\ journal.op = "remove" =>
         /\ Covers(journal.desired, journal.expected) /\ ~journal.desired.hook /\ backup \in {Absent, journal.desired}
         /\ manifest # NoManifest => manifest.installed = journal.expected /\ manifest.prior = journal.desired
    /\ manifest # NoManifest =>
         /\ Covers(manifest.prior, manifest.installed) /\ manifest.installed.hook /\ ~manifest.prior.hook
         /\ journal.op # "remove" => backup = manifest.prior

Installing(p) == hand[p].op = "install" /\ manifest = NoManifest
Removing(p) == /\ hand[p].op = "remove" /\ manifest # NoManifest
               /\ hand[p].expected = manifest.installed /\ hand[p].desired = manifest.prior /\ backup = manifest.prior
Operating(p) == (Installing(p) /\ hand[p].desired.hook /\ backup = Absent) \/ Removing(p)
Ending(p, deed) == hand[p].op = deed /\ journal.op = deed


\* What holds of the process that is inside, step by step.
AtRead(p) == hand[p].step \in {"read", "document"} => Installing(p) /\ journal = NoJournal
AtDocument(p) == hand[p].step = "document" => OrEdited(hand[p].expected)
\* An install expects no file that has a hook, nor one that is older than what it wants, but where the file is another.
Sensible(p) == hand[p].op = "install" =>
    /\ hand[p].expected.hook => settings # hand[p].expected
    /\ Covers(hand[p].expected, hand[p].desired) \/ (settings # hand[p].expected /\ settings # hand[p].desired)
AtJournal(p) == hand[p].step = "journal" =>
    /\ Operating(p) /\ journal = NoJournal /\ OrEdited(hand[p].expected)
    /\ Sensible(p)
AtReplace(p) == hand[p].step \in {"swap", "exchange", "verify", "put_back"} => Operating(p) /\ journal = Entry(p)
AtSwap(p) == hand[p].step = "swap" => displaced = Absent /\ OrEdited(hand[p].expected)
AtExchange(p) == hand[p].step = "exchange" =>
    displaced = hand[p].desired /\ hand[p].expected # Absent /\ hand[p].desired # Absent /\ OrEdited(hand[p].expected) /\ Sensible(p)
AtVerify(p) == hand[p].step = "verify" =>
    /\ OrEdited(hand[p].desired) /\ (hand[p].expected = Absent <=> displaced = Absent)
    /\ displaced = hand[p].expected \/ UpToDate(displaced) \/ settings # hand[p].desired
AtPutBack(p) == hand[p].step = "put_back" =>
    settings = hand[p].desired /\ hand[p].expected # Absent /\ displaced # Absent /\ UpToDate(displaced)
AtRecord(p) == hand[p].step \in {"backup", "manifest"} =>
    /\ Installing(p) /\ journal = Entry(p) /\ displaced = hand[p].expected
    /\ ~hand[p].expected.hook /\ Covers(hand[p].expected, hand[p].desired)
    /\ hand[p].step = "manifest" => backup = hand[p].expected
AtForget(p) == hand[p].step \in {"unmanifest", "unbackup", "late_unbackup", "late_unmanifest"} =>
    /\ Ending(p, "remove") /\ displaced = journal.expected /\ OrEdited(journal.desired)
    /\ hand[p].step = "unmanifest" => manifest # NoManifest
    /\ hand[p].step = "unbackup" => manifest = NoManifest
    /\ hand[p].step = "late_unmanifest" => backup = Absent
AtFinish(p) == hand[p].step \in {"uncapture", "unjournal"} =>
    /\ Ending(p, hand[p].op)
    /\ hand[p].op = "install" => manifest # NoManifest
    /\ hand[p].op = "remove" => manifest = NoManifest /\ backup = Absent /\ OrEdited(journal.desired)
    /\ hand[p].step = "uncapture" /\ hand[p].op = "remove" => displaced = journal.expected
    /\ hand[p].step = "unjournal" => displaced = Absent

StepAgrees(p) ==
    /\ hand[p].op # "none" /\ hand[p].step # "none"
    /\ AtRead(p) /\ AtDocument(p) /\ AtJournal(p) /\ AtReplace(p) /\ AtSwap(p) /\ AtExchange(p) /\ AtVerify(p) /\ AtPutBack(p)
    /\ AtRecord(p) /\ AtForget(p) /\ AtFinish(p)

SettingsInv ==
    /\ SettingsTyped /\ AllDated
    /\ \A p \in Hands : handAt[p] # "in" => hand[p].step \in {"none", "check"}
    /\ \A p \in Hands : handAt[p] # "out" => hand[p].op # "none" /\ hand[p].step # "none"
    /\ ~crowded => \A p, q \in Hands : handAt[p] = "in" /\ handAt[q] = "in" => p = q
    /\ ~Shared =>
         /\ FilesAgree /\ \A p \in Hands : handAt[p] = "in" => StepAgrees(p)
         /\ EditsSurvive /\ HookIsNamed

\* What the one process inside keeps.
Agrees(p) == FilesAgree /\ StepAgrees(p) /\ EditsSurvive /\ HookIsNamed

\* Steps of the operation.
LEMMA HandGoes ==
    ASSUME SettingsTyped, NEW p \in Hands, NEW s \in HandSteps, GoTo(p, s)
    PROVE  /\ hand' \in [Hands -> HandRows]
           /\ hand'[p].op = hand[p].op /\ hand'[p].step = s
           /\ hand'[p].expected = hand[p].expected /\ hand'[p].desired = hand[p].desired
           /\ \A q \in Hands : q # p => hand'[q] = hand[q]
<1>1. hand \in [Hands -> HandRows] BY DEF SettingsTyped
<1> QED BY <1>1 DEF GoTo, HandRows

\* No file holds no edit.
LEMMA NoTextIsOld ==
    ASSUME SettingsTyped, latest # 0
    PROVE  Absent.text # latest
<1>1. latest \in Nat
  BY DEF SettingsTyped
<1> QED BY <1>1 DEF Absent

USE DEF UpToDate, Covers, OrEdited, Installing, Removing, Operating, Ending, NoJournal, NoManifest, Absent, Entry,
        CarriedOut, NotBegun, Displaced, Outside, Still, fileVars, Transacts, Doing, Sensible

\* _transactional_replace writes its journal over nothing.
LEMMA WriteJournalKeeps ==
    ASSUME SettingsTyped, NEW p \in Hands, ~Shared, Agrees(p), write_journal(p)
    PROVE  Agrees(p)'
<1> USE DEF Agrees
<1>1. Operating(p) /\ journal = NoJournal /\ OrEdited(hand[p].expected) /\ Sensible(p)
  BY DEF StepAgrees, AtJournal, write_journal
<1>2. displaced = Absent /\ journal' = Entry(p)
  BY <1>1 DEF FilesAgree, write_journal
<1>3. PICK s \in {"swap"} : GoTo(p, s)
  BY <1>1, <1>2 DEF write_journal, Over, NextStep
<1>4. /\ hand'[p].op = hand[p].op /\ hand'[p].step = s
      /\ hand'[p].expected = hand[p].expected /\ hand'[p].desired = hand[p].desired
  BY <1>3, HandGoes DEF HandSteps
<1>5. hand'[p].step \in {"swap"} /\ hand'[p].op # "none"
  BY <1>4 DEF StepAgrees
<1>6. FilesAgree'
  BY <1>1, <1>2, <1>4 DEF Unhooked, KeepsEdit, FilesAgree, write_journal
<1>7. StepAgrees(p)'
  <2>1. AtReplace(p)'
    BY <1>1, <1>2, <1>4 DEF FilesAgree, AtReplace, write_journal, GoTo, Over
  <2>2. AtSwap(p)'
    BY <1>1, <1>2, <1>4 DEF FilesAgree, AtSwap, write_journal, GoTo, Over
  <2>3. AtRead(p)' /\ AtDocument(p)' /\ AtJournal(p)' /\ AtExchange(p)' /\ AtVerify(p)' /\ AtPutBack(p)' /\ AtRecord(p)' /\ AtForget(p)' /\ AtFinish(p)'
    BY <1>5 DEF AtRead, AtDocument, AtJournal, AtExchange, AtVerify, AtPutBack, AtRecord, AtForget, AtFinish
  <2>4. hand'[p].op # "none" /\ hand'[p].step # "none"
    BY <1>5
  <2> QED BY <2>1, <2>2, <2>3, <2>4 DEF StepAgrees
<1>8. EditsSurvive'
  BY <1>1, <1>2, <1>4, NoTextIsOld DEF EditsSurvive, FilesAgree, Shared, write_journal
<1>9. HookIsNamed'
  BY <1>1, <1>2, <1>4 DEF HookIsNamed, FilesAgree, Shared, write_journal
<1> QED BY <1>6, <1>7, <1>8, <1>9

\* The file is created, or somebody else has created one.
LEMMA CreateKeeps ==
    ASSUME SettingsTyped, NEW p \in Hands, ~Shared, Agrees(p), create(p)
    PROVE  Agrees(p)'
<1> USE DEF Agrees
<1>1. Operating(p) /\ journal = Entry(p) /\ displaced = Absent /\ OrEdited(hand[p].expected)
  BY DEF StepAgrees, AtReplace, AtSwap, create
<1>2. hand[p].op = "install"
  BY <1>1 DEF FilesAgree, create
<1>3. PICK s \in {"verify", "over"} :
        /\ GoTo(p, s)
        /\ s = "verify" => settings = Absent /\ settings' = hand[p].desired /\ placed' = TRUE /\ journal' = journal
        /\ s = "over" => settings # Absent /\ journal' = NoJournal /\ settings' = settings /\ placed' = placed
  BY <1>1, <1>2 DEF create, Over, NextStep
<1>4. /\ hand'[p].op = hand[p].op /\ hand'[p].step = s
      /\ hand'[p].expected = hand[p].expected /\ hand'[p].desired = hand[p].desired
  BY <1>3, HandGoes DEF HandSteps
<1>5. hand'[p].step \in {"verify", "over"} /\ hand'[p].op # "none"
  BY <1>4 DEF StepAgrees
<1>6. FilesAgree'
  BY <1>1, <1>2, <1>4, <1>3 DEF Unhooked, KeepsEdit, FilesAgree, create
<1>7. StepAgrees(p)'
  <2>1. AtReplace(p)'
    BY <1>1, <1>2, <1>4, <1>3 DEF FilesAgree, AtReplace, create, GoTo, Over
  <2>2. AtVerify(p)'
    BY <1>1, <1>2, <1>4, <1>3 DEF FilesAgree, AtVerify, create, GoTo, Over
  <2>3. AtRead(p)' /\ AtDocument(p)' /\ AtJournal(p)' /\ AtSwap(p)' /\ AtExchange(p)' /\ AtPutBack(p)' /\ AtRecord(p)' /\ AtForget(p)' /\ AtFinish(p)'
    BY <1>5 DEF AtRead, AtDocument, AtJournal, AtSwap, AtExchange, AtPutBack, AtRecord, AtForget, AtFinish
  <2>4. hand'[p].op # "none" /\ hand'[p].step # "none"
    BY <1>5
  <2> QED BY <2>1, <2>2, <2>3, <2>4 DEF StepAgrees
<1>8. EditsSurvive'
  BY <1>1, <1>2, <1>4, <1>3, NoTextIsOld DEF EditsSurvive, FilesAgree, Shared, create
<1>9. HookIsNamed'
  <2>1. CASE s = "verify"
    <3>1. settings' = journal'.desired
      BY <1>1, <1>2, <1>4, <1>3, <2>1 DEF create
    <3> QED BY <3>1 DEF HookIsNamed
  <2>2. CASE s = "over"
    <3>1. ~(settings'.hook /\ placed')
      BY <1>1, <1>2, <1>4, <1>3, <2>2 DEF create
    <3> QED BY <3>1 DEF HookIsNamed
  <2> QED BY <1>3, <2>1, <2>2
<1> QED BY <1>6, <1>7, <1>8, <1>9

\* The file is moved away.
LEMMA TakeAwayKeeps ==
    ASSUME SettingsTyped, NEW p \in Hands, ~Shared, Agrees(p), take_away(p)
    PROVE  Agrees(p)'
<1> USE DEF Agrees
<1>1. Operating(p) /\ journal = Entry(p) /\ displaced = Absent /\ OrEdited(hand[p].expected)
  BY DEF StepAgrees, AtReplace, AtSwap, take_away
<1>2. hand[p].op = "remove"
  BY <1>1 DEF take_away
<1>3. PICK s \in {"verify", "over"} :
        /\ GoTo(p, s)
        /\ s = "verify" => settings # Absent /\ displaced' = settings /\ settings' = Absent /\ placed' = TRUE /\ journal' = journal
        /\ s = "over" => settings = Absent /\ displaced' = Absent /\ journal' = NoJournal /\ settings' = settings /\ placed' = placed
  BY <1>1, <1>2 DEF take_away, Over, NextStep
<1>4. /\ hand'[p].op = hand[p].op /\ hand'[p].step = s
      /\ hand'[p].expected = hand[p].expected /\ hand'[p].desired = hand[p].desired
  BY <1>3, HandGoes DEF HandSteps
<1>5. hand'[p].step \in {"verify", "over"} /\ hand'[p].op # "none"
  BY <1>4 DEF StepAgrees
<1>6. FilesAgree'
  <2>1. manifest # NoManifest /\ backup = manifest.prior /\ manifest' = manifest /\ backup' = backup /\ latest' = latest
    BY <1>1, <1>2, <1>4, <1>3 DEF take_away
  <2>2. CASE s = "verify"
    <3>1. journal' = journal /\ journal.op = "remove"
      BY <1>1, <1>2, <1>4, <1>3, <2>2
    <3> QED BY <2>1, <3>1 DEF FilesAgree
  <2>3. CASE s = "over"
    <3>1. journal' = NoJournal /\ displaced' = Absent
      BY <1>1, <1>2, <1>4, <1>3, <2>3
    <3> QED BY <2>1, <3>1 DEF FilesAgree
  <2> QED BY <1>3, <2>2, <2>3
<1>7. StepAgrees(p)'
  <2>1. AtReplace(p)'
    BY <1>1, <1>2, <1>4, <1>3 DEF FilesAgree, AtReplace, take_away, GoTo, Over
  <2>2. AtVerify(p)'
    BY <1>1, <1>2, <1>4, <1>3 DEF FilesAgree, AtVerify, take_away, GoTo, Over
  <2>3. AtRead(p)' /\ AtDocument(p)' /\ AtJournal(p)' /\ AtSwap(p)' /\ AtExchange(p)' /\ AtPutBack(p)' /\ AtRecord(p)' /\ AtForget(p)' /\ AtFinish(p)'
    BY <1>5 DEF AtRead, AtDocument, AtJournal, AtSwap, AtExchange, AtPutBack, AtRecord, AtForget, AtFinish
  <2>4. hand'[p].op # "none" /\ hand'[p].step # "none"
    BY <1>5
  <2> QED BY <2>1, <2>2, <2>3, <2>4 DEF StepAgrees
<1>8. EditsSurvive'
  BY <1>1, <1>2, <1>4, <1>3, NoTextIsOld DEF EditsSurvive, FilesAgree, Shared, take_away
<1>9. HookIsNamed'
  BY <1>1, <1>2, <1>4, <1>3 DEF HookIsNamed, FilesAgree, Shared, take_away
<1> QED BY <1>6, <1>7, <1>8, <1>9

\* What is to be put in place is written.
LEMMA WriteReplacementKeeps ==
    ASSUME SettingsTyped, NEW p \in Hands, ~Shared, Agrees(p), write_replacement(p)
    PROVE  Agrees(p)'
<1> USE DEF Agrees
<1>1. Operating(p) /\ journal = Entry(p) /\ displaced = Absent /\ OrEdited(hand[p].expected)
  BY DEF StepAgrees, AtReplace, AtSwap, write_replacement
<1>2. Sensible(p)
  BY <1>1 DEF FilesAgree, Unhooked, KeepsEdit
<1>3. PICK s \in {"exchange"} : GoTo(p, s)
  BY <1>1, <1>2 DEF write_replacement, Over, NextStep
<1>4. /\ hand'[p].op = hand[p].op /\ hand'[p].step = s
      /\ hand'[p].expected = hand[p].expected /\ hand'[p].desired = hand[p].desired
  BY <1>3, HandGoes DEF HandSteps
<1>5. hand'[p].step \in {"exchange"} /\ hand'[p].op # "none"
  BY <1>4 DEF StepAgrees
<1>6. FilesAgree'
  BY <1>1, <1>2, <1>4 DEF Unhooked, KeepsEdit, FilesAgree, write_replacement
<1>7. StepAgrees(p)'
  <2>1. AtReplace(p)'
    BY <1>1, <1>2, <1>4 DEF FilesAgree, AtReplace, write_replacement, GoTo, Over
  <2>2. AtExchange(p)'
    BY <1>1, <1>2, <1>4 DEF FilesAgree, AtExchange, write_replacement, GoTo, Over
  <2>3. AtRead(p)' /\ AtDocument(p)' /\ AtJournal(p)' /\ AtSwap(p)' /\ AtVerify(p)' /\ AtPutBack(p)' /\ AtRecord(p)' /\ AtForget(p)' /\ AtFinish(p)'
    BY <1>5 DEF AtRead, AtDocument, AtJournal, AtSwap, AtVerify, AtPutBack, AtRecord, AtForget, AtFinish
  <2>4. hand'[p].op # "none" /\ hand'[p].step # "none"
    BY <1>5
  <2> QED BY <2>1, <2>2, <2>3, <2>4 DEF StepAgrees
<1>8. EditsSurvive'
  BY <1>1, <1>2, <1>4, NoTextIsOld DEF EditsSurvive, FilesAgree, Shared, write_replacement
<1>9. HookIsNamed'
  BY <1>1, <1>2, <1>4 DEF HookIsNamed, FilesAgree, Shared, write_replacement
<1> QED BY <1>6, <1>7, <1>8, <1>9

\* The two files change places.
LEMMA ExchangeKeeps ==
    ASSUME SettingsTyped, NEW p \in Hands, ~Shared, Agrees(p), exchange(p)
    PROVE  Agrees(p)'
<1> USE DEF Agrees
<1>1. Operating(p) /\ journal = Entry(p) /\ displaced = hand[p].desired /\ hand[p].expected # Absent /\ hand[p].desired # Absent /\ OrEdited(hand[p].expected) /\ Sensible(p)
  BY DEF StepAgrees, AtReplace, AtExchange, exchange
<1>2. PICK s \in {"verify", "over"} :
        /\ GoTo(p, s)
        /\ s = "verify" => settings # Absent /\ displaced' = settings /\ settings' = displaced /\ placed' = TRUE /\ journal' = journal
        /\ s = "over" => settings = Absent /\ displaced' = Absent /\ journal' = NoJournal /\ settings' = settings /\ placed' = placed
  BY <1>1 DEF exchange, Over, NextStep
<1>3. /\ hand'[p].op = hand[p].op /\ hand'[p].step = s
      /\ hand'[p].expected = hand[p].expected /\ hand'[p].desired = hand[p].desired
  BY <1>2, HandGoes DEF HandSteps
<1>4. hand'[p].step \in {"verify", "over"} /\ hand'[p].op # "none"
  BY <1>3 DEF StepAgrees
<1>5. FilesAgree'
  BY <1>1, <1>3, <1>2 DEF Unhooked, KeepsEdit, FilesAgree, exchange
<1>6. StepAgrees(p)'
  <2>1. AtReplace(p)'
    BY <1>1, <1>3, <1>2 DEF FilesAgree, AtReplace, exchange, GoTo, Over
  <2>2. AtVerify(p)'
    BY <1>1, <1>3, <1>2 DEF FilesAgree, AtVerify, exchange, GoTo, Over
  <2>3. AtRead(p)' /\ AtDocument(p)' /\ AtJournal(p)' /\ AtSwap(p)' /\ AtExchange(p)' /\ AtPutBack(p)' /\ AtRecord(p)' /\ AtForget(p)' /\ AtFinish(p)'
    BY <1>4 DEF AtRead, AtDocument, AtJournal, AtSwap, AtExchange, AtPutBack, AtRecord, AtForget, AtFinish
  <2>4. hand'[p].op # "none" /\ hand'[p].step # "none"
    BY <1>4
  <2> QED BY <2>1, <2>2, <2>3, <2>4 DEF StepAgrees
<1>7. EditsSurvive'
  BY <1>1, <1>3, <1>2, NoTextIsOld DEF EditsSurvive, FilesAgree, Shared, exchange
<1>8. HookIsNamed'
  <2>1. CASE s = "verify"
    <3>1. settings' = journal'.desired
      BY <1>1, <1>3, <1>2, <2>1 DEF exchange
    <3> QED BY <3>1 DEF HookIsNamed
  <2>2. CASE s = "over"
    <3>1. ~(settings'.hook /\ placed')
      BY <1>1, <1>3, <1>2, <2>2 DEF exchange
    <3> QED BY <3>1 DEF HookIsNamed
  <2> QED BY <1>2, <2>1, <2>2
<1> QED BY <1>5, <1>6, <1>7, <1>8

\* The displaced file is looked at.
LEMMA VerifyKeeps ==
    ASSUME SettingsTyped, NEW p \in Hands, ~Shared, Agrees(p), verify(p)
    PROVE  Agrees(p)'
<1> USE DEF Agrees
<1>1. Operating(p) /\ journal = Entry(p) /\ OrEdited(hand[p].desired) /\ (hand[p].expected = Absent <=> displaced = Absent) /\ (displaced = hand[p].expected \/ UpToDate(displaced) \/ settings # hand[p].desired)
  BY DEF StepAgrees, AtReplace, AtVerify, verify
<1>2. hand[p].op = "install" => (displaced = hand[p].expected /\ settings = hand[p].desired => ~hand[p].expected.hook /\ Covers(hand[p].expected, hand[p].desired))
  BY <1>1 DEF FilesAgree, Unhooked, KeepsEdit
<1>3. PICK s \in {"backup", "unmanifest", "put_back", "over"} :
        /\ GoTo(p, s)
        /\ s = "backup" <=> AsPlanned(p) /\ hand[p].op = "install"
        /\ s = "unmanifest" <=> AsPlanned(p) /\ hand[p].op = "remove"
        /\ s = "put_back" => ~AsPlanned(p) /\ settings = hand[p].desired /\ displaced # Absent
  BY <1>1, <1>2 DEF verify, Over, AsPlanned, NextStep
<1>4. /\ hand'[p].op = hand[p].op /\ hand'[p].step = s
      /\ hand'[p].expected = hand[p].expected /\ hand'[p].desired = hand[p].desired
  BY <1>3, HandGoes DEF HandSteps
<1>5. hand'[p].step \in {"backup", "unmanifest", "put_back", "over"} /\ hand'[p].op # "none"
  BY <1>4 DEF StepAgrees
<1>6. FilesAgree'
  BY <1>1, <1>2, <1>4, <1>3 DEF Unhooked, KeepsEdit, FilesAgree, verify
<1>7. StepAgrees(p)'
  <2>1. AtReplace(p)'
    BY <1>1, <1>2, <1>4, <1>3 DEF FilesAgree, AtReplace, verify, GoTo, Over, AsPlanned, NextStep
  <2>2. AtPutBack(p)'
    BY <1>1, <1>2, <1>4, <1>3 DEF FilesAgree, AtPutBack, verify, GoTo, Over, AsPlanned, NextStep
  <2>3. AtRecord(p)'
    BY <1>1, <1>2, <1>4, <1>3 DEF FilesAgree, AtRecord, verify, GoTo, Over, AsPlanned, NextStep
  <2>4. AtForget(p)'
    BY <1>1, <1>2, <1>4, <1>3 DEF FilesAgree, AtForget, verify, GoTo, Over, AsPlanned, NextStep
  <2>5. AtRead(p)' /\ AtDocument(p)' /\ AtJournal(p)' /\ AtSwap(p)' /\ AtExchange(p)' /\ AtVerify(p)' /\ AtFinish(p)'
    BY <1>5 DEF AtRead, AtDocument, AtJournal, AtSwap, AtExchange, AtVerify, AtFinish
  <2>6. hand'[p].op # "none" /\ hand'[p].step # "none"
    BY <1>5
  <2> QED BY <2>1, <2>2, <2>3, <2>4, <2>5, <2>6 DEF StepAgrees
<1>8. EditsSurvive'
  BY <1>1, <1>2, <1>4, <1>3, NoTextIsOld DEF EditsSurvive, FilesAgree, Shared, verify
<1>9. HookIsNamed'
  BY <1>1, <1>2, <1>4, <1>3 DEF HookIsNamed, FilesAgree, Shared, verify
<1> QED BY <1>6, <1>7, <1>8, <1>9

\* The displaced file was not the expected one and is put back.
LEMMA PutBackKeeps ==
    ASSUME SettingsTyped, NEW p \in Hands, ~Shared, Agrees(p), put_back(p)
    PROVE  Agrees(p)'
<1> USE DEF Agrees
<1>1. Operating(p) /\ journal = Entry(p) /\ settings = hand[p].desired /\ hand[p].expected # Absent /\ displaced # Absent /\ UpToDate(displaced)
  BY DEF StepAgrees, AtReplace, AtPutBack, put_back
<1>2. PICK s \in {"over"} : GoTo(p, s)
  BY <1>1 DEF put_back, Over, NextStep
<1>3. /\ hand'[p].op = hand[p].op /\ hand'[p].step = s
      /\ hand'[p].expected = hand[p].expected /\ hand'[p].desired = hand[p].desired
  BY <1>2, HandGoes DEF HandSteps
<1>4. hand'[p].step \in {"over"} /\ hand'[p].op # "none"
  BY <1>3 DEF StepAgrees
<1>5. FilesAgree'
  BY <1>1, <1>3 DEF Unhooked, KeepsEdit, FilesAgree, put_back
<1>6. StepAgrees(p)'
  <2>1. AtRead(p)' /\ AtDocument(p)' /\ AtJournal(p)' /\ AtReplace(p)' /\ AtSwap(p)' /\ AtExchange(p)' /\ AtVerify(p)' /\ AtPutBack(p)' /\ AtRecord(p)' /\ AtForget(p)' /\ AtFinish(p)'
    BY <1>4 DEF AtRead, AtDocument, AtJournal, AtReplace, AtSwap, AtExchange, AtVerify, AtPutBack, AtRecord, AtForget, AtFinish
  <2>2. hand'[p].op # "none" /\ hand'[p].step # "none"
    BY <1>4
  <2> QED BY <2>1, <2>2 DEF StepAgrees
<1>7. EditsSurvive'
  BY <1>1, <1>3, NoTextIsOld DEF EditsSurvive, FilesAgree, Shared, put_back
<1>8. HookIsNamed'
  BY <1>1, <1>3 DEF HookIsNamed, FilesAgree, Shared, put_back
<1> QED BY <1>5, <1>6, <1>7, <1>8

\* The backup is written.
LEMMA WriteBackupKeeps ==
    ASSUME SettingsTyped, NEW p \in Hands, ~Shared, Agrees(p), write_backup(p)
    PROVE  Agrees(p)'
<1> USE DEF Agrees
<1>1. Installing(p) /\ journal = Entry(p) /\ displaced = hand[p].expected /\ ~hand[p].expected.hook /\ Covers(hand[p].expected, hand[p].desired)
  BY DEF StepAgrees, AtRecord, write_backup
<1>2. backup \in {Absent, hand[p].expected} /\ hand[p].desired.hook
  BY <1>1 DEF FilesAgree, write_backup
<1>3. PICK s \in {"manifest"} : GoTo(p, s)
  BY <1>1, <1>2 DEF write_backup, Over, NextStep
<1>4. /\ hand'[p].op = hand[p].op /\ hand'[p].step = s
      /\ hand'[p].expected = hand[p].expected /\ hand'[p].desired = hand[p].desired
  BY <1>3, HandGoes DEF HandSteps
<1>5. hand'[p].step \in {"manifest"} /\ hand'[p].op # "none"
  BY <1>4 DEF StepAgrees
<1>6. FilesAgree'
  BY <1>1, <1>2, <1>4 DEF Unhooked, KeepsEdit, FilesAgree, write_backup
<1>7. StepAgrees(p)'
  <2>1. AtRecord(p)'
    BY <1>1, <1>2, <1>4 DEF FilesAgree, AtRecord, write_backup, GoTo, Over
  <2>2. AtRead(p)' /\ AtDocument(p)' /\ AtJournal(p)' /\ AtReplace(p)' /\ AtSwap(p)' /\ AtExchange(p)' /\ AtVerify(p)' /\ AtPutBack(p)' /\ AtForget(p)' /\ AtFinish(p)'
    BY <1>5 DEF AtRead, AtDocument, AtJournal, AtReplace, AtSwap, AtExchange, AtVerify, AtPutBack, AtForget, AtFinish
  <2>3. hand'[p].op # "none" /\ hand'[p].step # "none"
    BY <1>5
  <2> QED BY <2>1, <2>2, <2>3 DEF StepAgrees
<1>8. EditsSurvive'
  BY <1>1, <1>2, <1>4, NoTextIsOld DEF EditsSurvive, FilesAgree, Shared, write_backup
<1>9. HookIsNamed'
  BY <1>1, <1>2, <1>4 DEF HookIsNamed, FilesAgree, Shared, write_backup
<1> QED BY <1>6, <1>7, <1>8, <1>9

\* The manifest is written.
LEMMA WriteManifestKeeps ==
    ASSUME SettingsTyped, NEW p \in Hands, ~Shared, Agrees(p), write_manifest(p)
    PROVE  Agrees(p)'
<1> USE DEF Agrees
<1>1. Installing(p) /\ journal = Entry(p) /\ displaced = hand[p].expected /\ ~hand[p].expected.hook /\ Covers(hand[p].expected, hand[p].desired) /\ backup = hand[p].expected
  BY DEF StepAgrees, AtRecord, write_manifest
<1>2. hand[p].desired.hook
  BY <1>1 DEF FilesAgree, write_manifest
<1>3. PICK s \in {"uncapture"} : GoTo(p, s)
  BY <1>1, <1>2 DEF write_manifest, Over, NextStep
<1>4. /\ hand'[p].op = hand[p].op /\ hand'[p].step = s
      /\ hand'[p].expected = hand[p].expected /\ hand'[p].desired = hand[p].desired
  BY <1>3, HandGoes DEF HandSteps
<1>5. hand'[p].step \in {"uncapture"} /\ hand'[p].op # "none"
  BY <1>4 DEF StepAgrees
<1>6. FilesAgree'
  BY <1>1, <1>2, <1>4 DEF Unhooked, KeepsEdit, FilesAgree, write_manifest
<1>7. StepAgrees(p)'
  <2>1. AtFinish(p)'
    BY <1>1, <1>2, <1>4 DEF FilesAgree, AtFinish, write_manifest, GoTo, Over
  <2>2. AtRead(p)' /\ AtDocument(p)' /\ AtJournal(p)' /\ AtReplace(p)' /\ AtSwap(p)' /\ AtExchange(p)' /\ AtVerify(p)' /\ AtPutBack(p)' /\ AtRecord(p)' /\ AtForget(p)'
    BY <1>5 DEF AtRead, AtDocument, AtJournal, AtReplace, AtSwap, AtExchange, AtVerify, AtPutBack, AtRecord, AtForget
  <2>3. hand'[p].op # "none" /\ hand'[p].step # "none"
    BY <1>5
  <2> QED BY <2>1, <2>2, <2>3 DEF StepAgrees
<1>8. EditsSurvive'
  BY <1>1, <1>2, <1>4, NoTextIsOld DEF EditsSurvive, FilesAgree, Shared, write_manifest
<1>9. HookIsNamed'
  BY <1>1, <1>2, <1>4 DEF HookIsNamed, FilesAgree, Shared, write_manifest
<1> QED BY <1>6, <1>7, <1>8, <1>9

\* The manifest is unlinked.
LEMMA UnlinkManifestKeeps ==
    ASSUME SettingsTyped, NEW p \in Hands, ~Shared, Agrees(p), unlink_manifest(p)
    PROVE  Agrees(p)'
<1> USE DEF Agrees
<1>1. Ending(p, "remove") /\ displaced = journal.expected /\ OrEdited(journal.desired) /\ (hand[p].step = "late_unmanifest" => backup = Absent)
  BY DEF StepAgrees, AtForget, unlink_manifest
<1>2. PICK s \in {"unbackup", "uncapture"} :
        /\ GoTo(p, s)
        /\ s = "unbackup" => hand[p].step = "unmanifest"
        /\ s = "uncapture" => hand[p].step = "late_unmanifest"
        /\ hand[p].op = "remove"
  BY <1>1 DEF unlink_manifest, Over, NextStep
<1>3. /\ hand'[p].op = hand[p].op /\ hand'[p].step = s
      /\ hand'[p].expected = hand[p].expected /\ hand'[p].desired = hand[p].desired
  BY <1>2, HandGoes DEF HandSteps
<1>4. hand'[p].step \in {"unbackup", "uncapture"} /\ hand'[p].op # "none"
  BY <1>3 DEF StepAgrees
<1>5. FilesAgree'
  BY <1>1, <1>3, <1>2 DEF Unhooked, KeepsEdit, FilesAgree, unlink_manifest
<1>6. StepAgrees(p)'
  <2>1. AtForget(p)'
    BY <1>1, <1>3, <1>2 DEF FilesAgree, AtForget, unlink_manifest, GoTo, Over
  <2>2. AtFinish(p)'
    BY <1>1, <1>3, <1>2 DEF FilesAgree, AtFinish, unlink_manifest, GoTo, Over
  <2>3. AtRead(p)' /\ AtDocument(p)' /\ AtJournal(p)' /\ AtReplace(p)' /\ AtSwap(p)' /\ AtExchange(p)' /\ AtVerify(p)' /\ AtPutBack(p)' /\ AtRecord(p)'
    BY <1>4 DEF AtRead, AtDocument, AtJournal, AtReplace, AtSwap, AtExchange, AtVerify, AtPutBack, AtRecord
  <2>4. hand'[p].op # "none" /\ hand'[p].step # "none"
    BY <1>4
  <2> QED BY <2>1, <2>2, <2>3, <2>4 DEF StepAgrees
<1>7. EditsSurvive'
  BY <1>1, <1>3, <1>2, NoTextIsOld DEF EditsSurvive, FilesAgree, Shared, unlink_manifest
<1>8. HookIsNamed'
  BY <1>1, <1>3, <1>2 DEF HookIsNamed, FilesAgree, Shared, unlink_manifest
<1> QED BY <1>5, <1>6, <1>7, <1>8

\* The backup is unlinked.
LEMMA UnlinkBackupKeeps ==
    ASSUME SettingsTyped, NEW p \in Hands, ~Shared, Agrees(p), unlink_backup(p)
    PROVE  Agrees(p)'
<1> USE DEF Agrees
<1>1. Ending(p, "remove") /\ displaced = journal.expected /\ OrEdited(journal.desired) /\ (hand[p].step = "unbackup" => manifest = NoManifest)
  BY DEF StepAgrees, AtForget, unlink_backup
<1>2. PICK s \in {"uncapture", "late_unmanifest"} :
        /\ GoTo(p, s)
        /\ s = "uncapture" => hand[p].step = "unbackup"
        /\ s = "late_unmanifest" => hand[p].step = "late_unbackup"
        /\ hand[p].op = "remove"
  BY <1>1 DEF unlink_backup, Over, NextStep
<1>3. /\ hand'[p].op = hand[p].op /\ hand'[p].step = s
      /\ hand'[p].expected = hand[p].expected /\ hand'[p].desired = hand[p].desired
  BY <1>2, HandGoes DEF HandSteps
<1>4. hand'[p].step \in {"uncapture", "late_unmanifest"} /\ hand'[p].op # "none"
  BY <1>3 DEF StepAgrees
<1>5. FilesAgree'
  BY <1>1, <1>3, <1>2 DEF Unhooked, KeepsEdit, FilesAgree, unlink_backup
<1>6. StepAgrees(p)'
  <2>1. AtForget(p)'
    BY <1>1, <1>3, <1>2 DEF FilesAgree, AtForget, unlink_backup, GoTo, Over
  <2>2. AtFinish(p)'
    BY <1>1, <1>3, <1>2 DEF FilesAgree, AtFinish, unlink_backup, GoTo, Over
  <2>3. AtRead(p)' /\ AtDocument(p)' /\ AtJournal(p)' /\ AtReplace(p)' /\ AtSwap(p)' /\ AtExchange(p)' /\ AtVerify(p)' /\ AtPutBack(p)' /\ AtRecord(p)'
    BY <1>4 DEF AtRead, AtDocument, AtJournal, AtReplace, AtSwap, AtExchange, AtVerify, AtPutBack, AtRecord
  <2>4. hand'[p].op # "none" /\ hand'[p].step # "none"
    BY <1>4
  <2> QED BY <2>1, <2>2, <2>3, <2>4 DEF StepAgrees
<1>7. EditsSurvive'
  BY <1>1, <1>3, <1>2, NoTextIsOld DEF EditsSurvive, FilesAgree, Shared, unlink_backup
<1>8. HookIsNamed'
  BY <1>1, <1>3, <1>2 DEF HookIsNamed, FilesAgree, Shared, unlink_backup
<1> QED BY <1>5, <1>6, <1>7, <1>8

\* The displaced file and the journal are unlinked.
LEMMA FinishTransactionKeeps ==
    ASSUME SettingsTyped, NEW p \in Hands, ~Shared, Agrees(p), _finish_transaction(p)
    PROVE  Agrees(p)'
<1> USE DEF Agrees
<1>1. Ending(p, hand[p].op) /\ (hand[p].op = "install" => manifest # NoManifest)
      /\ (hand[p].op = "remove" => manifest = NoManifest /\ backup = Absent /\ OrEdited(journal.desired))
      /\ (hand[p].step = "uncapture" /\ hand[p].op = "remove" => displaced = journal.expected)
      /\ (hand[p].step = "unjournal" => displaced = Absent)
  BY DEF StepAgrees, AtFinish, _finish_transaction
<1>2. PICK s \in {"unjournal", "over"} :
        /\ GoTo(p, s)
        /\ s = "unjournal" => hand[p].step = "uncapture" /\ displaced' = Absent /\ journal' = journal
        /\ s = "over" => hand[p].step = "unjournal" /\ journal' = NoJournal /\ displaced' = displaced
  BY <1>1 DEF _finish_transaction, Over, NextStep
<1>3. /\ hand'[p].op = hand[p].op /\ hand'[p].step = s
      /\ hand'[p].expected = hand[p].expected /\ hand'[p].desired = hand[p].desired
  BY <1>2, HandGoes DEF HandSteps
<1>4. hand'[p].step \in {"unjournal", "over"} /\ hand'[p].op # "none"
  BY <1>3 DEF StepAgrees
<1>5. FilesAgree'
  BY <1>1, <1>3, <1>2 DEF Unhooked, KeepsEdit, FilesAgree, _finish_transaction
<1>6. StepAgrees(p)'
  <2>1. AtFinish(p)'
    BY <1>1, <1>3, <1>2 DEF FilesAgree, AtFinish, _finish_transaction, GoTo, Over
  <2>2. AtRead(p)' /\ AtDocument(p)' /\ AtJournal(p)' /\ AtReplace(p)' /\ AtSwap(p)' /\ AtExchange(p)' /\ AtVerify(p)' /\ AtPutBack(p)' /\ AtRecord(p)' /\ AtForget(p)'
    BY <1>4 DEF AtRead, AtDocument, AtJournal, AtReplace, AtSwap, AtExchange, AtVerify, AtPutBack, AtRecord, AtForget
  <2>3. hand'[p].op # "none" /\ hand'[p].step # "none"
    BY <1>4
  <2> QED BY <2>1, <2>2, <2>3 DEF StepAgrees
<1>7. EditsSurvive'
  BY <1>1, <1>3, <1>2, NoTextIsOld DEF EditsSurvive, FilesAgree, Shared, _finish_transaction
<1>8. HookIsNamed'
  BY <1>1, <1>3, <1>2 DEF HookIsNamed, FilesAgree, Shared, _finish_transaction
<1> QED BY <1>5, <1>6, <1>7, <1>8

\* One row is written.
LEMMA RowGoes ==
    ASSUME SettingsTyped, NEW p \in Hands, NEW slip \in HandRows, hand' = [hand EXCEPT ![p] = slip]
    PROVE  /\ hand' \in [Hands -> HandRows] /\ hand'[p] = slip
           /\ \A q \in Hands : q # p => hand'[q] = hand[q]
<1>1. hand \in [Hands -> HandRows] BY DEF SettingsTyped
<1> QED BY <1>1

\* wire looks at what was left behind.
LEMMA InstallCheckKeeps ==
    ASSUME SettingsTyped, NEW p \in Hands, ~Shared, Agrees(p), install_check(p)
    PROVE  Agrees(p)'
<1> USE DEF Agrees
<1>1. hand[p] \in HandRows /\ hand[p].op = "install"
  BY DEF SettingsTyped, install_check
<1>2. PICK s \in {"uncapture", "over", "read", "backup"}, slip \in HandRows :
        /\ hand' = [hand EXCEPT ![p] = slip] /\ slip.op = "install" /\ slip.step = s
        /\ s = "uncapture" => manifest # NoManifest /\ journal.op = "install" /\ CarriedOut /\ journal' = journal
        /\ s = "over" => journal' = journal
        /\ s = "read" => /\ manifest = NoManifest /\ journal' = NoJournal
                         /\ journal = NoJournal \/ (journal.op = "install" /\ NotBegun)
        /\ s = "backup" => /\ manifest = NoManifest /\ journal.op = "install" /\ CarriedOut /\ journal' = journal
                           /\ slip.expected = journal.expected /\ slip.desired = journal.desired
  <2>1. journal.expected \in Contents /\ journal.desired \in Contents
    BY DEF SettingsTyped
  <2> DEFINE Slip(t) == [hand[p] EXCEPT !.step = t]
             Full(t) == [hand[p] EXCEPT !.step = t, !.expected = journal.expected, !.desired = journal.desired]
  <2>2. \A t \in HandSteps : Slip(t) \in HandRows /\ Slip(t).op = "install" /\ Slip(t).step = t
    BY <1>1 DEF HandRows
  <2>3. \A t \in HandSteps : /\ Full(t) \in HandRows /\ Full(t).op = "install" /\ Full(t).step = t
                             /\ Full(t).expected = journal.expected /\ Full(t).desired = journal.desired
    BY <1>1, <2>1 DEF HandRows
  <2>4. {"uncapture", "over", "read", "backup"} \subseteq HandSteps
    BY DEF HandSteps
  <2>5. \/ /\ hand' = [hand EXCEPT ![p] = Slip("uncapture")]
           /\ manifest # NoManifest /\ journal.op = "install" /\ CarriedOut /\ journal' = journal
        \/ /\ hand' = [hand EXCEPT ![p] = Slip("over")] /\ journal' = journal
        \/ /\ hand' = [hand EXCEPT ![p] = Slip("read")] /\ manifest = NoManifest /\ journal' = NoJournal
           /\ journal = NoJournal \/ (journal.op = "install" /\ NotBegun)
        \/ /\ hand' = [hand EXCEPT ![p] = Full("backup")]
           /\ manifest = NoManifest /\ journal.op = "install" /\ CarriedOut /\ journal' = journal
    BY DEF install_check
  <2> HIDE DEF Slip, Full
  <2>6. "uncapture" # "over" /\ "uncapture" # "read" /\ "uncapture" # "backup" /\ "over" # "read" /\ "over" # "backup" /\ "read" # "backup"
    OBVIOUS
  <2>7. CASE hand' = [hand EXCEPT ![p] = Slip("uncapture")] /\ manifest # NoManifest /\ journal.op = "install" /\ CarriedOut /\ journal' = journal
    <3>1. Slip("uncapture") \in HandRows /\ Slip("uncapture").op = "install" /\ Slip("uncapture").step = "uncapture"
      BY <2>2, <2>4
    <3> QED BY <3>1, <2>7, <2>6
  <2>8. CASE hand' = [hand EXCEPT ![p] = Slip("over")] /\ journal' = journal
    <3>1. Slip("over") \in HandRows /\ Slip("over").op = "install" /\ Slip("over").step = "over"
      BY <2>2, <2>4
    <3> QED BY <3>1, <2>8, <2>6
  <2>9. CASE hand' = [hand EXCEPT ![p] = Slip("read")] /\ manifest = NoManifest /\ journal' = NoJournal
                /\ (journal = NoJournal \/ (journal.op = "install" /\ NotBegun))
    <3>1. Slip("read") \in HandRows /\ Slip("read").op = "install" /\ Slip("read").step = "read"
      BY <2>2, <2>4
    <3> QED BY <3>1, <2>9, <2>6
  <2>10. CASE hand' = [hand EXCEPT ![p] = Full("backup")] /\ manifest = NoManifest /\ journal.op = "install" /\ CarriedOut /\ journal' = journal
    <3>1. Full("backup") \in HandRows /\ Full("backup").op = "install" /\ Full("backup").step = "backup"
          /\ Full("backup").expected = journal.expected /\ Full("backup").desired = journal.desired
      BY <2>3, <2>4
    <3> QED BY <3>1, <2>10, <2>6
  <2> QED BY <2>5, <2>7, <2>8, <2>9, <2>10
<1>3. hand'[p].op = "install" /\ hand'[p].step = s
      /\ hand'[p].expected = slip.expected /\ hand'[p].desired = slip.desired
  BY <1>2, RowGoes
<1>4. FilesAgree'
  BY <1>2 DEF Unhooked, KeepsEdit, FilesAgree, install_check
<1>5. StepAgrees(p)'
  <2>1. AtRead(p)'
    BY <1>2, <1>3 DEF AtRead, install_check
  <2>2. AtRecord(p)'
    <3>1. CASE s = "backup"
      <4>1. /\ Unhooked(journal.expected, journal.desired) /\ KeepsEdit(journal.expected, journal.desired)
            /\ settings = journal.desired /\ displaced = journal.expected
        BY <1>2, <3>1 DEF FilesAgree
      <4>2. ~journal.expected.hook
        BY <4>1 DEF Unhooked
      <4>3. Covers(journal.expected, journal.desired)
        BY <4>1 DEF KeepsEdit
      <4>4. Entry(p)' = journal
        <5>1. journal \in [op : Operations, expected : Contents, desired : Contents]
          BY DEF SettingsTyped
        <5> QED BY <1>2, <1>3, <3>1, <5>1
      <4> QED BY <1>2, <1>3, <3>1, <4>1, <4>2, <4>3, <4>4 DEF AtRecord, install_check
    <3> QED BY <1>2, <1>3, <3>1 DEF AtRecord
  <2>3. AtFinish(p)'
    BY <1>2, <1>3 DEF AtFinish, install_check
  <2>4. AtDocument(p)' /\ AtJournal(p)' /\ AtReplace(p)' /\ AtSwap(p)' /\ AtExchange(p)' /\ AtVerify(p)' /\ AtPutBack(p)' /\ AtForget(p)'
    BY <1>2, <1>3 DEF AtDocument, AtJournal, AtReplace, AtSwap, AtExchange, AtVerify, AtPutBack, AtForget
  <2> QED BY <1>2, <1>3, <2>1, <2>2, <2>3, <2>4 DEF StepAgrees
<1>6. EditsSurvive'
  BY DEF EditsSurvive, Shared, install_check
<1>7. HookIsNamed'
  BY <1>2 DEF HookIsNamed, FilesAgree, Unhooked, Shared, install_check
<1> QED BY <1>4, <1>5, <1>6, <1>7

\* wire reads the file.
LEMMA PrepareKeeps ==
    ASSUME SettingsTyped, NEW p \in Hands, ~Shared, Agrees(p), prepare(p)
    PROVE  Agrees(p)'
<1> USE DEF Agrees
<1>1. /\ hand[p] \in HandRows /\ hand[p].op = "install" /\ settings \in Contents /\ latest \in Nat
      /\ manifest = NoManifest /\ journal = NoJournal
  BY DEF SettingsTyped, prepare, StepAgrees, AtRead
<1>2. displaced = Absent /\ backup = Absent
  BY <1>1 DEF FilesAgree
<1>3. FilesAgree' /\ EditsSurvive' /\ HookIsNamed'
  BY DEF FilesAgree, Unhooked, KeepsEdit, EditsSurvive, HookIsNamed, Shared, prepare
<1>4. CASE hand[p].step = "read"
  <2>1. hand'[p].op = "install" /\ hand'[p].step = "document" /\ hand'[p].expected = settings
    <3>1. [hand[p] EXCEPT !.expected = settings, !.step = "document"] \in HandRows
      BY <1>1 DEF HandRows, HandSteps
    <3>2. hand' = [hand EXCEPT ![p] = [hand[p] EXCEPT !.expected = settings, !.step = "document"]]
      BY <1>4 DEF prepare
    <3>3. hand'[p] = [hand[p] EXCEPT !.expected = settings, !.step = "document"]
      BY <3>1, <3>2, RowGoes
    <3> QED BY <1>1, <3>3 DEF HandRows
  <2> QED
    BY <1>1, <1>3, <2>1 DEF prepare, StepAgrees, AtRead, AtDocument, AtJournal, AtReplace, AtSwap, AtExchange, AtVerify, AtPutBack, AtRecord, AtForget, AtFinish
<1>5. CASE hand[p].step = "document"
  <2>1. OrEdited(hand[p].expected)
    BY <1>5 DEF StepAgrees, AtDocument
  <2>2. WithHook(settings) \in Contents /\ WithHook(settings).hook = TRUE
    <3>1. PICK b \in BOOLEAN : b = TRUE
      OBVIOUS
    <3>2. (IF settings = Absent THEN 0 ELSE settings.text) \in -1 .. MaxEdits
      BY <1>1, HandsAssumption DEF Contents
    <3>3. WithHook(settings) = [text |-> IF settings = Absent THEN 0 ELSE settings.text, hook |-> b]
      BY <3>1 DEF WithHook
    <3> QED BY <3>1, <3>2, <3>3 DEF Contents
  <2>3. PICK s \in {"over", "journal"} :
          /\ hand' = [hand EXCEPT ![p] = [@ EXCEPT !.desired = WithHook(settings), !.step = s]]
          /\ s = "journal" => settings.hook = FALSE
    BY <1>1, <1>5 DEF prepare, Contents
  <2>4. /\ hand'[p].op = "install" /\ hand'[p].step = s
        /\ hand'[p].expected = hand[p].expected /\ hand'[p].desired = WithHook(settings)
    <3>1. [hand[p] EXCEPT !.desired = WithHook(settings), !.step = s] \in HandRows
      BY <1>1, <2>2 DEF HandRows, HandSteps
    <3> QED BY <1>1, <2>3, <3>1, RowGoes DEF HandRows
  <2>5. AtJournal(p)'
    <3>1. CASE s = "over" BY <2>4, <3>1 DEF AtJournal
    <3>2. CASE s = "journal"
      <4>1. Operating(p)' /\ journal' = NoJournal /\ OrEdited(hand[p].expected)'
        BY <1>1, <1>2, <2>1, <2>2, <2>4 DEF prepare
      <4>2. settings # WithHook(settings) /\ (hand[p].expected.hook => settings # hand[p].expected)
        BY <2>2, <2>3, <3>2
      <4>3. settings = hand[p].expected => Covers(hand[p].expected, WithHook(settings))
        BY <1>1 DEF WithHook
      <4> QED BY <4>1, <4>2, <4>3, <2>4 DEF AtJournal, prepare
    <3> QED BY <3>1, <3>2
  <2>6. AtRead(p)' /\ AtDocument(p)' /\ AtReplace(p)' /\ AtSwap(p)' /\ AtExchange(p)' /\ AtVerify(p)' /\ AtPutBack(p)' /\ AtRecord(p)' /\ AtForget(p)' /\ AtFinish(p)'
    BY <2>4 DEF AtRead, AtDocument, AtReplace, AtSwap, AtExchange, AtVerify, AtPutBack, AtRecord, AtForget, AtFinish
  <2> QED BY <1>3, <2>4, <2>5, <2>6 DEF StepAgrees
<1> QED BY <1>4, <1>5 DEF prepare

\* unwire looks at what was left behind.
LEMMA RemoveCheckKeeps ==
    ASSUME SettingsTyped, NEW p \in Hands, ~Shared, Agrees(p), remove_check(p)
    PROVE  Agrees(p)'
<1> USE DEF Agrees
<1>1. hand[p] \in HandRows /\ hand[p].op = "remove" /\ settings \in Contents /\ manifest.prior \in Contents
  BY DEF SettingsTyped, remove_check
<1>2. PICK s \in {"unbackup", "over", "late_unbackup", "journal"} :
        /\ hand' = [hand EXCEPT ![p] = [@ EXCEPT !.step = s, !.expected = settings, !.desired = manifest.prior]]
        /\ s = "unbackup" => manifest = NoManifest /\ journal.op = "remove" /\ CarriedOut /\ journal' = journal
        /\ s = "late_unbackup" => journal.op = "remove" /\ CarriedOut /\ journal' = journal
        /\ s = "over" => journal' = journal \/ (journal' = NoJournal /\ manifest # NoManifest /\ journal.op = "remove" /\ NotBegun
                                                /\ (manifest.prior # Absent => backup = manifest.prior))
        /\ s = "journal" => /\ manifest # NoManifest /\ manifest.installed = settings /\ journal' = NoJournal
                            /\ manifest.prior # Absent => backup = manifest.prior
                            /\ journal = NoJournal \/ (journal.op = "remove" /\ NotBegun)
  BY DEF remove_check
<1>3. /\ hand'[p].op = "remove" /\ hand'[p].step = s
      /\ hand'[p].expected = settings /\ hand'[p].desired = manifest.prior
  <2>1. [hand[p] EXCEPT !.step = s, !.expected = settings, !.desired = manifest.prior] \in HandRows
    BY <1>1 DEF HandRows, HandSteps
  <2> QED BY <1>1, <1>2, <2>1, RowGoes DEF HandRows
<1>4. FilesAgree'
  BY <1>2 DEF Unhooked, KeepsEdit, FilesAgree, remove_check
<1>5. StepAgrees(p)'
  <2>1. AtJournal(p)'
    BY <1>2, <1>3 DEF FilesAgree, AtJournal, remove_check
  <2>2. AtForget(p)'
    BY <1>2, <1>3 DEF AtForget, remove_check
  <2>3. AtRead(p)' /\ AtDocument(p)' /\ AtReplace(p)' /\ AtSwap(p)' /\ AtExchange(p)' /\ AtVerify(p)' /\ AtPutBack(p)' /\ AtRecord(p)' /\ AtFinish(p)'
    BY <1>2, <1>3 DEF AtRead, AtDocument, AtReplace, AtSwap, AtExchange, AtVerify, AtPutBack, AtRecord, AtFinish
  <2> QED BY <1>2, <1>3, <2>1, <2>2, <2>3 DEF StepAgrees
<1>6. EditsSurvive'
  BY DEF EditsSurvive, Shared, remove_check
<1>7. HookIsNamed'
  BY <1>2 DEF HookIsNamed, FilesAgree, Shared, remove_check
<1> QED BY <1>4, <1>5, <1>6, <1>7

\* The process p has moved to this row.
MovesTo(p, slip) == /\ slip \in HandRows /\ hand' = [hand EXCEPT ![p] = slip]
                /\ slip.op = hand[p].op /\ slip.step # "none" /\ Dated(slip.expected) /\ Dated(slip.desired)

\* One step of a process moves its row only.
LEMMA StepRow ==
    ASSUME SettingsTyped, AllDated, NEW p \in Hands, NEW s \in HandSteps, s # "none", GoTo(p, s)
    PROVE  MovesTo(p, [hand[p] EXCEPT !.step = s])
<1>1. hand[p] \in HandRows BY DEF SettingsTyped
<1>2. Dated(hand[p].expected) /\ Dated(hand[p].desired) BY DEF AllDated
<1> QED BY <1>1, <1>2 DEF HandRows, GoTo, MovesTo

\* Every step of the code writes the row of its process, and no content newer than the last edit.
LEMMA WorkRow ==
    ASSUME SettingsTyped, AllDated, NEW p \in Hands, Works(p)
    PROVE  \E slip \in HandRows : MovesTo(p, slip)
<1>1. ASSUME NEW s \in HandSteps, s # "none", GoTo(p, s)
      PROVE  \E slip \in HandRows : MovesTo(p, slip)
  BY <1>1, StepRow DEF MovesTo
<1>2. /\ hand[p] \in HandRows /\ settings \in Contents /\ journal.expected \in Contents /\ journal.desired \in Contents
      /\ manifest.prior \in Contents /\ edits \in 0..MaxEdits
  BY DEF SettingsTyped
<1>3. Dated(hand[p].expected) /\ Dated(hand[p].desired) /\ Dated(settings) /\ Dated(journal.expected) /\ Dated(journal.desired)
      /\ Dated(manifest.prior)
  BY DEF AllDated
<1>4. ASSUME install_check(p) PROVE \E slip \in HandRows : MovesTo(p, slip)
  <2>1. ASSUME NEW t \in HandSteps, t # "none", hand' = [hand EXCEPT ![p] = [@ EXCEPT !.step = t, !.expected = journal.expected, !.desired = journal.desired]]
        PROVE  \E slip \in HandRows : MovesTo(p, slip)
    <3>1. MovesTo(p, [hand[p] EXCEPT !.step = t, !.expected = journal.expected, !.desired = journal.desired])
      BY <1>2, <1>3, <2>1 DEF HandRows, MovesTo
    <3> QED BY <3>1 DEF MovesTo
  <2>2. ASSUME NEW t \in HandSteps, t # "none", hand' = [hand EXCEPT ![p] = [@ EXCEPT !.step = t]]
        PROVE  \E slip \in HandRows : MovesTo(p, slip)
    BY <1>1, <2>2 DEF GoTo
  <2>3. PICK t \in {"uncapture", "over", "read", "backup"} :
             \/ hand' = [hand EXCEPT ![p] = [@ EXCEPT !.step = t, !.expected = journal.expected, !.desired = journal.desired]]
             \/ hand' = [hand EXCEPT ![p] = [@ EXCEPT !.step = t]]
    BY <1>4 DEF install_check
  <2> QED BY <2>1, <2>2, <2>3 DEF HandSteps
<1>5. ASSUME remove_check(p) PROVE \E slip \in HandRows : MovesTo(p, slip)
  <2>1. PICK t \in {"unbackup", "over", "late_unbackup", "journal"} :
             hand' = [hand EXCEPT ![p] = [@ EXCEPT !.step = t, !.expected = settings, !.desired = manifest.prior]]
    BY <1>5 DEF remove_check
  <2>2. MovesTo(p, [hand[p] EXCEPT !.step = t, !.expected = settings, !.desired = manifest.prior])
    BY <1>2, <1>3, <2>1 DEF HandRows, MovesTo, HandSteps
  <2> QED BY <2>2 DEF MovesTo
<1>6. ASSUME prepare(p) PROVE \E slip \in HandRows : MovesTo(p, slip)
  <2>1. CASE hand' = [hand EXCEPT ![p] = [@ EXCEPT !.expected = settings, !.step = "document"]]
    <3>1. MovesTo(p, [hand[p] EXCEPT !.expected = settings, !.step = "document"])
      BY <1>2, <1>3, <2>1 DEF HandRows, MovesTo, HandSteps
    <3> QED BY <3>1 DEF MovesTo
  <2>2. ASSUME NEW t \in {"over", "journal"}, hand' = [hand EXCEPT ![p] = [@ EXCEPT !.desired = WithHook(settings), !.step = t]]
        PROVE  \E slip \in HandRows : MovesTo(p, slip)
    <3>1. WithHook(settings) \in Contents
      <4>1. PICK b \in BOOLEAN : b = TRUE
        OBVIOUS
      <4>2. (IF settings = Absent THEN 0 ELSE settings.text) \in -1 .. MaxEdits
        BY <1>2, HandsAssumption DEF Contents
      <4>3. WithHook(settings) = [text |-> IF settings = Absent THEN 0 ELSE settings.text, hook |-> b]
        BY <4>1 DEF WithHook
      <4> QED BY <4>1, <4>2, <4>3 DEF Contents
    <3>2. Dated(WithHook(settings))
      <4>1. WithHook(settings).text = IF settings = Absent THEN 0 ELSE settings.text
        BY DEF WithHook
      <4>2. WithHook(settings).text <= edits /\ WithHook(settings).text # -1
        BY <1>2, <1>3, <4>1 DEF Dated, Contents
      <4> QED BY <4>2 DEF Dated
    <3>3. MovesTo(p, [hand[p] EXCEPT !.desired = WithHook(settings), !.step = t])
      BY <1>2, <1>3, <2>2, <3>1, <3>2 DEF HandRows, MovesTo, HandSteps
    <3> QED BY <3>3 DEF MovesTo
  <2> QED BY <1>6, <2>1, <2>2 DEF prepare
<1>7. ASSUME ~install_check(p), ~remove_check(p), ~prepare(p)
      PROVE  \E s \in HandSteps : s # "none" /\ GoTo(p, s)
  BY <1>7 DEF Works, write_journal, create, take_away, write_replacement, exchange, verify, put_back, write_backup, write_manifest,
              unlink_manifest, unlink_backup, _finish_transaction, NextStep, Over, HandSteps
<1> QED BY <1>1, <1>4, <1>5, <1>6, <1>7

\* Every step of the code writes files that are typed, and no newer than the last edit.
LEMMA WorkFiles ==
    ASSUME SettingsTyped, AllDated, NEW p \in Hands, Works(p)
    PROVE  /\ {settings', displaced', backup'} \subseteq Contents /\ placed' \in BOOLEAN
           /\ journal' \in [op : Operations, expected : Contents, desired : Contents]
           /\ manifest' \in [prior : Contents, installed : Contents]
           /\ Dated(settings') /\ Dated(displaced') /\ Dated(backup') /\ Dated(journal'.expected) /\ Dated(journal'.desired)
           /\ Dated(manifest'.prior) /\ Dated(manifest'.installed)
<1>1. /\ {settings, displaced, backup} \subseteq Contents /\ placed \in BOOLEAN
      /\ journal \in [op : Operations, expected : Contents, desired : Contents]
      /\ manifest \in [prior : Contents, installed : Contents]
      /\ hand[p] \in HandRows /\ edits \in 0..MaxEdits
  BY DEF SettingsTyped
<1>2. /\ Dated(settings) /\ Dated(displaced) /\ Dated(backup) /\ Dated(journal.expected) /\ Dated(journal.desired)
      /\ Dated(manifest.prior) /\ Dated(manifest.installed) /\ Dated(hand[p].expected) /\ Dated(hand[p].desired)
  BY DEF AllDated
<1>3. hand[p].op \in Operations /\ hand[p].expected \in Contents /\ hand[p].desired \in Contents
  BY <1>1 DEF HandRows
<1>4. Absent \in Contents /\ Dated(Absent)
  <2>1. PICK b \in BOOLEAN : b = FALSE
    OBVIOUS
  <2>2. -1 \in -1 .. MaxEdits /\ -1 <= edits
    BY <1>1, HandsAssumption
  <2>3. Absent = [text |-> -1, hook |-> b]
    BY <2>1
  <2> QED BY <2>1, <2>2, <2>3 DEF Contents, Dated
<1>5. "none" \in Operations
  BY DEF Operations
<1>6. /\ settings' \in {settings, displaced, hand[p].desired, Absent}
      /\ displaced' \in {settings, displaced, hand[p].desired, Absent}
      /\ backup' \in {backup, displaced, Absent}
      /\ journal' \in {journal, NoJournal, Entry(p)}
      /\ manifest' \in {manifest, NoManifest, [prior |-> Displaced(p), installed |-> hand[p].desired]}
      /\ placed' \in {placed, TRUE, FALSE}
  <2> HIDE DEF Absent, NoJournal, NoManifest, Entry, CarriedOut, NotBegun, Displaced
  <2>1. Displaced(p) \in {displaced, Absent}
    BY DEF Displaced
  <2> QED
    BY <2>1 DEF Works, install_check, prepare, remove_check, write_journal, create, take_away, write_replacement, exchange, verify, put_back,
              write_backup, write_manifest, unlink_manifest, unlink_backup, _finish_transaction
<1>7. settings' \in Contents /\ displaced' \in Contents /\ backup' \in Contents /\ Dated(settings') /\ Dated(displaced') /\ Dated(backup')
  BY <1>1, <1>2, <1>3, <1>4, <1>6
<1>8. journal' \in [op : Operations, expected : Contents, desired : Contents] /\ Dated(journal'.expected) /\ Dated(journal'.desired)
  <2>1. CASE journal' = journal
    BY <1>1, <1>2, <2>1
  <2>2. CASE journal' = NoJournal
    <3> HIDE DEF Absent
    <3> QED BY <1>4, <1>5, <2>2
  <2>3. CASE journal' = Entry(p)
    BY <1>2, <1>3, <2>3
  <2> QED BY <1>6, <2>1, <2>2, <2>3
<1>9. manifest' \in [prior : Contents, installed : Contents] /\ Dated(manifest'.prior) /\ Dated(manifest'.installed)
  <2>1. CASE manifest' = manifest
    BY <1>1, <1>2, <2>1
  <2>2. CASE manifest' = NoManifest
    <3> HIDE DEF Absent
    <3> QED BY <1>4, <2>2
  <2>3. CASE manifest' = [prior |-> Displaced(p), installed |-> hand[p].desired]
    <3>1. Displaced(p) \in Contents /\ Dated(Displaced(p))
      <4> HIDE DEF Absent
      <4> QED BY <1>1, <1>2, <1>4
    <3> HIDE DEF Displaced
    <3> QED BY <1>2, <1>3, <2>3, <3>1
  <2> QED BY <1>6, <2>1, <2>2, <2>3
<1> QED BY <1>1, <1>6, <1>7, <1>8, <1>9

\* A process that is inside the lock alone.
LEMMA WorkSteps ==
    ASSUME SettingsInv, NEW p \in Hands, Works(p)
    PROVE  SettingsInv'
<1>1. SettingsTyped /\ AllDated
  BY DEF SettingsInv
<1>2. PICK slip \in HandRows : MovesTo(p, slip)
  BY <1>1, WorkRow
<1>3. /\ hand' \in [Hands -> HandRows] /\ hand'[p] = slip
      /\ \A q \in Hands : q # p => hand'[q] = hand[q]
  BY <1>1, <1>2, RowGoes DEF MovesTo
<1>4. handAt[p] = "in" /\ Outside
  BY DEF Works, install_check, prepare, remove_check, write_journal, create, take_away, write_replacement, exchange, verify, put_back,
         write_backup, write_manifest, unlink_manifest, unlink_backup, _finish_transaction
<1>5. SettingsTyped'
  BY <1>1, <1>3, <1>4, WorkFiles DEF SettingsTyped
<1>6. AllDated'
  <2>1. \A q \in Hands : Dated(hand'[q].expected) /\ Dated(hand'[q].desired)
    BY <1>1, <1>2, <1>3 DEF AllDated, MovesTo
  <2> QED BY <1>1, <1>4, <2>1, WorkFiles DEF AllDated, Dated
<1>7. \A q \in Hands : handAt'[q] # "in" => hand'[q].step \in {"none", "check"}
  BY <1>3, <1>4 DEF SettingsInv
<1>8. \A q \in Hands : handAt'[q] # "out" => hand'[q].op # "none" /\ hand'[q].step # "none"
  BY <1>2, <1>3, <1>4 DEF SettingsInv, MovesTo
<1>9. ~crowded' => \A q, r \in Hands : handAt'[q] = "in" /\ handAt'[r] = "in" => q = r
  BY <1>4 DEF SettingsInv
<1>10. ASSUME ~Shared' PROVE FilesAgree' /\ (\A q \in Hands : handAt'[q] = "in" => StepAgrees(q)') /\ EditsSurvive' /\ HookIsNamed'
  <2>1. ~Shared
    BY <1>4, <1>10 DEF Shared
  <2>2. Agrees(p)
    BY <1>4, <2>1 DEF SettingsInv, Agrees
  <2>3. Agrees(p)'
    BY <1>1, <2>1, <2>2, InstallCheckKeeps, PrepareKeeps, RemoveCheckKeeps, WriteJournalKeeps, CreateKeeps, TakeAwayKeeps, WriteReplacementKeeps,
       ExchangeKeeps, VerifyKeeps, PutBackKeeps, WriteBackupKeeps, WriteManifestKeeps, UnlinkManifestKeeps, UnlinkBackupKeeps, FinishTransactionKeeps DEF Works
  <2>4. \A q \in Hands : handAt'[q] = "in" => q = p
    BY <1>4, <1>9, <1>10 DEF Shared
  <2> QED BY <2>3, <2>4 DEF Agrees
<1> QED BY <1>5, <1>6, <1>7, <1>8, <1>9, <1>10 DEF SettingsInv

\* A step that leaves the files alone leaves what is said of them.
LEMMA FilesRest ==
    ASSUME Still, UNCHANGED latest, edits' = edits
    PROVE  /\ FilesAgree => FilesAgree'
           /\ EditsSurvive /\ (Shared => Shared') => EditsSurvive'
           /\ HookIsNamed /\ (Shared => Shared') => HookIsNamed'
           /\ \A q \in Hands : StepAgrees(q) /\ hand'[q] = hand[q] => StepAgrees(q)'
<1>1. FilesAgree => FilesAgree'
  BY DEF FilesAgree, Unhooked, KeepsEdit
<1>2. EditsSurvive /\ (Shared => Shared') => EditsSurvive'
  BY DEF EditsSurvive
<1>3. HookIsNamed /\ (Shared => Shared') => HookIsNamed'
  BY DEF HookIsNamed
<1>4. ASSUME NEW q \in Hands, StepAgrees(q), hand'[q] = hand[q] PROVE StepAgrees(q)'
  BY <1>4 DEF StepAgrees, AtRead, AtDocument, AtJournal, AtReplace, AtSwap, AtExchange, AtVerify, AtPutBack, AtRecord, AtForget, AtFinish
<1> QED BY <1>1, <1>2, <1>3, <1>4

\* What a step that leaves the files alone still owes: the processes and the lock.
LEMMA HandsStep ==
    ASSUME SettingsInv, Still, UNCHANGED <<edits, latest, overrun>>, crowded => crowded', crowded' \in BOOLEAN,
           NEW p \in Hands, NEW slip \in HandRows, hand' = [hand EXCEPT ![p] = slip], Dated(slip.expected), Dated(slip.desired),
           NEW place \in LockPlaces, handAt' = [handAt EXCEPT ![p] = place],
           slip = hand[p] \/ place # "in", place # "in" => slip.step \in {"none", "check"},
           place # "out" => slip.op # "none" /\ slip.step # "none",
           place = "in" => (handAt[p] # "out" /\ (~crowded' => \A q \in Hands : handAt[q] = "in" => q = p)),
           handAt[p] # "in" => slip.step \in {"none", "check"}
    PROVE  SettingsInv'
<1>1. SettingsTyped /\ AllDated
  BY DEF SettingsInv
<1>2. /\ hand' \in [Hands -> HandRows] /\ hand'[p] = slip
      /\ \A q \in Hands : q # p => hand'[q] = hand[q]
  BY <1>1, RowGoes
<1>3. /\ handAt' \in [Hands -> LockPlaces] /\ handAt'[p] = place
      /\ \A q \in Hands : q # p => handAt'[q] = handAt[q]
  BY <1>1 DEF SettingsTyped
<1>4. SettingsTyped'
  BY <1>1, <1>2, <1>3 DEF SettingsTyped
<1>5. AllDated'
  <2>1. \A q \in Hands : Dated(hand'[q].expected) /\ Dated(hand'[q].desired)
    BY <1>1, <1>2 DEF AllDated
  <2> QED BY <1>1, <2>1 DEF AllDated, Dated
<1>6. \A q \in Hands : handAt'[q] # "in" => hand'[q].step \in {"none", "check"}
  BY <1>2, <1>3 DEF SettingsInv
<1>7. \A q \in Hands : handAt'[q] # "out" => hand'[q].op # "none" /\ hand'[q].step # "none"
  BY <1>2, <1>3 DEF SettingsInv
<1>8. ~crowded' => \A q, r \in Hands : handAt'[q] = "in" /\ handAt'[r] = "in" => q = r
  BY <1>3 DEF SettingsInv
<1>9. ASSUME ~Shared' PROVE FilesAgree' /\ (\A q \in Hands : handAt'[q] = "in" => StepAgrees(q)') /\ EditsSurvive' /\ HookIsNamed'
  <2>1. ~Shared
    BY <1>9 DEF Shared
  <2>2. FilesAgree' /\ EditsSurvive' /\ HookIsNamed'
    BY <1>9, <2>1, FilesRest DEF SettingsInv
  <2>3. ASSUME NEW q \in Hands, handAt'[q] = "in" PROVE StepAgrees(q)'
    <3>1. CASE handAt[q] = "in"
      <4>1. hand'[q] = hand[q]
        BY <1>2, <1>3, <2>3
      <4> QED BY <2>1, <3>1, <4>1, FilesRest DEF SettingsInv
    <3>2. CASE handAt[q] # "in"
      <4>1. q = p /\ hand'[q].step = "check" /\ hand'[q].op # "none"
        BY <1>2, <1>3, <2>3, <3>2
      <4> QED BY <4>1 DEF StepAgrees, AtRead, AtDocument, AtJournal, AtReplace, AtSwap, AtExchange, AtVerify, AtPutBack, AtRecord, AtForget, AtFinish
    <3> QED BY <3>1, <3>2
  <2> QED BY <2>2, <2>3
<1> QED BY <1>4, <1>5, <1>6, <1>7, <1>8, <1>9 DEF SettingsInv

\* Processes that come, go, die and restart.
LEMMA HandsMove ==
    ASSUME SettingsInv, NEW p \in Hands,
           Begins(p, "install") \/ Begins(p, "remove") \/ TakesLock(p) \/ Ends(p) \/ Dies(p) \/ Restarts(p)
    PROVE  SettingsInv'
<1>1. /\ SettingsTyped /\ hand[p] \in HandRows /\ handAt \in [Hands -> LockPlaces] /\ crowded \in BOOLEAN
      /\ Dated(hand[p].expected) /\ Dated(hand[p].desired) /\ edits \in 0..MaxEdits
      /\ handAt[p] # "in" => hand[p].step \in {"none", "check"}
      /\ handAt[p] # "out" => hand[p].op # "none" /\ hand[p].step # "none"
  BY DEF SettingsInv, SettingsTyped, AllDated
<1>2. Absent \in Contents /\ Dated(Absent)
  <2>1. PICK b \in BOOLEAN : b = FALSE
    OBVIOUS
  <2>2. -1 \in -1 .. MaxEdits /\ -1 <= edits
    BY <1>1, HandsAssumption
  <2>3. Absent = [text |-> -1, hook |-> b]
    BY <2>1
  <2> QED BY <2>1, <2>2, <2>3 DEF Contents, Dated
<1>3. ASSUME NEW deed \in {"none", "install", "remove"}, NEW s \in {"none", "check"}
      PROVE  LET slip == [op |-> deed, step |-> s, expected |-> Absent, desired |-> Absent]
             IN  slip \in HandRows /\ slip.op = deed /\ slip.step = s /\ Dated(slip.expected) /\ Dated(slip.desired)
  <2> HIDE DEF Absent
  <2> QED BY <1>2 DEF HandRows, Operations, HandSteps
<1>4. ASSUME NEW deed \in {"install", "remove"}, Begins(p, deed) PROVE SettingsInv'
  <2> DEFINE slip == [NoOperation EXCEPT !.op = deed, !.step = "check"]
  <2>1. slip \in HandRows /\ slip.op = deed /\ slip.step = "check" /\ Dated(slip.expected) /\ Dated(slip.desired)
    <3>1. NoOperation \in HandRows /\ NoOperation.expected = Absent /\ NoOperation.desired = Absent
      BY <1>3 DEF NoOperation
    <3> HIDE DEF Absent
    <3> QED BY <1>2, <3>1 DEF HandRows, Operations, HandSteps
  <2>2. hand' = [hand EXCEPT ![p] = slip]
    BY <1>4 DEF Begins
  <2> HIDE DEF slip
  <2> QED BY <1>1, <1>4, <2>1, <2>2, HandsStep DEF Begins, LockPlaces
<1>5. ASSUME TakesLock(p) PROVE SettingsInv'
  <2>1. hand' = [hand EXCEPT ![p] = hand[p]]
    BY <1>1, <1>5 DEF TakesLock, SettingsTyped
  <2>2. PICK place \in LockPlaces : handAt' = [handAt EXCEPT ![p] = place] /\ place # "out" /\ handAt[p] # "out" /\ handAt[p] # "in"
    BY <1>5 DEF TakesLock, Lock!Contends, Lock!Opens, Lock!Signs, Lock!Refused, Lock!Looks, Lock!Unlinks, LockPlaces
  <2>3. place = "in" /\ ~crowded' => \A q \in Hands : handAt[q] = "in" => q = p
    BY <1>1, <1>5, <2>2 DEF TakesLock
  <2>4. crowded' \in BOOLEAN /\ (crowded => crowded')
    BY <1>1, <1>5 DEF TakesLock
  <2> QED BY <1>1, <1>5, <2>1, <2>2, <2>3, <2>4, HandsStep DEF TakesLock
<1>6. ASSUME Ends(p) \/ Dies(p) PROVE SettingsInv'
  <2> DEFINE slip == [op |-> "none", step |-> "none", expected |-> Absent, desired |-> Absent]
  <2>1. slip \in HandRows /\ slip.op = "none" /\ slip.step = "none" /\ Dated(slip.expected) /\ Dated(slip.desired)
    BY <1>3
  <2>2. hand' = [hand EXCEPT ![p] = slip] /\ handAt' = [handAt EXCEPT ![p] = "out"]
    <3> HIDE DEF Absent
    <3> QED BY <1>6 DEF Ends, Dies, NoOperation, Lock!Leaves, Lock!GivesUp
  <2> HIDE DEF slip
  <2> QED BY <1>1, <1>6, <2>1, <2>2, HandsStep DEF Ends, Dies, LockPlaces
<1>7. ASSUME Restarts(p) PROVE SettingsInv'
  <2>1. hand' = [hand EXCEPT ![p] = hand[p]] /\ handAt' = [handAt EXCEPT ![p] = handAt[p]]
    BY <1>1, <1>7 DEF Restarts, SettingsTyped
  <2> QED BY <1>1, <1>7, <2>1, HandsStep DEF Restarts, SettingsInv
<1> QED BY <1>4, <1>5, <1>6, <1>7

\* The program the file belongs to writes it: no content that is recorded anywhere is as new.
LEMMA EditSteps ==
    ASSUME SettingsInv, EditedOutside
    PROVE  SettingsInv'
<1>1. SettingsTyped /\ AllDated
  BY DEF SettingsInv
<1>2. edits \in Int /\ edits >= 0 /\ edits + 1 <= MaxEdits /\ edits' = edits + 1 /\ latest \in 0..edits /\ settings \in Contents
  BY <1>1, HandsAssumption DEF EditedOutside, SettingsTyped
<1>3. /\ settings' \in Contents /\ settings'.text <= edits' /\ Dated(settings)'
      /\ \/ latest' = edits' /\ settings'.text = edits'
         \/ latest' = 0 /\ settings # Absent /\ settings' = Absent
  <2>1. CASE \E h \in {FALSE, settings.hook} :
             settings' = [text |-> edits + 1, hook |-> h] /\ latest' = edits + 1
    <3>1. PICK h \in BOOLEAN : settings' = [text |-> edits + 1, hook |-> h] /\ latest' = edits + 1
      BY <1>2, <2>1 DEF Contents
    <3>2. edits + 1 \in -1 .. MaxEdits /\ edits + 1 # -1
      BY <1>2, HandsAssumption
    <3>3. settings'.text = edits + 1
      BY <3>1
    <3> QED BY <1>2, <3>1, <3>2, <3>3 DEF Contents, Dated
  <2>2. CASE settings # Absent /\ settings' = Absent /\ latest' = 0
    <3>1. PICK b \in BOOLEAN : b = FALSE
      OBVIOUS
    <3>2. -1 \in -1 .. MaxEdits /\ -1 <= edits'
      BY <1>2, HandsAssumption
    <3>3. Absent = [text |-> -1, hook |-> b]
      BY <3>1
    <3> QED BY <2>2, <3>1, <3>2, <3>3 DEF Contents, Dated
  <2> QED BY <2>1, <2>2 DEF EditedOutside
<1>4. SettingsTyped'
  <2>1. overrun' \in BOOLEAN /\ placed' \in BOOLEAN
    BY <1>1 DEF EditedOutside, SettingsTyped
  <2> QED BY <1>1, <1>2, <1>3, <2>1 DEF EditedOutside, SettingsTyped
<1>5. ASSUME NEW c \in Contents, Dated(c) PROVE Dated(c)' /\ (latest' # 0 => c.text # latest') /\ (settings' = c => c = Absent)
  BY <1>2, <1>3, <1>5 DEF Dated, Contents
<1>6. /\ Dated(displaced)' /\ Dated(backup)' /\ Dated(journal.expected)' /\ Dated(journal.desired)'
      /\ Dated(manifest.prior)' /\ Dated(manifest.installed)'
      /\ \A p \in Hands : Dated(hand[p].expected)' /\ Dated(hand[p].desired)'
  BY <1>1, <1>5 DEF AllDated, SettingsTyped, HandRows, EditedOutside
<1>7. AllDated'
  BY <1>3, <1>6 DEF AllDated, EditedOutside
<1>8. ASSUME ~Shared' PROVE FilesAgree' /\ (\A q \in Hands : handAt'[q] = "in" => StepAgrees(q)') /\ EditsSurvive' /\ HookIsNamed'
  <2>1. ~Shared /\ \A p \in Hands : ~Transacts(p, "put_back")
    BY <1>8 DEF Shared, EditedOutside
  <2>2. FilesAgree /\ (\A q \in Hands : handAt[q] = "in" => StepAgrees(q))
    BY <2>1 DEF SettingsInv
  <2>3. ~placed' /\ UpToDate(settings)' /\ EditsSurvive' /\ HookIsNamed'
    BY <1>3 DEF EditedOutside, EditsSurvive, HookIsNamed
  <2>4. ASSUME NEW c \in Contents, NEW d \in Contents, Dated(c), Dated(d)
        PROVE  Covers(d, c)' /\ (c.hook => settings' # c)
    BY <1>5, <2>4
  <2>5. /\ journal.expected \in Contents /\ journal.desired \in Contents /\ manifest.prior \in Contents /\ manifest.installed \in Contents
        /\ Dated(journal.expected) /\ Dated(journal.desired) /\ Dated(manifest.prior) /\ Dated(manifest.installed)
    BY <1>1 DEF SettingsTyped, AllDated
  <2>6. FilesAgree'
    <3>1. /\ Covers(journal.expected, journal.desired)' /\ Covers(journal.desired, journal.expected)'
          /\ Covers(manifest.prior, manifest.installed)' /\ (journal.expected.hook => settings' # journal.expected)
      BY <2>4, <2>5 DEF EditedOutside
    <3> HIDE DEF Covers
    <3>2. KeepsEdit(journal.expected, journal.desired)'
      BY <3>1 DEF KeepsEdit
    <3>3. Unhooked(journal.expected, journal.desired) => Unhooked(journal.expected, journal.desired)'
      BY <3>1 DEF Unhooked, EditedOutside
    <3> HIDE DEF Absent, NoJournal, NoManifest
    <3> QED BY <2>2, <3>1, <3>2, <3>3 DEF FilesAgree, EditedOutside
  <2>7. ASSUME NEW q \in Hands, handAt'[q] = "in" PROVE StepAgrees(q)'
    <3>1. StepAgrees(q) /\ hand' = hand /\ handAt[q] = "in"
      BY <2>2, <2>7 DEF EditedOutside
    <3>2. hand[q].expected \in Contents /\ hand[q].desired \in Contents /\ Dated(hand[q].expected) /\ Dated(hand[q].desired)
      BY <1>1 DEF SettingsTyped, AllDated, HandRows
    <3>3. Covers(hand[q].expected, hand[q].desired)' /\ (hand[q].expected.hook => settings' # hand[q].expected)
      BY <2>4, <3>1, <3>2
    <3>4. AtRead(q)' /\ AtDocument(q)' /\ AtReplace(q)' /\ AtSwap(q)'
      BY <2>3, <3>1 DEF StepAgrees, AtRead, AtDocument, AtReplace, AtSwap, EditedOutside
    <3>5. AtJournal(q)' /\ AtExchange(q)' /\ AtRecord(q)'
      BY <2>3, <3>1, <3>3 DEF StepAgrees, AtJournal, AtExchange, AtRecord, EditedOutside
    <3>6. AtForget(q)' /\ AtFinish(q)'
      BY <2>3, <3>1 DEF StepAgrees, AtForget, AtFinish, EditedOutside
    <3>7. AtPutBack(q)'
      <4>1. hand[q].op \in {"install", "remove"}
        BY <1>1, <3>1 DEF SettingsTyped, HandRows, Operations, StepAgrees
      <4>2. hand[q].step # "put_back"
        BY <2>1, <3>1, <4>1
      <4> QED BY <3>1, <4>2 DEF AtPutBack
    <3>8. AtVerify(q)'
      BY <1>3, <1>5, <2>3, <3>1, <3>2 DEF StepAgrees, AtVerify, EditedOutside
    <3> QED BY <3>1, <3>4, <3>5, <3>6, <3>7, <3>8 DEF StepAgrees
  <2> QED BY <2>3, <2>6, <2>7
<1> QED BY <1>4, <1>7, <1>8 DEF SettingsInv, EditedOutside

\* Whoever moves.
LEMMA SettingsSteps ==
    ASSUME SettingsInv, [SettingsNext]_handVars
    PROVE  SettingsInv'
<1>1. CASE SettingsNext
  BY <1>1, WorkSteps, HandsMove, EditSteps DEF SettingsNext
<1>2. CASE UNCHANGED handVars
  <2>1. (\A q \in Hands : StepAgrees(q) => StepAgrees(q)') /\ (FilesAgree => FilesAgree') /\ (EditsSurvive => EditsSurvive') /\ (HookIsNamed => HookIsNamed')
        /\ Shared' = Shared
    BY <1>2, FilesRest DEF handVars, Shared
  <2>2. SettingsTyped' /\ AllDated'
    BY <1>2 DEF handVars, SettingsInv, SettingsTyped, AllDated, Dated
  <2> QED BY <1>2, <2>1, <2>2 DEF handVars, SettingsInv
<1> QED BY <1>1, <1>2

\* No file, no journal, no process inside.
LEMMA SettingsBegins ==
    ASSUME SettingsInit
    PROVE  SettingsInv
<1>1. Absent \in Contents /\ Dated(Absent)
  <2>1. PICK b \in BOOLEAN : b = FALSE
    OBVIOUS
  <2>2. -1 \in -1 .. MaxEdits /\ -1 <= edits
    BY HandsAssumption DEF SettingsInit
  <2>3. Absent = [text |-> -1, hook |-> b]
    BY <2>1
  <2> QED BY <2>1, <2>2, <2>3 DEF Contents, Dated
<1>2. NoOperation \in HandRows /\ NoJournal \in [op : Operations, expected : Contents, desired : Contents]
      /\ NoManifest \in [prior : Contents, installed : Contents]
  <2> HIDE DEF Absent
  <2> QED BY <1>1 DEF NoOperation, HandRows, Operations, HandSteps
<1>3. SettingsTyped
  <2> HIDE DEF Absent, NoJournal, NoManifest
  <2>1. latest \in 0..edits /\ edits \in 0..MaxEdits
    BY HandsAssumption DEF SettingsInit
  <2>2. hand \in [Hands -> HandRows] /\ handAt \in [Hands -> LockPlaces]
    BY <1>2 DEF SettingsInit, LockPlaces
  <2> QED BY <1>1, <1>2, <2>1, <2>2 DEF SettingsInit, SettingsTyped
<1>4. AllDated
  BY <1>1 DEF SettingsInit, AllDated, NoOperation
<1>5. FilesAgree /\ EditsSurvive /\ HookIsNamed
  BY DEF SettingsInit, FilesAgree, EditsSurvive, HookIsNamed
<1> QED BY <1>3, <1>4, <1>5 DEF SettingsInv, SettingsInit, NoOperation

\* What the runs check follows.
LEMMA SettingsFollow ==
    ASSUME SettingsInv
    PROVE  EditsSurvive /\ HookIsNamed /\ PriorIsKept
<1>1. EditsSurvive /\ HookIsNamed
  BY DEF SettingsInv, EditsSurvive, HookIsNamed
<1>2. ASSUME manifest.prior # Absent, ~Shared PROVE backup = manifest.prior \/ journal.op = "remove"
  <2>1. manifest # NoManifest
    <3> HIDE DEF Absent
    <3> QED BY <1>2
  <2>2. FilesAgree
    BY <1>2 DEF SettingsInv
  <2> QED BY <2>1, <2>2 DEF FilesAgree
<1> QED BY <1>1, <1>2 DEF PriorIsKept

HIDE DEF UpToDate, Covers, OrEdited, Installing, Removing, Operating, Ending, NoJournal, NoManifest, Absent, Entry,
         CarriedOut, NotBegun, Displaced, Outside, Still, fileVars, Transacts, Doing, Sensible

-----------------------------------------------------------------------------
(* The identity of a native session.  The mailbox part holds whoever is     *)
(* inside the lock of the hooks: it is the invariant of a durable mailbox,  *)
(* for the operations a hook runs and the Sessions it starts.  The rest is  *)
(* what the lock is for.                                                    *)

HookSteps == {"none", "over", "reconcile", "sweep", "look", "current", "register", "renew", "succeed", "enroll",
              "start", "create", "made", "failed", "revoke", "revoked", "finalize", "repair"}
HookRows == [event : {"none", "message", "deleted"}, step : HookSteps, session : Births \cup {0},
             secret : Box!Secrets \cup {0}]
HookPlaces == {"out", "waiting", "opened", "refused", "stale", "in"}

IdentityTyped ==
    /\ mailbox \in Box!MailboxRow
    /\ attach \in [Births -> {"never", "active", "detached"}]
    /\ mailbox = Box!Absent => \A s \in Births : attach[s] = "never"
    /\ trans \in Box!Intent \cup {Nothing}
    /\ trans # Nothing => trans.op \in {"create", "revoke"}
    /\ binding \in Box!Secrets \cup {0, Nothing}
    /\ life \in [Births -> {"unborn", "live", "lapsed", "dormant", "ended"}]
    /\ work \in [Hooks -> Box!Steps \cup {Nothing}]
    /\ keys \in 0 .. MaxSecret
HooksTyped ==
    /\ hook \in [Hooks -> HookRows] /\ hookAt \in [Hooks -> HookPlaces]
    /\ lost \in Nat /\ paired \in BOOLEAN /\ gone \in BOOLEAN

\* The row holds a minted secret, and an open intent the secret the row and the file had.
SecretIsMinted ==
    /\ mailbox.status = "absent" => mailbox = Box!Absent
    /\ mailbox.status # "absent" => mailbox.hash \in 1 .. keys /\ mailbox.version \in 1 .. keys
IntentStands ==
    trans # Nothing =>
        /\ mailbox.status = "active" /\ mailbox.hash = trans.from
        /\ trans.op = "revoke" => trans.to = Nothing
        /\ trans.op = "create" => trans.to = trans.from
        /\ binding \in {Nothing, 0, trans.from}
        /\ binding = 0 => trans.op = "create" /\ \A p \in Hooks : work[p] # "settle"
        /\ trans.op = "revoke" /\ (\E p \in Hooks : work[p] = "prepared") => binding = trans.from
BoxInv ==
    IdentityTyped /\ SecretIsMinted /\ IntentStands /\ Box!BindingAgrees /\ Box!SoleWriter /\ Box!OneIncarnation

\* Sessions are born in order, and attached after their birth.
BornInOrder ==
    /\ \A s, o \in Births : life[s] = "unborn" /\ life[o] # "unborn" => o < s
    /\ \A s \in Births : attach[s] # "never" => life[s] # "unborn"

\* What a hook carries, whoever else is inside.
Carries(r) ==
    /\ r.step \in {"none", "reconcile", "sweep", "look", "current", "enroll", "start"} => r.session = 0
    /\ r.step \in {"current", "register", "renew", "succeed"} => r.secret \in Box!Secrets
    /\ r.step \in {"renew", "create", "made", "failed", "revoke", "revoked", "finalize"} => r.session # 0
    /\ r.session # 0 => life[r.session] # "unborn"
HookCarries(p) ==
    /\ hookAt[p] # "in" => hook[p].step \in {"none", "reconcile"}
    /\ work[p] # Nothing => hook[p].step \in {"made", "revoked"}
    /\ Carries(hook[p])

\* Whose intent it is; without a death only a revocation that could not unlink the file stays behind.
IntentIsOwned ==
    trans # Nothing =>
        /\ trans.alive => hook[trans.owner].step \in {"made", "failed", "revoked", "over"}
        /\ lost = 0 /\ work[trans.owner] = Nothing => trans.op = "revoke" /\ binding = trans.from

Reached(s) == life[s] \in {"live", "lapsed"}
Known(s) == attach[s] # "never"
IsLatest(s) == \A o \in Births : Known(o) => o <= s

\* Short of two hooks inside: an active identity has no Session that is reached without it, and
\* the one attached is the latest; of a retired one the latest at most is left over.
IdentityAgrees ==
    /\ \A s, o \in Births : life[s] = "live" /\ life[o] = "live" => s = o
    /\ mailbox.status = "active" =>
          \A s \in Births :
              /\ life[s] = "live" => attach[s] = "active"
              /\ attach[s] = "detached" => ~Reached(s)
              /\ attach[s] = "active" => IsLatest(s)
    /\ mailbox.status = "retired" => \A s \in Births : attach[s] # "active" /\ (Known(s) /\ Reached(s) => IsLatest(s))
    /\ trans # Nothing /\ trans.op = "revoke" => \A s \in Births : attach[s] = "active" => s = trans.session
    /\ lost = 0 => \A s \in Births : life[s] = "live" => attach[s] = "active" \/ Held(s)
    /\ gone => mailbox.status = "retired" /\ \A s \in Births : Known(s) => ~Reached(s)

\* What the hook inside may rely on at its step.
Relies(r) ==
    /\ r.step \in {"sweep", "look", "current", "register", "renew", "succeed"} => trans = Nothing \/ trans.op = "create"
    /\ r.step \in {"register", "renew", "succeed", "revoke"} => \A o \in Births : attach[o] = "active" => o = r.session
    /\ r.step = "renew" => IsLatest(r.session)
    /\ r.step \in {"enroll", "start", "create"} => mailbox = Box!Absent
    /\ r.step \in {"create", "made", "failed", "revoke", "revoked", "finalize"} =>
          \A o \in Births : life[o] = "live" => o = r.session
    /\ r.step = "made" => mailbox.status # "retired" /\ (trans # Nothing => trans.op = "create")
    /\ r.step = "revoked" => (trans # Nothing => trans.op = "revoke")
    /\ r.step = "revoke" => mailbox.status = "active"
    /\ r.step \in {"revoke", "revoked", "finalize", "repair"} =>
          mailbox.status # "absent" /\ \A o \in Births : Known(o) /\ Reached(o) => o = r.session
    /\ r.step \in {"finalize", "repair"} => mailbox.status = "retired"

OpenCodeInv ==
    /\ BoxInv /\ HooksTyped /\ BornInOrder /\ IntentIsOwned
    /\ \A p \in Hooks : HookCarries(p)
    /\ ~paired => /\ IdentityAgrees
                  /\ \A p, q \in Hooks : hookAt[p] = "in" /\ hookAt[q] = "in" => p = q
                  /\ \A p \in Hooks : hookAt[p] = "in" => Relies(hook[p])

-----------------------------------------------------------------------------
(* The mailbox part.                                                       *)

\* What is no number, no step and no intent.
LEMMA NothingIsNone ==
    /\ Nothing \notin Nat /\ Nothing \notin Box!Steps /\ Nothing \notin Box!Intent
    /\ Nothing \notin Box!Secrets /\ Nothing # 0
    /\ MaxSecret \in Nat /\ Births \subseteq Nat \ {0} /\ Cardinality(Births) \in Nat
<1>1. Cardinality(Births) \in Nat
  BY OpenCodeAssumption, FS_CardinalityType
<1> QED BY <1>1, OpenCodeAssumption DEF Box!Secrets

\* Attaching and detaching leave one attachment at most.
LEMMA OneIsAttached ==
    ASSUME attach \in [Births -> {"never", "active", "detached"}], Box!OneIncarnation, NEW s \in Births
    PROVE  /\ Box!Attached(s) \in [Births -> {"never", "active", "detached"}]
           /\ Box!Detached(s) \in [Births -> {"never", "active", "detached"}]
           /\ \A o, r \in Births : Box!Attached(s)[o] = "active" /\ Box!Attached(s)[r] = "active" => o = r
           /\ \A o, r \in Births : Box!Detached(s)[o] = "active" /\ Box!Detached(s)[r] = "active" => o = r
           /\ \A o \in Births : attach[o] = "never" => Box!Detached(s)[o] = "never"
BY DEF Box!OneIncarnation, Box!Active, Box!Attached, Box!Detached

\* Leases and attachments change, and neither the row, the intent nor the file does.
LEMMA AttachmentMoves ==
    ASSUME BoxInv, UNCHANGED <<mailbox, trans, binding, work, keys>>,
           life' \in [Births -> {"unborn", "live", "lapsed", "dormant", "ended"}],
           attach' \in [Births -> {"never", "active", "detached"}],
           \A o, r \in Births : attach'[o] = "active" /\ attach'[r] = "active" => o = r,
           mailbox = Box!Absent => \A o \in Births : attach'[o] = "never"
    PROVE  BoxInv'
<1>1. IdentityTyped' /\ Box!OneIncarnation'
  BY DEF BoxInv, IdentityTyped, Box!OneIncarnation, Box!Active
<1>2. SecretIsMinted' /\ IntentStands' /\ Box!BindingAgrees' /\ Box!SoleWriter'
  BY DEF BoxInv, SecretIsMinted, IntentStands, Box!BindingAgrees, Box!SoleWriter, Box!Proves, Box!At
<1> QED BY <1>1, <1>2 DEF BoxInv

\* One Session's row changes, with or without its attachment.
LEMMA SessionMoves ==
    ASSUME BoxInv, NEW s \in Births, UNCHANGED <<mailbox, trans, binding, work, keys>>,
           life' \in [Births -> {"unborn", "live", "lapsed", "dormant", "ended"}],
           \/ attach' = attach \/ attach' = Box!Detached(s)
           \/ attach' = Box!Attached(s) /\ mailbox.status = "active"
    PROVE  BoxInv'
<1>1. attach \in [Births -> {"never", "active", "detached"}] /\ Box!OneIncarnation
      /\ (mailbox = Box!Absent => \A o \in Births : attach[o] = "never")
  BY DEF BoxInv, IdentityTyped
<1>2. attach' \in [Births -> {"never", "active", "detached"}]
      /\ \A o, r \in Births : attach'[o] = "active" /\ attach'[r] = "active" => o = r
  BY <1>1, OneIsAttached DEF Box!OneIncarnation, Box!Active
<1>3. mailbox = Box!Absent => \A o \in Births : attach'[o] = "never"
  BY <1>1, OneIsAttached DEF Box!Absent
<1> QED BY <1>2, <1>3, AttachmentMoves

LEMMA BoxStays ==
    ASSUME BoxInv, UNCHANGED boxVars
    PROVE  BoxInv'
BY DEF boxVars, BoxInv, IdentityTyped, SecretIsMinted, IntentStands, Box!BindingAgrees, Box!SoleWriter,
       Box!OneIncarnation, Box!Proves, Box!At, Box!Active

\* Settling an intent keeps all but what concerns the process at it.
LEMMA IntentSettles ==
    ASSUME BoxInv, trans # Nothing, Box!Settle, UNCHANGED <<binding, life, keys>>
    PROVE  /\ mailbox' \in Box!MailboxRow /\ trans' = Nothing
           /\ attach' \in [Births -> {"never", "active", "detached"}]
           /\ (mailbox = Box!Absent => \A s \in Births : attach[s] = "never")'
           /\ SecretIsMinted' /\ Box!BindingAgrees' /\ Box!OneIncarnation'
           /\ \/ trans.op = "create" /\ binding = Nothing /\ mailbox' = Box!Absent /\ attach' = [s \in Births |-> "never"]
              \/ trans.op = "revoke" /\ binding = Nothing /\ mailbox' = [mailbox EXCEPT !.status = "retired"]
                 /\ attach' = Box!Detached(trans.session)
              \/ binding = trans.from /\ UNCHANGED <<mailbox, attach>>
<1>1. trans \in Box!Intent /\ mailbox \in Box!MailboxRow /\ trans.session \in Births /\ trans' = Nothing
      /\ trans.op \in {"create", "revoke"} /\ trans.from \in Box!Secrets /\ trans.from # Nothing
  BY NothingIsNone DEF BoxInv, IdentityTyped, Box!Intent, Box!Settle
<1>2. CASE Box!Done /\ trans.op = "revoke"
  <2>1. mailbox' = [mailbox EXCEPT !.status = "retired"] /\ attach' = Box!Detached(trans.session)
    BY <1>2 DEF Box!Settle, Box!Retired
  <2>2. binding = Nothing /\ mailbox.status = "active"
    BY <1>2 DEF Box!Done, BoxInv, IntentStands
  <2>3. mailbox' \in Box!MailboxRow /\ mailbox'.status = "retired" /\ mailbox'.hash = mailbox.hash /\ mailbox'.version = mailbox.version
    BY <1>1, <2>1 DEF Box!MailboxRow
  <2>4. mailbox' # Box!Absent
    BY <2>3 DEF Box!Absent
  <2>5. SecretIsMinted' /\ Box!BindingAgrees'
    BY <2>2, <2>3 DEF BoxInv, SecretIsMinted, Box!BindingAgrees
  <2>6. attach' \in [Births -> {"never", "active", "detached"}] /\ Box!OneIncarnation'
    BY <1>1, <2>1, OneIsAttached DEF BoxInv, IdentityTyped, Box!OneIncarnation, Box!Active
  <2> QED BY <1>1, <1>2, <2>1, <2>2, <2>3, <2>4, <2>5, <2>6
<1>3. CASE Box!Undone /\ trans.op = "create"
  <2>1. mailbox' = Box!Absent /\ attach' = [s \in Births |-> "never"]
    BY <1>3 DEF Box!Settle, Box!Aborted, Box!Undone
  <2>2. binding = Nothing
    BY <1>3 DEF Box!Undone, Box!Done, BoxInv, IntentStands
  <2>3. mailbox' \in Box!MailboxRow
    BY <2>1, NothingIsNone DEF Box!Absent, Box!MailboxRow
  <2> QED BY <1>1, <1>3, <2>1, <2>2, <2>3 DEF SecretIsMinted, Box!BindingAgrees, Box!OneIncarnation, Box!Active, Box!Absent
<1>4. CASE (Box!Done /\ trans.op = "create") \/ (Box!Undone /\ trans.op = "revoke")
  <2>1. UNCHANGED <<mailbox, attach>>
    BY <1>4 DEF Box!Settle, Box!Undone
  <2>2. binding = trans.from
    BY <1>4 DEF Box!Undone, Box!Done, BoxInv, IntentStands
  <2>3. mailbox.status = "active" /\ mailbox.hash = trans.from
    BY DEF BoxInv, IntentStands
  <2> QED BY <1>1, <2>1, <2>2, <2>3 DEF BoxInv, IdentityTyped, SecretIsMinted, Box!BindingAgrees, Box!Proves, Box!OneIncarnation, Box!Active
<1> QED BY <1>1, <1>2, <1>3, <1>4 DEF Box!Settle, Box!Settleable

\* A mailbox is made for a Session.
LEMMA BoxIsCreated ==
    ASSUME BoxInv, NEW p \in Hooks, NEW s \in Births, Box!create_managed_agent_mailbox(p, s)
    PROVE  /\ BoxInv' /\ trans' # Nothing /\ mailbox'.status = "active" /\ trans'.op = "create" /\ trans'.owner = p
           /\ work' = [work EXCEPT ![p] = "prepared"] /\ trans = Nothing /\ UNCHANGED <<binding, life>>
           /\ attach' = Box!Attached(s) /\ mailbox = Box!Absent
<1>1. /\ keys' = keys + 1 /\ keys' \in Box!Secrets /\ keys \in Nat
      /\ mailbox' = [status |-> "active", hash |-> keys', version |-> 1]
      /\ binding = Nothing /\ UNCHANGED <<binding, life>> /\ trans = Nothing /\ mailbox = Box!Absent
      /\ trans' = [op |-> "create", from |-> keys', to |-> keys', version |-> 1, session |-> s, owner |-> p, alive |-> TRUE]
      /\ work' = [work EXCEPT ![p] = "prepared"] /\ attach' = Box!Attached(s)
  BY DEF BoxInv, IdentityTyped, Box!create_managed_agent_mailbox, Box!Prepare
<1>2. trans' \in Box!Intent /\ trans' # Nothing
  <2>1. trans' \in Box!Intent
    BY <1>1, NothingIsNone DEF Box!Intent, Box!Secrets
  <2> QED BY <2>1, NothingIsNone
<1>3. mailbox' \in Box!MailboxRow /\ mailbox' # Box!Absent /\ keys' \in 0 .. MaxSecret
  BY <1>1, NothingIsNone DEF Box!MailboxRow, Box!Absent, Box!Secrets
<1>4. \A q \in Hooks : work[q] = Nothing
  BY <1>1 DEF BoxInv, Box!SoleWriter
<1>5. work' \in [Hooks -> Box!Steps \cup {Nothing}] /\ \A q \in Hooks : work'[q] # Nothing => q = p /\ work'[q] = "prepared"
  BY <1>1, <1>4 DEF BoxInv, IdentityTyped, Box!Steps
<1>6. IdentityTyped' /\ Box!OneIncarnation'
  BY <1>1, <1>2, <1>3, <1>5, OneIsAttached DEF BoxInv, IdentityTyped, Box!OneIncarnation, Box!Active
<1>7. Box!SoleWriter'
  BY <1>1, <1>2, <1>5 DEF Box!SoleWriter, Box!At
<1>8. SecretIsMinted' /\ IntentStands' /\ Box!BindingAgrees'
  BY <1>1, <1>2, NothingIsNone DEF SecretIsMinted, IntentStands, Box!BindingAgrees, Box!Secrets, Box!Absent
<1> QED BY <1>1, <1>2, <1>6, <1>7, <1>8 DEF BoxInv

\* The intent to revoke it.
LEMMA BoxIsRevoked ==
    ASSUME BoxInv, NEW p \in Hooks, NEW s \in Births, Box!revoke_managed_agent_mailbox_binding(p, s)
    PROVE  /\ BoxInv' /\ trans' # Nothing /\ trans'.op = "revoke" /\ trans'.owner = p /\ trans'.session = s
           /\ work' = [work EXCEPT ![p] = "prepared"] /\ trans = Nothing
           /\ UNCHANGED <<mailbox, attach, binding, life>> /\ mailbox.status = "active"
<1>1. /\ UNCHANGED <<mailbox, attach, binding, life, keys>> /\ trans = Nothing /\ binding \in Box!Secrets
      /\ trans' = [op |-> "revoke", from |-> mailbox.hash, to |-> Nothing, version |-> Nothing,
                   session |-> s, owner |-> p, alive |-> TRUE]
      /\ work' = [work EXCEPT ![p] = "prepared"]
  BY DEF Box!revoke_managed_agent_mailbox_binding, Box!Prepare
<1>2. mailbox.status = "active" /\ mailbox.hash = binding
  BY <1>1, NothingIsNone DEF BoxInv, Box!BindingAgrees, Box!Proves
<1>3. trans' \in Box!Intent /\ trans' # Nothing
  <2>1. trans' \in Box!Intent
    BY <1>1, <1>2 DEF Box!Intent
  <2> QED BY <2>1, NothingIsNone
<1>4. \A q \in Hooks : work[q] = Nothing
  BY <1>1 DEF BoxInv, Box!SoleWriter
<1>5. work' \in [Hooks -> Box!Steps \cup {Nothing}] /\ \A q \in Hooks : work'[q] # Nothing => q = p /\ work'[q] = "prepared"
  BY <1>1, <1>4 DEF BoxInv, IdentityTyped, Box!Steps
<1>6. IdentityTyped' /\ Box!OneIncarnation' /\ SecretIsMinted'
  BY <1>1, <1>3, <1>5 DEF BoxInv, IdentityTyped, Box!OneIncarnation, Box!Active, SecretIsMinted
<1>7. Box!SoleWriter'
  BY <1>1, <1>3, <1>5 DEF Box!SoleWriter, Box!At
<1>8. IntentStands' /\ Box!BindingAgrees'
  BY <1>1, <1>2, <1>3, NothingIsNone DEF IntentStands, Box!BindingAgrees, Box!Secrets
<1> QED BY <1>1, <1>2, <1>3, <1>6, <1>7, <1>8 DEF BoxInv

\* The file is opened, written or unlinked.
LEMMA FileMoves ==
    ASSUME BoxInv, NEW p \in Hooks, Box!OpenBinding(p) \/ Box!_create_managed_binding(p) \/ Box!unlink(p)
    PROVE  /\ BoxInv' /\ UNCHANGED <<mailbox, attach, trans, life, keys>> /\ trans # Nothing /\ trans.owner = p /\ work[p] # Nothing
           /\ \E v \in {Nothing, "opened", "settle"} :
                 work' = [work EXCEPT ![p] = v] /\ (v = Nothing => trans.op = "revoke" /\ binding' = trans.from)
<1>1. /\ UNCHANGED <<mailbox, attach, trans, life, keys>> /\ trans # Nothing /\ work[p] \in {"prepared", "opened"}
      /\ trans.owner = p /\ trans.alive /\ trans \in Box!Intent /\ work[p] # Nothing
  BY NothingIsNone DEF BoxInv, IdentityTyped, Box!OpenBinding, Box!_create_managed_binding, Box!unlink, Box!At, Box!SoleWriter, Box!Steps, Box!Database
<1>2. trans.from \in Box!Secrets /\ (trans.op = "create" => trans.to = trans.from) /\ trans.op \in {"create", "revoke"}
      /\ mailbox.status = "active" /\ mailbox.hash = trans.from /\ binding \in {Nothing, 0, trans.from} /\ (binding = 0 => trans.op = "create")
  BY <1>1 DEF BoxInv, IdentityTyped, IntentStands, Box!Intent
<1>3. CASE Box!OpenBinding(p)
  <2>1. work' = [work EXCEPT ![p] = "opened"] /\ binding' = 0 /\ trans.op = "create"
    BY <1>2, <1>3 DEF Box!OpenBinding, Box!Step, Box!Partial
  <2>2. \A q \in Hooks : work'[q] # "settle"
    <3>1. \A q \in Hooks : work[q] = "settle" => q = p
      BY <1>1, NothingIsNone DEF BoxInv, Box!SoleWriter, Box!Steps
    <3> QED BY <2>1, <3>1 DEF BoxInv, IdentityTyped
  <2>3. IdentityTyped' /\ SecretIsMinted' /\ IntentStands' /\ Box!BindingAgrees' /\ Box!OneIncarnation'
    BY <1>1, <1>2, <2>2, <2>1 DEF BoxInv, IdentityTyped, SecretIsMinted, IntentStands, Box!BindingAgrees, Box!OneIncarnation, Box!Active, Box!Steps
  <2>4. Box!SoleWriter'
    BY <1>1, <2>1 DEF BoxInv, IdentityTyped, Box!SoleWriter, Box!At, Box!Partial
  <2> QED BY <1>1, <2>1, <2>3, <2>4, NothingIsNone DEF BoxInv, Box!Steps
<1>4. CASE Box!_create_managed_binding(p)
  <2>1. trans.op = "create"
    <3>1. work[p] = "opened" /\ binding = 0
      <4>1. work[p] = "opened" /\ work[p] # Nothing
        BY <1>4, NothingIsNone DEF Box!_create_managed_binding, Box!At, Box!Steps
      <4> QED BY <4>1 DEF Box!At, BoxInv, Box!SoleWriter, Box!Partial
    <3> QED BY <1>2, <3>1
  <2>2. work' = [work EXCEPT ![p] = "settle"] /\ binding' \in {trans.from, Nothing}
    BY <1>2, <1>4, <2>1 DEF Box!_create_managed_binding, Box!Step
  <2>3. IdentityTyped'
    <3>1. work' \in [Hooks -> Box!Steps \cup {Nothing}] /\ binding' \in Box!Secrets \cup {0, Nothing}
      BY <1>2, <2>2 DEF BoxInv, IdentityTyped, Box!Steps
    <3> QED BY <1>1, <3>1 DEF BoxInv, IdentityTyped
  <2>4. SecretIsMinted' /\ Box!BindingAgrees' /\ Box!OneIncarnation'
    BY <1>1 DEF BoxInv, SecretIsMinted, Box!BindingAgrees, Box!OneIncarnation, Box!Active
  <2>5. IntentStands'
    BY <1>1, <1>2, <2>1, <2>2, NothingIsNone DEF BoxInv, IntentStands, Box!Secrets
  <2>6. IdentityTyped' /\ SecretIsMinted' /\ IntentStands' /\ Box!BindingAgrees' /\ Box!OneIncarnation'
    BY <2>3, <2>4, <2>5
  <2>7. Box!SoleWriter'
    BY <1>1, <2>2 DEF BoxInv, IdentityTyped, Box!SoleWriter, Box!At, Box!Partial
  <2> QED BY <1>1, <2>2, <2>6, <2>7, NothingIsNone DEF BoxInv, Box!Steps
<1>5. CASE Box!unlink(p)
  <2>1. trans.op = "revoke" /\ \/ work' = [work EXCEPT ![p] = "settle"] /\ binding' = Nothing
                               \/ work' = [work EXCEPT ![p] = Nothing] /\ binding' = binding /\ binding = trans.from
    BY <1>1, <1>5 DEF Box!unlink, Box!Step, Box!At, BoxInv, IntentStands
  <2>2. \A q \in Hooks : work'[q] # "prepared"
    <3>1. \A q \in Hooks : work[q] = "prepared" => q = p
      BY <1>1, NothingIsNone DEF BoxInv, Box!SoleWriter, Box!Steps
    <3> QED BY <2>1, <3>1, NothingIsNone DEF BoxInv, IdentityTyped, Box!Steps
  <2>3. IdentityTyped'
    <3>1. work' \in [Hooks -> Box!Steps \cup {Nothing}] /\ binding' \in Box!Secrets \cup {0, Nothing}
      BY <1>2, <2>1 DEF BoxInv, IdentityTyped, Box!Steps
    <3> QED BY <1>1, <3>1 DEF BoxInv, IdentityTyped
  <2>4. SecretIsMinted' /\ Box!BindingAgrees' /\ Box!OneIncarnation'
    BY <1>1 DEF BoxInv, SecretIsMinted, Box!BindingAgrees, Box!OneIncarnation, Box!Active
  <2>5. IntentStands'
    BY <1>1, <1>2, <2>2, <2>1, NothingIsNone DEF BoxInv, IntentStands, Box!Secrets
  <2>6. IdentityTyped' /\ SecretIsMinted' /\ IntentStands' /\ Box!BindingAgrees' /\ Box!OneIncarnation'
    BY <2>3, <2>4, <2>5
  <2>7. Box!SoleWriter'
    BY <1>1, <2>1 DEF BoxInv, IdentityTyped, Box!SoleWriter, Box!At, Box!Partial
  <2> QED BY <1>1, <2>1, <2>6, <2>7, NothingIsNone DEF BoxInv, Box!Steps
<1> QED BY <1>3, <1>4, <1>5

-----------------------------------------------------------------------------
(* The hooks.                                                              *)

\* The last of a set of Sessions.
LEMMA LastExists ==
    ASSUME NEW T, T \subseteq Births, T # {}
    PROVE  \E x \in T : \A y \in T : y <= x
<1> DEFINE n == Cardinality(Births)
           U == {n - y : y \in T}
<1>1. n \in Nat /\ T \subseteq 1 .. n
  BY NothingIsNone, OpenCodeAssumption
<1> HIDE DEF n
<1>2. PICK t \in T : TRUE
  OBVIOUS
<1>3. U \subseteq Nat /\ n - t \in U
  BY <1>1, <1>2
<1>4. IsWellFoundedOn(NatLess, Nat) /\ \A x, y \in Nat : <<y, x>> \in NatLess <=> y < x
  <2>1. NatLess = {ss \in Nat \X Nat : ss[1] < ss[2]}
    BY DEF NatLess, OpToRel
  <2> QED BY <2>1, NatLessThanWellFounded DEF NatLess
<1>5. PICK u \in U : \A w \in U : ~(<<w, u>> \in NatLess)
  BY <1>3, <1>4, WFMin
<1>6. PICK x \in T : u = n - x
  OBVIOUS
<1>7. ASSUME NEW y \in T PROVE y <= x
  <2>1. ~(<<n - y, u>> \in NatLess) /\ n - y \in Nat /\ u \in Nat
    BY <1>3, <1>5
  <2>2. ~(n - y < n - x)
    BY <1>4, <1>6, <2>1
  <2> QED BY <1>1, <1>6, <2>2
<1> QED BY <1>7

\* What a hook finds when it looks for a Session of the mailbox.
LEMMA SessionsAreFound ==
    ASSUME attach \in [Births -> {"never", "active", "detached"}]
    PROVE  /\ _active_session_id \in Births \cup {0} /\ _latest_session_id \in Births \cup {0}
           /\ Box!Active # {} => _active_session_id \in Births /\ attach[_active_session_id] = "active"
           /\ Box!Active = {} => _active_session_id = 0
           /\ _latest_session_id # 0 => Known(_latest_session_id) /\ IsLatest(_latest_session_id)
           /\ (\E s \in Births : Known(s)) => _latest_session_id # 0
<1>1. Box!Active # {} => _active_session_id \in Box!Active
  BY DEF _active_session_id
<1>2. Box!Active \subseteq Births /\ \A s \in Box!Active : attach[s] = "active"
  BY DEF Box!Active
<1>3. Box!Active = {} => _active_session_id = 0
  BY DEF _active_session_id
<1> DEFINE known == {s \in Births : attach[s] # "never"}
<1>4. CASE known = {}
  <2>1. _latest_session_id = 0
    BY <1>4 DEF _latest_session_id
  <2> QED BY <1>1, <1>2, <1>3, <1>4, <2>1 DEF Known
<1>5. CASE known # {}
  <2>1. \E x \in known : \A y \in known : y <= x
    BY <1>5, LastExists
  <2>2. _latest_session_id = CHOOSE s \in known : \A o \in known : o <= s
    BY <1>5 DEF _latest_session_id
  <2>3. _latest_session_id \in known /\ \A o \in known : o <= _latest_session_id
    BY <2>1, <2>2
  <2>4. _latest_session_id # 0
    BY <2>3, NothingIsNone
  <2> QED BY <1>1, <1>2, <1>3, <2>3, <2>4 DEF Known, IsLatest
<1> QED BY <1>4, <1>5

\* The steps at which a Session without the mailbox is in the hands of a hook.
HoldSteps == {"create", "made", "failed", "revoked", "finalize", "repair"}

LEMMA HeldHere ==
    ASSUME OpenCodeInv, ~paired, NEW p \in Hooks, hookAt[p] = "in", NEW s \in Births, Held(s)
    PROVE  hook[p].session = s /\ hook[p].step \in HoldSteps
<1>1. PICK q \in Hooks : hook[q].session = s /\ hook[q].step \in HoldSteps
  BY DEF Held, HoldSteps
<1>2. hookAt[q] = "in"
  BY <1>1 DEF OpenCodeInv, HookCarries, HoldSteps
<1>3. q = p
  BY <1>2 DEF OpenCodeInv
<1> QED BY <1>1, <1>3

\* A row that goes on to a step.
LEMMA GoesOn ==
    ASSUME NEW r \in HookRows, NEW t \in HookSteps
    PROVE  LET n == [r EXCEPT !.step = t]
           IN  n \in HookRows /\ n.step = t /\ n.session = r.session /\ n.secret = r.secret /\ n.event = r.event
BY DEF HookRows

\* A step of a hook inside: the others keep what they know.
LEMMA InsideStep ==
    ASSUME OpenCodeInv, NEW p \in Hooks, hookAt[p] = "in", NEW r \in HookRows, hook' = [hook EXCEPT ![p] = r],
           UNCHANGED <<hookAt, lost, paired>>, gone' \in BOOLEAN,
           BoxInv', BornInOrder', IntentIsOwned', HookCarries(p)',
           \A s \in Births : life[s] # "unborn" => life'[s] # "unborn",
           \A q \in Hooks : q # p => work'[q] = work[q],
           ~paired => IdentityAgrees' /\ Relies(hook[p])'
    PROVE  OpenCodeInv'
<1>1. HooksTyped'
  BY DEF OpenCodeInv, HooksTyped
<1>2. ASSUME NEW q \in Hooks PROVE HookCarries(q)'
  <2>1. CASE q = p
    BY <2>1
  <2>2. CASE q # p
    <3>1. hook'[q] = hook[q] /\ work'[q] = work[q] /\ hookAt'[q] = hookAt[q]
      BY <2>2 DEF OpenCodeInv, HooksTyped
    <3>2. hook[q].session # 0 => hook[q].session \in Births
      BY DEF OpenCodeInv, HooksTyped, HookRows
    <3> QED BY <3>1, <3>2 DEF OpenCodeInv, HookCarries, Carries
  <2> QED BY <2>1, <2>2
<1>3. ASSUME ~paired, NEW q \in Hooks, hookAt'[q] = "in" PROVE Relies(hook[q])'
  <2>1. q = p
    BY <1>3 DEF OpenCodeInv
  <2> QED BY <1>3, <2>1
<1> QED BY <1>1, <1>2, <1>3 DEF OpenCodeInv

\* The mailbox stays, and the hook goes on.
LEMMA Thinks ==
    ASSUME OpenCodeInv, NEW p \in Hooks, hookAt[p] = "in", NEW r \in HookRows, hook' = [hook EXCEPT ![p] = r],
           UNCHANGED <<boxVars, hookAt, lost, paired, gone>>,
           hook[p].step \in {"made", "failed", "revoked", "over"} => r.step \in {"made", "failed", "revoked", "over", "finalize"},
           r.step = "finalize" => trans = Nothing,
           Carries(r), work[p] # Nothing => r.step \in {"made", "revoked"},
           ~paired => Relies(r) /\ \A s \in Births :
               lost = 0 /\ life[s] = "live" /\ attach[s] # "active" => r.session = s /\ r.step \in HoldSteps
    PROVE  OpenCodeInv'
<1>1. BoxInv' /\ BornInOrder'
  BY BoxStays DEF OpenCodeInv, boxVars, BornInOrder
<1>2. hook \in [Hooks -> HookRows] /\ gone \in BOOLEAN /\ hook'[p] = r
  BY DEF OpenCodeInv, HooksTyped
<1>3. IntentIsOwned'
  <2>1. trans # Nothing /\ trans.alive => hook'[trans.owner].step \in {"made", "failed", "revoked", "over"}
    <3>1. CASE trans # Nothing /\ trans.alive
      <4>1. trans.owner \in Hooks /\ hook[trans.owner].step \in {"made", "failed", "revoked", "over"}
        BY <3>1 DEF OpenCodeInv, BoxInv, IdentityTyped, IntentIsOwned, Box!Intent
      <4> QED BY <1>2, <3>1, <4>1
    <3> QED BY <3>1
  <2> QED BY <2>1 DEF OpenCodeInv, IntentIsOwned, boxVars
<1>4. ASSUME ~paired PROVE IdentityAgrees'
  <2>1. \A s \in Births : lost = 0 /\ life[s] = "live" => attach[s] = "active" \/ Held(s)'
    BY <1>2, <1>4 DEF Held, HoldSteps
  <2>2. IdentityAgrees
    BY <1>4 DEF OpenCodeInv
  <2> HIDE DEF Held
  <2> QED BY <2>1, <2>2 DEF IdentityAgrees, boxVars, Known, Reached, IsLatest
<1>5. HookCarries(p)' /\ (~paired => Relies(hook[p])')
  BY <1>2 DEF HookCarries, Carries, Relies, boxVars, Known, Reached, IsLatest
<1> QED BY <1>1, <1>2, <1>3, <1>4, <1>5, InsideStep DEF boxVars
\* What is known of the hook inside.
LEMMA HookFacts ==
    ASSUME OpenCodeInv, NEW p \in Hooks
    PROVE  /\ hook[p] \in HookRows /\ hook[p].session \in Births \cup {0} /\ Carries(hook[p])
           /\ BoxInv /\ IdentityTyped /\ HooksTyped /\ BornInOrder
           /\ work[p] # Nothing => hook[p].step \in {"made", "revoked"}
           /\ mailbox.status \in {"absent", "active", "retired"}
           /\ mailbox.status = "absent" <=> mailbox = Box!Absent
           /\ trans # Nothing => mailbox.status = "active"
           /\ ~paired /\ hookAt[p] = "in" => Relies(hook[p]) /\ IdentityAgrees
BY DEF OpenCodeInv, HooksTyped, HookRows, HookCarries, BoxInv, IdentityTyped, Box!MailboxRow, SecretIsMinted, IntentStands, Box!Absent

\* Nobody is held by a hook before it has started a Session.
LEMMA NobodyHeld ==
    ASSUME OpenCodeInv, ~paired, NEW p \in Hooks, hookAt[p] = "in", hook[p].step \notin HoldSteps, lost = 0,
           NEW s \in Births, life[s] = "live"
    PROVE  attach[s] = "active"
BY HeldHere DEF OpenCodeInv, IdentityAgrees

\* The mailbox row, and the secret of the file.
LEMMA LookAtMessageStep ==
    ASSUME OpenCodeInv, NEW p \in Hooks, LookAtMessage(p)
    PROVE  OpenCodeInv'
<1> DEFINE secret == IF binding = Nothing THEN 0 ELSE binding
           step == IF mailbox = Box!Absent THEN "enroll"
                   ELSE IF mailbox.status # "active" \/ binding \notin Box!Secrets THEN "over" ELSE "current"
           r == [hook[p] EXCEPT !.secret = secret, !.step = step]
<1>1. hookAt[p] = "in" /\ hook[p].step = "look" /\ UNCHANGED <<boxVars, hookAt, lost, paired, gone>>
      /\ hook' = [hook EXCEPT ![p] = r]
  BY DEF LookAtMessage, Handling, Frame, SameBox
<1>2. secret \in Box!Secrets \cup {0} /\ step \in HookSteps
  BY HookFacts, NothingIsNone DEF IdentityTyped, HookSteps
<1>3. step \in {"enroll", "over", "current"} /\ (step = "enroll" => mailbox = Box!Absent) /\ (step = "current" => secret \in Box!Secrets)
  BY NothingIsNone
<1> HIDE DEF secret, step
<1>4. r \in HookRows /\ r.step = step /\ r.secret = secret /\ r.session = hook[p].session
  BY <1>2, HookFacts DEF HookRows
<1> HIDE DEF r
<1>5. Carries(r) /\ work[p] = Nothing
  BY <1>1, <1>3, <1>4, HookFacts DEF Carries
<1>6. ~paired => Relies(r)
  BY <1>1, <1>3, <1>4, HookFacts DEF Relies
<1>7. ~paired => \A s \in Births : lost = 0 /\ life[s] = "live" => attach[s] = "active"
  BY <1>1, NobodyHeld DEF HoldSteps
<1> QED BY <1>1, <1>3, <1>4, <1>5, <1>6, <1>7, Thinks

LEMMA ReadCurrentStep ==
    ASSUME OpenCodeInv, NEW p \in Hooks, ReadCurrent(p)
    PROVE  OpenCodeInv'
<1> DEFINE step == IF Box!Active = {} THEN "register" ELSE "renew"
           r == [hook[p] EXCEPT !.session = _active_session_id, !.step = step]
<1>1. hookAt[p] = "in" /\ hook[p].step = "current" /\ UNCHANGED <<boxVars, hookAt, lost, paired, gone>>
      /\ hook' = [hook EXCEPT ![p] = r]
  BY DEF ReadCurrent, Handling, Frame, SameBox
<1>2. attach \in [Births -> {"never", "active", "detached"}]
  BY HookFacts DEF IdentityTyped
<1>3. /\ step \in {"register", "renew"} /\ _active_session_id \in Births \cup {0}
      /\ step = "renew" => _active_session_id \in Births /\ attach[_active_session_id] = "active"
      /\ step = "register" => Box!Active = {}
  BY <1>2, SessionsAreFound
<1> HIDE DEF step
<1>4. r \in HookRows /\ r.step = step /\ r.secret = hook[p].secret /\ r.session = _active_session_id
  BY <1>3, HookFacts DEF HookRows, HookSteps
<1> HIDE DEF r
<1>5. _active_session_id # 0 => step = "renew"
  BY <1>2, <1>3, SessionsAreFound, NothingIsNone
<1>6. Carries(r) /\ work[p] = Nothing
  BY <1>1, <1>3, <1>4, <1>5, HookFacts, NothingIsNone DEF Carries, BornInOrder
<1>7. \A o \in Births : attach[o] = "active" => o = r.session
  BY <1>3, <1>4, HookFacts DEF BoxInv, Box!OneIncarnation, Box!Active
<1>8. ~paired /\ step = "renew" => mailbox.status = "active" /\ IsLatest(r.session)
  <2>1. step = "renew" => mailbox # Box!Absent
    BY <1>3, HookFacts DEF IdentityTyped
  <2> QED BY <1>1, <1>3, <1>4, <2>1, HookFacts DEF IdentityAgrees
<1>9. ~paired => Relies(r)
  BY <1>1, <1>3, <1>4, <1>7, <1>8, HookFacts DEF Relies
<1>10. ~paired => \A s \in Births : lost = 0 /\ life[s] = "live" => attach[s] = "active"
  BY <1>1, NobodyHeld DEF HoldSteps
<1> QED BY <1>1, <1>3, <1>4, <1>6, <1>9, <1>10, Thinks

\* An operation that is refused, or has come to its end.
LEMMA HookTurns ==
    ASSUME OpenCodeInv, NEW p \in Hooks, hookAt[p] = "in", UNCHANGED boxVars, UNCHANGED gone, Frame,
           NEW t \in {"over", "failed", "register", "look", "sweep"}, Onward(p, t),
           \/ hook[p].step \in {"succeed", "start", "revoke"} /\ t = "over"
           \/ hook[p].step = "renew" /\ t = "register"
           \/ hook[p].step = "create" /\ t = "failed"
           \/ hook[p].step = "reconcile" /\ t \in {"look", "sweep"} /\ (~paired => trans = Nothing \/ trans.op = "create")
           \/ hook[p].step = "made" /\ work[p] = Nothing /\ t = IF mailbox # Box!Absent /\ trans = Nothing THEN "over" ELSE "failed"
           \/ hook[p].step = "revoked" /\ work[p] = Nothing /\ mailbox.status # "retired" /\ t = "over"
    PROVE  OpenCodeInv'
<1> DEFINE r == [hook[p] EXCEPT !.step = t]
<1>1. hook' = [hook EXCEPT ![p] = r]
  BY DEF Onward
<1>2. r \in HookRows /\ r.step = t /\ r.secret = hook[p].secret /\ r.session = hook[p].session
  <2>1. hook[p] \in HookRows /\ t \in HookSteps
    BY HookFacts DEF HookSteps
  <2> QED BY <2>1, GoesOn
<1> HIDE DEF r
<1>3. Carries(r) /\ (work[p] # Nothing => r.step \in {"made", "revoked"})
  BY <1>2, HookFacts DEF Carries
<1>4. ~paired => Relies(r)
  BY <1>2, HookFacts DEF Relies
<1>5. ASSUME ~paired, NEW s \in Births, lost = 0, life[s] = "live", attach[s] # "active"
      PROVE  r.session = s /\ r.step \in HoldSteps
  <2>1. hook[p].step \in HoldSteps /\ hook[p].session = s
    BY <1>5, NobodyHeld, HeldHere DEF OpenCodeInv, IdentityAgrees
  <2>2. mailbox.status # "active"
    BY <1>5, HookFacts DEF IdentityAgrees
  <2>3. hook[p].step = "made" => mailbox = Box!Absent
    BY <1>5, <2>2, HookFacts DEF Relies
  <2>4. hook[p].step = "revoked" => mailbox.status = "retired"
    BY <1>5, <2>2, HookFacts DEF Relies
  <2> QED BY <1>2, <2>1, <2>3, <2>4 DEF HoldSteps
<1> QED BY <1>1, <1>2, <1>3, <1>4, <1>5, Thinks DEF Frame

LEMMA LookAtDeletedStep ==
    ASSUME OpenCodeInv, NEW p \in Hooks, LookAtDeleted(p)
    PROVE  OpenCodeInv'
<1>1. hookAt[p] = "in" /\ hook[p].step = "look" /\ UNCHANGED <<boxVars, hookAt, lost, paired, gone>>
  BY DEF LookAtDeleted, Handling, Frame, SameBox
<1>2. PICK t \in {"over", "repair", "revoke"}, s \in Births \cup {0} :
          /\ hook' = [hook EXCEPT ![p] = [hook[p] EXCEPT !.step = t, !.session = s]]
          /\ t = "over" => s = hook[p].session
          /\ t = "repair" => mailbox.status = "retired" /\ s = _latest_session_id
          /\ t = "revoke" => mailbox.status = "active" /\ s \in Births /\ attach[s] = "active"
  <2>1. attach \in [Births -> {"never", "active", "detached"}] /\ hook[p] \in HookRows /\ hook[p].session \in Births \cup {0}
        /\ mailbox.status \in {"absent", "active", "retired"} /\ (mailbox.status = "absent" => mailbox = Box!Absent)
    BY HookFacts DEF IdentityTyped
  <2>2. _active_session_id \in Births \cup {0} /\ _latest_session_id \in Births \cup {0}
        /\ (Box!Active # {} => _active_session_id \in Births /\ attach[_active_session_id] = "active")
    BY <2>1, SessionsAreFound
  <2>3. [hook[p] EXCEPT !.step = "over"] = [hook[p] EXCEPT !.step = "over", !.session = hook[p].session]
    BY <2>1 DEF HookRows
  <2>4. CASE mailbox = Box!Absent \/ (mailbox.status = "active" /\ Box!Active = {})
    <3>1. hook' = [hook EXCEPT ![p] = [hook[p] EXCEPT !.step = "over"]]
      BY <2>4 DEF LookAtDeleted, Box!Absent
    <3> QED BY <2>1, <2>3, <3>1
  <2>5. CASE mailbox.status = "retired"
    <3>1. hook' = [hook EXCEPT ![p] = [hook[p] EXCEPT !.step = "repair", !.session = _latest_session_id]]
      <4>1. mailbox # Box!Absent /\ mailbox.status # "active"
        BY <2>5 DEF Box!Absent
      <4> QED BY <4>1 DEF LookAtDeleted
    <3> QED BY <2>2, <2>5, <3>1
  <2>6. CASE mailbox.status = "active" /\ Box!Active # {}
    <3>1. hook' = [hook EXCEPT ![p] = [hook[p] EXCEPT !.step = "revoke", !.session = _active_session_id]]
      <4>1. mailbox # Box!Absent
        BY <2>6 DEF Box!Absent
      <4> QED BY <2>6, <4>1 DEF LookAtDeleted
    <3> QED BY <2>2, <2>6, <3>1
  <2> QED BY <2>1, <2>4, <2>5, <2>6
<1> DEFINE r == [hook[p] EXCEPT !.step = t, !.session = s]
<1>3. r \in HookRows /\ r.step = t /\ r.session = s
  BY <1>2, HookFacts DEF HookRows, HookSteps
<1>4. hook' = [hook EXCEPT ![p] = r]
  BY <1>2
<1> HIDE DEF r
<1>5. s # 0 => life[s] # "unborn"
  <2>1. attach \in [Births -> {"never", "active", "detached"}] /\ hook[p].session = 0
    BY <1>1, HookFacts DEF IdentityTyped, Carries
  <2>2. s # 0 => s \in Births /\ Known(s)
    BY <1>2, <2>1, SessionsAreFound DEF Known
  <2> QED BY <2>2, HookFacts DEF BornInOrder, Known
<1>6. Carries(r) /\ work[p] = Nothing
  BY <1>1, <1>2, <1>3, <1>5, HookFacts, NothingIsNone DEF Carries
<1>7. ASSUME ~paired, t = "revoke"
      PROVE  /\ \A o \in Births : attach[o] = "active" => o = s
             /\ \A o \in Births : life[o] = "live" \/ (Known(o) /\ Reached(o)) => o = s
  <2>1. \A o \in Births : attach[o] = "active" => o = s
    BY <1>2, <1>7, HookFacts DEF BoxInv, Box!OneIncarnation, Box!Active
  <2>2. \A o \in Births : life[o] = "live" \/ (Known(o) /\ Reached(o)) => attach[o] = "active"
    BY <1>1, <1>2, <1>7, HookFacts DEF IdentityAgrees, Known, IdentityTyped
  <2> QED BY <2>1, <2>2
<1>8. ASSUME ~paired, t = "repair", NEW o \in Births, Known(o), Reached(o) PROVE o = s
  <2>1. attach \in [Births -> {"never", "active", "detached"}] /\ IsLatest(o)
    BY <1>1, <1>2, <1>8, HookFacts DEF IdentityTyped, IdentityAgrees
  <2>2. s \in Births /\ Known(s) /\ IsLatest(s)
    BY <1>2, <1>8, <2>1, SessionsAreFound
  <2> QED BY <1>8, <2>1, <2>2, NothingIsNone DEF IsLatest
<1>9. ~paired => Relies(r)
  BY <1>1, <1>2, <1>3, <1>7, <1>8, HookFacts DEF Relies, Box!Absent
<1>10. ~paired => \A o \in Births : lost = 0 /\ life[o] = "live" => attach[o] = "active"
  BY <1>1, NobodyHeld DEF HoldSteps
<1> QED BY <1>1, <1>2, <1>3, <1>4, <1>6, <1>9, <1>10, Thinks

LEMMA RevokedStep ==
    ASSUME OpenCodeInv, NEW p \in Hooks, Revoked(p)
    PROVE  OpenCodeInv'
<1>1. CASE mailbox.status # "retired"
  BY <1>1, HookTurns DEF Revoked, Handling, SameBox
<1>2. CASE mailbox.status = "retired"
  <2> DEFINE r == [hook[p] EXCEPT !.step = "finalize"]
  <2>1. hookAt[p] = "in" /\ hook[p].step = "revoked" /\ work[p] = Nothing /\ UNCHANGED <<boxVars, hookAt, lost, paired, gone>>
        /\ hook' = [hook EXCEPT ![p] = r]
    BY <1>2 DEF Revoked, Handling, Frame, SameBox, Onward
  <2>2. r \in HookRows /\ r.step = "finalize" /\ r.secret = hook[p].secret /\ r.session = hook[p].session
    BY HookFacts, GoesOn DEF HookSteps
  <2> HIDE DEF r
  <2>3. Carries(r) /\ trans = Nothing
    BY <1>2, <2>1, <2>2, HookFacts DEF Carries
  <2>4. ~paired => Relies(r)
    BY <1>2, <2>1, <2>2, <2>3, HookFacts DEF Relies
  <2>5. ASSUME ~paired, NEW s \in Births, lost = 0, life[s] = "live", attach[s] # "active"
        PROVE  r.session = s /\ r.step \in HoldSteps
    BY <2>1, <2>2, <2>5, HeldHere DEF OpenCodeInv, IdentityAgrees, HoldSteps
  <2> QED BY <2>1, <2>2, <2>3, <2>4, <2>5, Thinks
<1> QED BY <1>1, <1>2

\* Leases of the lapsed are swept.
LEMMA SweepStep ==
    ASSUME OpenCodeInv, NEW p \in Hooks, Sweep(p)
    PROVE  OpenCodeInv'
<1>1. PICK t \in {"look", "succeed", "start"} :
          /\ hookAt[p] = "in" /\ hook' = [hook EXCEPT ![p] = [hook[p] EXCEPT !.step = t]]
          /\ \/ hook[p].step = "sweep" /\ t = "look"
             \/ hook[p].step = "register" /\ t = "succeed"
             \/ hook[p].step = "enroll" /\ t = "start"
  <2>1. PICK step \in DOMAIN AfterSweep : Handling(p, "message", step) /\ Onward(p, AfterSweep[step])
    BY DEF Sweep
  <2>2. \/ step = "sweep" /\ AfterSweep[step] = "look"
        \/ step = "register" /\ AfterSweep[step] = "succeed"
        \/ step = "enroll" /\ AfterSweep[step] = "start"
    BY DEF AfterSweep
  <2> QED BY <2>1, <2>2 DEF Handling, Onward
<1>2. /\ life' = [s \in Births |-> IF life[s] = "lapsed" THEN "dormant" ELSE life[s]]
      /\ attach' = [s \in Births |-> IF life[s] = "lapsed" /\ attach[s] = "active" THEN "detached" ELSE attach[s]]
      /\ UNCHANGED <<mailbox, trans, binding, work, keys, gone, hookAt, lost, paired>>
  BY DEF Sweep, Frame
<1> DEFINE r == [hook[p] EXCEPT !.step = t]
<1>3. r \in HookRows /\ r.step = t /\ r.secret = hook[p].secret /\ r.session = hook[p].session /\ hook' = [hook EXCEPT ![p] = r]
  <2>1. hook[p] \in HookRows /\ t \in HookSteps
    BY HookFacts DEF HookSteps
  <2> QED BY <1>1, <2>1, GoesOn
<1> HIDE DEF r
<1>4. /\ life \in [Births -> {"unborn", "live", "lapsed", "dormant", "ended"}] /\ attach \in [Births -> {"never", "active", "detached"}]
      /\ mailbox = Box!Absent => \A s \in Births : attach[s] = "never"
      /\ \A s, o \in Births : attach[s] = "active" /\ attach[o] = "active" => s = o
  BY HookFacts DEF BoxInv, IdentityTyped, Box!OneIncarnation, Box!Active
<1>5. \A s \in Births : /\ life'[s] \in {"unborn", "live", "dormant", "ended"} /\ (life'[s] = "unborn" <=> life[s] = "unborn")
                        /\ (life'[s] = "live" <=> life[s] = "live")
                        /\ (attach'[s] = "active" => attach[s] = "active") /\ (attach'[s] = "never" <=> attach[s] = "never")
                        /\ attach'[s] \in {"never", "active", "detached"}
                        /\ (life[s] = "live" => attach'[s] = attach[s])
  BY <1>2, <1>4
<1>6. BoxInv'
  <2>1. life' \in [Births -> {"unborn", "live", "lapsed", "dormant", "ended"}] /\ attach' \in [Births -> {"never", "active", "detached"}]
    BY <1>2, <1>5
  <2> QED BY <1>2, <1>4, <1>5, <2>1, AttachmentMoves DEF OpenCodeInv
<1>7. BornInOrder' /\ hook'[p] = r /\ hook \in [Hooks -> HookRows]
  BY <1>3, <1>5, HookFacts DEF BornInOrder, HooksTyped
<1>8. IntentIsOwned'
  <2>1. trans # Nothing /\ trans.alive => hook'[trans.owner] = hook[trans.owner]
    <3>1. CASE trans # Nothing /\ trans.alive
      <4>1. trans.owner \in Hooks /\ hook[trans.owner].step \in {"made", "failed", "revoked", "over"}
        BY <3>1 DEF OpenCodeInv, BoxInv, IdentityTyped, IntentIsOwned, Box!Intent
      <4> QED BY <1>1, <1>3, <1>7, <4>1
    <3> QED BY <3>1
  <2> QED BY <1>2, <2>1 DEF OpenCodeInv, IntentIsOwned
<1>9. HookCarries(p)'
  <2>1. Carries(hook[p])' /\ work[p] = Nothing
    BY <1>1, <1>3, <1>5, <1>7, HookFacts DEF Carries
  <2> QED BY <1>1, <1>2, <1>7, <2>1 DEF HookCarries, OpenCodeInv
<1>10. ASSUME ~paired PROVE IdentityAgrees' /\ Relies(hook[p])'
  <2>1. IdentityAgrees /\ Relies(hook[p])
    BY <1>1, <1>10, HookFacts
  <2>2. Relies(hook[p])'
    BY <1>7, <1>1, <1>2, <1>3, <1>5, <2>1 DEF Relies, IsLatest, Known
  <2>3. lost = 0 => \A s \in Births : life[s] = "live" => attach[s] = "active"
    BY <1>1, <1>10, NobodyHeld DEF HoldSteps
  <2>4. \A s \in Births : (Known(s)' <=> Known(s)) /\ (Reached(s)' => Reached(s) /\ life[s] = "live") /\ (IsLatest(s)' <=> IsLatest(s))
    BY <1>5 DEF Known, Reached, IsLatest
  <2> HIDE DEF Held
  <2>5. IdentityAgrees'
    <3>1. mailbox.status = "active" => \A s \in Births :
              /\ life'[s] = "live" => attach'[s] = "active"
              /\ attach'[s] = "detached" => ~Reached(s)'
              /\ attach'[s] = "active" => IsLatest(s)'
      BY <1>5, <2>1, <2>4 DEF IdentityAgrees
    <3>2. mailbox.status = "retired" => \A s \in Births : attach'[s] # "active" /\ (Known(s)' /\ Reached(s)' => IsLatest(s)')
      BY <1>5, <2>1, <2>4 DEF IdentityAgrees
    <3>3. gone => mailbox.status = "retired" /\ \A s \in Births : Known(s)' => ~Reached(s)'
      BY <2>1, <2>4 DEF IdentityAgrees
    <3>4. \A s, o \in Births : life'[s] = "live" /\ life'[o] = "live" => s = o
      BY <1>5, <2>1 DEF IdentityAgrees
    <3>5. trans # Nothing /\ trans.op = "revoke" => \A s \in Births : attach'[s] = "active" => s = trans.session
      BY <1>5, <2>1 DEF IdentityAgrees
    <3> QED BY <1>2, <1>5, <2>3, <3>1, <3>2, <3>3, <3>4, <3>5 DEF IdentityAgrees
  <2> QED BY <1>7, <2>2, <2>5
<1>11. gone' \in BOOLEAN /\ UNCHANGED <<hookAt, lost, paired>> /\ \A q \in Hooks : q # p => work'[q] = work[q]
  BY <1>2, HookFacts DEF HooksTyped
<1>12. \A s \in Births : life[s] # "unborn" => life'[s] # "unborn"
  BY <1>5
<1> QED BY <1>1, <1>3, <1>6, <1>7, <1>8, <1>9, <1>10, <1>11, <1>12, InsideStep

\* What a settlement leaves: of an aborted mailbox nothing, of a retired one the latest Session.
LEMMA SettledAgrees ==
    ASSUME OpenCodeInv, ~paired, trans # Nothing, Box!Settle, UNCHANGED <<binding, life, keys, lost, gone>>,
           lost = 0 => \A s \in Births : life[s] = "live" => attach'[s] = "active" \/ Held(s)'
    PROVE  IdentityAgrees'
<1>1. IdentityAgrees /\ BoxInv /\ trans \in Box!Intent /\ mailbox.status = "active" /\ attach \in [Births -> {"never", "active", "detached"}]
      /\ mailbox \in Box!MailboxRow /\ trans.session \in Births
  BY DEF OpenCodeInv, BoxInv, IdentityTyped, IntentStands, Box!Intent
<1>2. trans' = Nothing /\
      \/ mailbox' = Box!Absent /\ attach' = [s \in Births |-> "never"]
      \/ trans.op = "revoke" /\ mailbox' = [mailbox EXCEPT !.status = "retired"] /\ attach' = Box!Detached(trans.session)
      \/ UNCHANGED <<mailbox, attach>>
  BY <1>1, IntentSettles
<1> HIDE DEF Held
<1>3. CASE mailbox' = Box!Absent /\ attach' = [s \in Births |-> "never"]
  BY <1>1, <1>2, <1>3 DEF IdentityAgrees, Box!Absent, Known, Reached
<1>4. CASE trans.op = "revoke" /\ mailbox' = [mailbox EXCEPT !.status = "retired"] /\ attach' = Box!Detached(trans.session)
  <2>1. mailbox'.status = "retired"
    BY <1>1, <1>4 DEF Box!MailboxRow
  <2>2. \A s \in Births : attach'[s] # "active" /\ (Known(s)' <=> Known(s)) /\ (Reached(s)' <=> Reached(s))
    BY <1>1, <1>4 DEF IdentityAgrees, Box!Detached, Known, Reached
  <2>3. \A s \in Births : Known(s) /\ Reached(s) => IsLatest(s)
    BY <1>1 DEF IdentityAgrees, Known
  <2>4. \A s \in Births : IsLatest(s)' <=> IsLatest(s)
    BY <2>2 DEF IsLatest
  <2> QED BY <1>1, <1>2, <2>1, <2>2, <2>3, <2>4 DEF IdentityAgrees
<1>5. CASE UNCHANGED <<mailbox, attach>>
  BY <1>1, <1>2, <1>5 DEF IdentityAgrees, Known, Reached, IsLatest
<1> QED BY <1>2, <1>3, <1>4, <1>5

LEMMA SettledIsBorn ==
    ASSUME OpenCodeInv, trans # Nothing, Box!Settle, UNCHANGED <<binding, life, keys>>
    PROVE  BornInOrder'
<1>1. BoxInv /\ BornInOrder /\ attach \in [Births -> {"never", "active", "detached"}]
  BY DEF OpenCodeInv, BoxInv, IdentityTyped
<1>2. \A s \in Births : attach'[s] # "never" => attach[s] # "never"
  BY <1>1, IntentSettles DEF Box!Detached
<1> QED BY <1>1, <1>2 DEF BornInOrder

\* The intent of a process that died: its work is over.
LEMMA ReconcileStep ==
    ASSUME OpenCodeInv, NEW p \in Hooks, Reconcile(p)
    PROVE  OpenCodeInv'
<1>1. PICK t \in {"sweep", "look"} : hookAt[p] = "in" /\ hook[p].step = "reconcile" /\ Onward(p, t)
      /\ UNCHANGED <<hookAt, lost, paired, gone>>
  BY DEF Reconcile, Handling, Frame
<1>2. CASE ~(trans # Nothing /\ ~trans.alive /\ Box!Settleable)
  <2>1. UNCHANGED boxVars
    BY <1>2 DEF Reconcile, SameBox
  <2>2. ~paired => trans = Nothing \/ trans.op = "create"
    <3>1. SUFFICES ASSUME ~paired, trans # Nothing, trans.op = "revoke" PROVE FALSE
      BY HookFacts DEF IdentityTyped
    <3>2. trans \in Box!Intent /\ trans.owner \in Hooks /\ binding \in {Nothing, trans.from} /\ trans.to = Nothing
      BY <3>1 DEF OpenCodeInv, BoxInv, IdentityTyped, IntentStands, Box!Intent
    <3>3. Box!Settleable
      BY <3>1, <3>2 DEF Box!Settleable, Box!Done, Box!Undone, Box!MayGoOn
    <3>4. hook[trans.owner].step \in {"made", "failed", "revoked", "over"}
      BY <1>2, <3>1, <3>3 DEF OpenCodeInv, IntentIsOwned
    <3>5. hookAt[trans.owner] = "in"
      BY <3>2, <3>4 DEF OpenCodeInv, HookCarries
    <3> QED BY <1>1, <3>1, <3>2, <3>4, <3>5 DEF OpenCodeInv
  <2> QED BY <1>1, <2>1, <2>2, HookTurns DEF Reconcile
<1>3. CASE trans # Nothing /\ ~trans.alive /\ Box!Settleable
  <2>1. Box!Settle /\ UNCHANGED <<binding, life, work, keys>>
    BY <1>3 DEF Reconcile, Box!reconcile_managed_mailbox_bindings
  <2> DEFINE r == [hook[p] EXCEPT !.step = t]
  <2>2. r \in HookRows /\ r.step = t /\ r.secret = hook[p].secret /\ r.session = hook[p].session /\ hook' = [hook EXCEPT ![p] = r]
    <3>1. hook[p] \in HookRows /\ t \in HookSteps
      BY HookFacts DEF HookSteps
    <3> QED BY <1>1, <3>1, GoesOn DEF Onward
  <2> HIDE DEF r
  <2>3. \A q \in Hooks : work[q] = Nothing
    BY <1>3 DEF OpenCodeInv, BoxInv, Box!SoleWriter
  <2>4. trans' = Nothing /\ BoxInv' /\ BornInOrder'
    <3>1. BoxInv
      BY DEF OpenCodeInv
    <3>2. /\ mailbox' \in Box!MailboxRow /\ trans' = Nothing
          /\ attach' \in [Births -> {"never", "active", "detached"}]
          /\ (mailbox = Box!Absent => \A s \in Births : attach[s] = "never")'
          /\ SecretIsMinted' /\ Box!BindingAgrees' /\ Box!OneIncarnation'
      BY <1>3, <2>1, <3>1, IntentSettles
    <3>3. IdentityTyped' /\ IntentStands' /\ Box!SoleWriter'
      BY <2>1, <2>3, <3>1, <3>2 DEF BoxInv, IdentityTyped, IntentStands, Box!SoleWriter
    <3> QED BY <1>3, <2>1, <3>2, <3>3, SettledIsBorn DEF BoxInv
  <2>5. hook'[p] = r
    BY <2>2, HookFacts DEF HooksTyped
  <2>6. HookCarries(p)'
    <3>1. Carries(hook[p])'
      BY <2>5, <1>1, <2>1, <2>2, HookFacts DEF Carries
    <3> QED BY <1>1, <2>1, <2>3, <2>5, <3>1 DEF HookCarries
  <2>7. ASSUME ~paired PROVE IdentityAgrees' /\ Relies(hook[p])'
    <3>1. lost # 0 \/ UNCHANGED attach
      <4>1. trans.owner \in Hooks /\ BoxInv
        BY <1>3 DEF OpenCodeInv, BoxInv, IdentityTyped, Box!Intent
      <4>2. lost = 0 => trans.op = "revoke" /\ binding = trans.from
        BY <1>3, <2>3, <4>1 DEF OpenCodeInv, IntentIsOwned
      <4>3. trans.from # Nothing
        BY <1>3, NothingIsNone DEF OpenCodeInv, BoxInv, IdentityTyped, Box!Intent
      <4> QED BY <1>3, <2>1, <4>1, <4>2, <4>3, IntentSettles
    <3>2. lost = 0 => \A s \in Births : life[s] = "live" => attach'[s] = "active"
      BY <1>1, <2>7, <3>1, NobodyHeld DEF HoldSteps
    <3>3. IdentityAgrees'
      BY <1>1, <1>3, <2>1, <2>7, <3>2, SettledAgrees
    <3>4. Relies(hook[p])'
      BY <2>5, <1>1, <2>2, <2>4 DEF Relies
    <3> QED BY <2>5, <3>3, <3>4
  <2>8. IntentIsOwned'
    BY <2>4 DEF IntentIsOwned
  <2> QED BY <1>1, <2>1, <2>2, <2>4, <2>6, <2>7, <2>8, InsideStep, HookFacts DEF HooksTyped
<1> QED BY <1>2, <1>3

\* A heartbeat with the proof.
LEMMA RenewStep ==
    ASSUME OpenCodeInv, NEW p \in Hooks, Renew(p)
    PROVE  OpenCodeInv'
<1> DEFINE s == hook[p].session
<1>1. hookAt[p] = "in" /\ hook[p].step = "renew" /\ UNCHANGED <<hookAt, lost, paired, gone>>
  BY DEF Renew, Handling, Frame
<1>2. CASE ~(Box!Proves(hook[p].secret) /\ life[s] # "ended" /\ Box!MayAttach(s))
  BY <1>1, <1>2, HookTurns DEF Renew, SameBox
<1>3. CASE Box!Proves(hook[p].secret) /\ life[s] # "ended" /\ Box!MayAttach(s)
  <2>1. Box!resume_agent_mailbox(s, hook[p].secret) /\ Onward(p, "over")
    BY <1>3 DEF Renew, Finished
  <2>2. life' = [life EXCEPT ![s] = "live"] /\ attach' = Box!Attached(s) /\ UNCHANGED <<mailbox, trans, binding, work, keys>>
        /\ mailbox.status = "active"
    BY <2>1 DEF Box!resume_agent_mailbox, Box!Proves
  <2>3. s \in Births /\ life[s] # "unborn" /\ life \in [Births -> {"unborn", "live", "lapsed", "dormant", "ended"}]
        /\ attach \in [Births -> {"never", "active", "detached"}] /\ work[p] = Nothing /\ BoxInv /\ BornInOrder
    BY <1>1, HookFacts DEF Carries, IdentityTyped
  <2> DEFINE r == [hook[p] EXCEPT !.step = "over"]
  <2>4. r \in HookRows /\ r.step = "over" /\ r.secret = hook[p].secret /\ r.session = s /\ hook' = [hook EXCEPT ![p] = r]
    <3>1. hook[p] \in HookRows /\ "over" \in HookSteps
      BY HookFacts DEF HookSteps
    <3> QED BY <2>1, <3>1, GoesOn DEF Onward
  <2> HIDE DEF r
  <2>5. hook'[p] = r /\ hook \in [Hooks -> HookRows]
    BY <2>4, HookFacts DEF HooksTyped
  <2>6. BoxInv'
    <3>1. life' \in [Births -> {"unborn", "live", "lapsed", "dormant", "ended"}]
      BY <2>2, <2>3
    <3> QED BY <2>2, <2>3, <3>1, SessionMoves
  <2>7. \A o \in Births : /\ attach'[o] # "never" => attach[o] # "never" \/ o = s
                          /\ life'[o] = "unborn" <=> life[o] = "unborn"
                          /\ life'[o] = "live" <=> life[o] = "live" \/ o = s
                          /\ attach'[o] = "active" <=> o = s
                          /\ o # s => life'[o] = life[o] /\ attach'[o] = IF attach[o] = "active" THEN "detached" ELSE attach[o]
    BY <2>2, <2>3 DEF Box!Attached
  <2>8. BornInOrder'
    BY <2>3, <2>7 DEF BornInOrder
  <2>9. HookCarries(p)'
    <3>1. Carries(hook[p])'
      BY <2>5, <2>3, <2>4, <2>7, HookFacts DEF Carries
    <3> QED BY <1>1, <2>2, <2>3, <2>5, <3>1 DEF HookCarries
  <2>10. IntentIsOwned'
    <3>1. trans # Nothing /\ trans.alive => hook'[trans.owner].step \in {"made", "failed", "revoked", "over"}
      <4>1. CASE trans # Nothing /\ trans.alive
        <5>1. trans.owner \in Hooks /\ hook[trans.owner].step \in {"made", "failed", "revoked", "over"}
          BY <4>1 DEF OpenCodeInv, BoxInv, IdentityTyped, IntentIsOwned, Box!Intent
        <5> QED BY <2>4, <2>5, <5>1
      <4> QED BY <4>1
    <3> QED BY <1>1, <2>2, <3>1 DEF OpenCodeInv, IntentIsOwned
  <2>11. ASSUME ~paired PROVE IdentityAgrees' /\ Relies(hook[p])'
    <3>1. IdentityAgrees /\ Relies(hook[p])
      BY <1>1, <2>11, HookFacts
    <3>2. \A o \in Births : life[o] = "live" => o = s
      BY <1>1, <2>2, <3>1 DEF IdentityAgrees, Relies
    <3>3. \A o \in Births : attach[o] = "active" => o = s
      BY <1>1, <3>1 DEF Relies
    <3>4. IsLatest(s) /\ \A o \in Births : Known(o)' => Known(o) \/ o = s
      BY <1>1, <2>7, <3>1 DEF Relies, Known
    <3>5. ASSUME NEW o \in Births, o = s PROVE IsLatest(o)'
      BY <2>3, <3>4, <3>5, NothingIsNone DEF IsLatest
    <3>6. \A o \in Births : attach'[o] = "detached" => ~Reached(o)'
      BY <2>2, <2>7, <3>1, <3>3 DEF IdentityAgrees, Reached
    <3>7. trans = Nothing \/ trans.op # "revoke"
      BY <1>1, <3>1 DEF Relies
    <3>8. ~gone
      BY <2>2, <3>1 DEF IdentityAgrees
    <3> HIDE DEF Held
    <3>9. IdentityAgrees'
      BY <1>1, <2>2, <2>7, <3>2, <3>5, <3>6, <3>7, <3>8 DEF IdentityAgrees
    <3>10. Relies(hook[p])'
      BY <2>5, <2>4 DEF Relies
    <3> QED BY <2>5, <3>9, <3>10
  <2> QED BY <1>1, <2>2, <2>4, <2>6, <2>7, <2>8, <2>9, <2>10, <2>11, InsideStep, HookFacts DEF HooksTyped
<1> QED BY <1>2, <1>3

\* An intent stays with its process.
LEMMA OwnerStays ==
    ASSUME OpenCodeInv, NEW p \in Hooks, NEW r \in HookRows, hook' = [hook EXCEPT ![p] = r], UNCHANGED <<trans, binding, work, lost>>,
           hook[p].step \in {"made", "failed", "revoked", "over"} => r.step \in {"made", "failed", "revoked", "over"} \/ trans = Nothing
    PROVE  IntentIsOwned'
<1>1. hook'[p] = r /\ hook \in [Hooks -> HookRows]
  BY HookFacts DEF HooksTyped
<1>2. CASE trans # Nothing
  <2>1. trans.owner \in Hooks
    BY <1>2 DEF OpenCodeInv, BoxInv, IdentityTyped, Box!Intent
  <2>2. trans.alive => hook[trans.owner].step \in {"made", "failed", "revoked", "over"}
    BY <1>2 DEF OpenCodeInv, IntentIsOwned
  <2>3. trans.alive => hook'[trans.owner].step \in {"made", "failed", "revoked", "over"}
    BY <1>1, <1>2, <2>1, <2>2
  <2> QED BY <2>3 DEF OpenCodeInv, IntentIsOwned
<1> QED BY <1>2 DEF IntentIsOwned

\* The predecessor has been born, and is the Session that is live, where there is one.
LEMMA PredecessorFacts ==
    ASSUME OpenCodeInv, NEW p \in Hooks
    PROVE  /\ Predecessor(p) = 0 \/ (Predecessor(p) \in Births /\ life[Predecessor(p)] # "unborn")
           /\ hook[p].session # 0 => Predecessor(p) = hook[p].session
           /\ hook[p].session = 0 /\ (\E o \in Births : life[o] = "live") => Predecessor(p) \in Births /\ life[Predecessor(p)] = "live"
<1>1. Born \subseteq Births /\ \A s \in Births : s \in Born <=> life[s] # "unborn"
  BY DEF Born, Unborn
<1>2. LiveHandles \subseteq Born /\ \A s \in Births : s \in LiveHandles <=> life[s] = "live"
  BY <1>1 DEF LiveHandles
<1>3. LiveHandles # {} => (CHOOSE s \in LiveHandles : TRUE) \in LiveHandles
  OBVIOUS
<1>4. Born # {} => (CHOOSE s \in Born : \A o \in Born : o <= s) \in Born
  <2>1. Born # {} => \E s \in Born : \A o \in Born : o <= s
    BY <1>1, LastExists
  <2> QED BY <2>1
<1>5. hook[p].session # 0 => Predecessor(p) = hook[p].session
  BY DEF Predecessor
<1>6. CASE hook[p].session # 0
  BY <1>5, <1>6, HookFacts DEF Carries
<1>7. CASE hook[p].session = 0 /\ LiveHandles # {}
  <2>1. Predecessor(p) \in LiveHandles
    BY <1>3, <1>7 DEF Predecessor
  <2> QED BY <1>1, <1>2, <1>7, <2>1
<1>8. CASE hook[p].session = 0 /\ LiveHandles = {}
  <2>1. Predecessor(p) = 0 \/ Predecessor(p) \in Born
    BY <1>4, <1>8 DEF Predecessor
  <2> QED BY <1>1, <1>2, <1>8, <2>1
<1> QED BY <1>6, <1>7, <1>8

\* A Session is born after all others, and its predecessor turns dormant.
LEMMA BirthSteps ==
    ASSUME OpenCodeInv, NEW p \in Hooks, NEW s \in Unborn, \A o \in Unborn : s <= o,
           life' = [Superseded(Predecessor(p)) EXCEPT ![s] = "live"]
    PROVE  /\ s \in Births /\ life[s] = "unborn" /\ attach[s] = "never"
           /\ life' \in [Births -> {"unborn", "live", "lapsed", "dormant", "ended"}]
           /\ \A o \in Births : /\ life'[o] = "live" <=> o = s \/ (life[o] = "live" /\ o # Predecessor(p))
                                /\ life'[o] = "unborn" <=> life[o] = "unborn" /\ o # s
                                /\ Reached(o)' <=> o = s \/ (Reached(o) /\ o # Predecessor(p))
                                /\ life[o] # "unborn" => o < s
           /\ \A q, o \in Births : life'[q] = "unborn" /\ life'[o] # "unborn" => o < q
<1>1. s \in Births /\ life[s] = "unborn" /\ BornInOrder /\ life \in [Births -> {"unborn", "live", "lapsed", "dormant", "ended"}]
  BY HookFacts DEF Unborn, IdentityTyped
<1>2. attach[s] = "never" /\ \A o \in Births : life[o] # "unborn" => o < s
  BY <1>1 DEF BornInOrder
<1>3. s # Predecessor(p) /\ (Predecessor(p) = 0 \/ (Predecessor(p) \in Births /\ life[Predecessor(p)] # "unborn"))
  BY <1>1, PredecessorFacts, NothingIsNone
<1>4. \A o \in Births : life'[o] = IF o = s THEN "live" ELSE IF o = Predecessor(p) /\ life[o] # "ended" THEN "dormant" ELSE life[o]
  BY <1>1 DEF Superseded
<1>5. life' \in [Births -> {"unborn", "live", "lapsed", "dormant", "ended"}]
  BY <1>1 DEF Superseded
<1>6. \A o \in Births : /\ life'[o] = "live" <=> o = s \/ (life[o] = "live" /\ o # Predecessor(p))
                        /\ life'[o] = "unborn" <=> life[o] = "unborn" /\ o # s
                        /\ Reached(o)' <=> o = s \/ (Reached(o) /\ o # Predecessor(p))
  <2>1. ASSUME NEW o \in Births PROVE life'[o] = "live" <=> o = s \/ (life[o] = "live" /\ o # Predecessor(p))
    BY <1>1, <1>3, <1>4
  <2>2. ASSUME NEW o \in Births PROVE life'[o] = "unborn" <=> life[o] = "unborn" /\ o # s
    <3>1. o # 0
      BY NothingIsNone
    <3> QED BY <1>1, <1>3, <1>4, <3>1
  <2>3. ASSUME NEW o \in Births PROVE Reached(o)' <=> o = s \/ (Reached(o) /\ o # Predecessor(p))
    <3>1. Reached(o)' <=> life'[o] \in {"live", "lapsed"}
      BY DEF Reached
    <3> QED BY <1>1, <1>3, <1>4, <3>1 DEF Reached
  <2> QED BY <2>1, <2>2, <2>3
<1>7. ASSUME NEW q \in Births, NEW o \in Births, life'[q] = "unborn", life'[o] # "unborn" PROVE o < q
  <2>1. q \in Unborn /\ q # s /\ s <= q /\ s \in Nat /\ q \in Nat
    BY <1>1, <1>6, <1>7, NothingIsNone DEF Unborn
  <2>2. o = s \/ life[o] # "unborn"
    BY <1>6, <1>7
  <2> QED BY <1>1, <1>7, <2>1, <2>2 DEF BornInOrder
<1> QED BY <1>1, <1>2, <1>5, <1>6, <1>7

\* A successor is born attached.
LEMMA SucceedStep ==
    ASSUME OpenCodeInv, NEW p \in Hooks, Succeed(p)
    PROVE  OpenCodeInv'
<1>1. hookAt[p] = "in" /\ hook[p].step = "succeed" /\ Onward(p, "over") /\ UNCHANGED <<mailbox, trans, binding, work, keys, gone, hookAt, lost, paired>>
  BY DEF Succeed, Handling, Frame, Finished
<1>2. CASE ~(MayStart(p, hook[p].secret) /\ \A o \in Box!Active \ {Predecessor(p)} : life[o] # "live")
  <2>1. UNCHANGED boxVars
    BY <1>1, <1>2 DEF Succeed, boxVars
  <2> QED BY <1>1, <2>1, HookTurns DEF Succeed
<1>3. CASE MayStart(p, hook[p].secret) /\ \A o \in Box!Active \ {Predecessor(p)} : life[o] # "live"
  <2>1. PICK s \in Unborn :
          /\ \A o \in Unborn : s <= o
          /\ life' = [Superseded(Predecessor(p)) EXCEPT ![s] = "live"]
          /\ attach' = [o \in Births |-> IF o = s THEN "active" ELSE IF attach[o] = "active" THEN "detached" ELSE attach[o]]
    BY <1>3 DEF Succeed
  <2>2. mailbox.status = "active"
    <3>1. hook[p].secret \in Box!Secrets /\ hook[p].secret # 0
      BY <1>1, HookFacts, NothingIsNone DEF Carries, Box!Secrets
    <3> QED BY <1>3, <3>1 DEF MayStart, Box!Proves
  <2> DEFINE r == [hook[p] EXCEPT !.step = "over"]
  <2>3. r \in HookRows /\ r.step = "over" /\ r.secret = hook[p].secret /\ r.session = hook[p].session /\ hook' = [hook EXCEPT ![p] = r]
    <3>1. hook[p] \in HookRows /\ "over" \in HookSteps
      BY HookFacts DEF HookSteps
    <3> QED BY <1>1, <3>1, GoesOn DEF Onward
  <2> HIDE DEF r
  <2>4. hook'[p] = r /\ BoxInv /\ attach \in [Births -> {"never", "active", "detached"}] /\ work[p] = Nothing /\ gone \in BOOLEAN
    BY <1>1, <2>3, HookFacts DEF HooksTyped, IdentityTyped
  <2>5. /\ s \in Births /\ life[s] = "unborn" /\ attach[s] = "never"
        /\ life' \in [Births -> {"unborn", "live", "lapsed", "dormant", "ended"}]
        /\ \A o \in Births : /\ life'[o] = "live" <=> o = s \/ (life[o] = "live" /\ o # Predecessor(p))
                             /\ life'[o] = "unborn" <=> life[o] = "unborn" /\ o # s
                             /\ Reached(o)' <=> o = s \/ (Reached(o) /\ o # Predecessor(p))
                             /\ life[o] # "unborn" => o < s
        /\ \A q, o \in Births : life'[q] = "unborn" /\ life'[o] # "unborn" => o < q
    BY <2>1, BirthSteps
  <2>6. attach' \in [Births -> {"never", "active", "detached"}]
        /\ \A o \in Births : /\ attach'[o] = "active" <=> o = s
                             /\ o # s => attach'[o] = IF attach[o] = "active" THEN "detached" ELSE attach[o]
    BY <2>1, <2>4, <2>5
  <2>7. BoxInv'
    <3>1. mailbox # Box!Absent
      BY <2>2 DEF Box!Absent
    <3> QED BY <1>1, <2>4, <2>5, <2>6, <3>1, AttachmentMoves
  <2>8. BornInOrder'
    BY <2>5, <2>6, HookFacts DEF BornInOrder
  <2>9. IntentIsOwned'
    BY <1>1, <2>3, OwnerStays
  <2>10. HookCarries(p)'
    <3>1. hook[p].session # 0 => hook[p].session \in Births /\ life'[hook[p].session] # "unborn"
      BY <2>5, HookFacts DEF Carries
    <3> QED BY <1>1, <2>3, <2>4, <3>1 DEF HookCarries, Carries
  <2>11. ASSUME ~paired PROVE IdentityAgrees' /\ Relies(hook[p])'
    <3>1. IdentityAgrees /\ Relies(hook[p])
      BY <1>1, <2>11, HookFacts
    <3>2. \A o \in Births : attach[o] = "active" => o = hook[p].session /\ o = Predecessor(p)
      BY <1>1, <3>1, PredecessorFacts, NothingIsNone DEF Relies
    <3>3. \A o \in Births : life'[o] = "live" => o = s
      BY <2>2, <2>5, <3>1, <3>2 DEF IdentityAgrees
    <3>4. ASSUME NEW o \in Births, attach'[o] = "detached" PROVE ~Reached(o)'
      BY <2>2, <2>4, <2>5, <2>6, <3>1, <3>2, <3>4 DEF IdentityAgrees
    <3>5. ASSUME NEW o \in Births, o = s PROVE IsLatest(o)'
      <4>1. \A q \in Births : Known(q)' => q = s \/ life[q] # "unborn"
        BY <2>6, HookFacts DEF Known, BornInOrder
      <4> QED BY <2>5, <3>5, <4>1, NothingIsNone DEF IsLatest
    <3>6. (trans = Nothing \/ trans.op # "revoke") /\ ~gone
      BY <1>1, <2>2, <3>1 DEF Relies, IdentityAgrees
    <3> HIDE DEF Held
    <3>7. IdentityAgrees'
      BY <1>1, <2>2, <2>6, <3>3, <3>4, <3>5, <3>6 DEF IdentityAgrees
    <3>8. Relies(hook[p])'
      BY <2>3, <2>4 DEF Relies
    <3> QED BY <3>7, <3>8
  <2>12. \A o \in Births : life[o] # "unborn" => life'[o] # "unborn"
    BY <2>5
  <2> QED BY <1>1, <2>3, <2>4, <2>7, <2>8, <2>9, <2>10, <2>11, <2>12, InsideStep
<1> QED BY <1>2, <1>3

\* A Session is started without a mailbox.
LEMMA EnrollStep ==
    ASSUME OpenCodeInv, NEW p \in Hooks, Enroll(p)
    PROVE  OpenCodeInv'
<1>1. hookAt[p] = "in" /\ hook[p].step = "start" /\ UNCHANGED <<mailbox, trans, binding, work, keys, gone, hookAt, lost, paired>>
  BY DEF Enroll, Handling, Frame
<1>2. CASE ~MayStart(p, 0)
  <2>1. UNCHANGED boxVars /\ Onward(p, "over")
    BY <1>1, <1>2 DEF Enroll, boxVars, Finished
  <2> QED BY <1>1, <2>1, HookTurns DEF Enroll
<1>3. CASE MayStart(p, 0)
  <2>1. PICK s \in Unborn :
          /\ \A o \in Unborn : s <= o
          /\ life' = [Superseded(Predecessor(p)) EXCEPT ![s] = "live"]
          /\ attach' = Detached(Predecessor(p))
          /\ hook' = [hook EXCEPT ![p] = [hook[p] EXCEPT !.session = s, !.step = "create"]]
    BY <1>3 DEF Enroll
  <2> DEFINE r == [hook[p] EXCEPT !.session = s, !.step = "create"]
  <2>2. /\ s \in Births /\ life[s] = "unborn" /\ attach[s] = "never"
        /\ life' \in [Births -> {"unborn", "live", "lapsed", "dormant", "ended"}]
        /\ \A o \in Births : /\ life'[o] = "live" <=> o = s \/ (life[o] = "live" /\ o # Predecessor(p))
                             /\ life'[o] = "unborn" <=> life[o] = "unborn" /\ o # s
                             /\ Reached(o)' <=> o = s \/ (Reached(o) /\ o # Predecessor(p))
                             /\ life[o] # "unborn" => o < s
        /\ \A q, o \in Births : life'[q] = "unborn" /\ life'[o] # "unborn" => o < q
    BY <2>1, BirthSteps
  <2>3. r \in HookRows /\ r.step = "create" /\ r.session = s
    BY <2>2, HookFacts DEF HookRows, HookSteps
  <2>4. hook' = [hook EXCEPT ![p] = r]
    BY <2>1
  <2> HIDE DEF r
  <2>5. hook'[p] = r /\ BoxInv /\ attach \in [Births -> {"never", "active", "detached"}] /\ work[p] = Nothing /\ gone \in BOOLEAN
        /\ (mailbox = Box!Absent => \A o \in Births : attach[o] = "never")
    BY <1>1, <2>4, HookFacts DEF HooksTyped, IdentityTyped
  <2>6. attach' \in [Births -> {"never", "active", "detached"}]
        /\ \A o \in Births : /\ attach'[o] = "active" => attach[o] = "active"
                             /\ attach'[o] = "never" <=> attach[o] = "never"
    BY <2>1, <2>5 DEF Detached
  <2>7. BoxInv'
    <3>1. \A o, q \in Births : attach'[o] = "active" /\ attach'[q] = "active" => o = q
      BY <2>5, <2>6 DEF BoxInv, Box!OneIncarnation, Box!Active
    <3> QED BY <1>1, <2>2, <2>5, <2>6, <3>1, AttachmentMoves
  <2>8. BornInOrder'
    BY <2>2, <2>6, HookFacts DEF BornInOrder
  <2>9. IntentIsOwned'
    BY <1>1, <2>3, <2>4, OwnerStays
  <2>10. HookCarries(p)'
    <3>1. s # 0 /\ life'[s] # "unborn"
      BY <2>2, NothingIsNone
    <3> QED BY <1>1, <2>3, <2>5, <3>1 DEF HookCarries, Carries
  <2>11. ASSUME ~paired PROVE IdentityAgrees' /\ Relies(hook[p])'
    <3>1. IdentityAgrees /\ Relies(hook[p]) /\ hook[p].session = 0 /\ mailbox = Box!Absent
      BY <1>1, <2>11, HookFacts DEF Relies, Carries
    <3>2. \A o \in Births : life'[o] = "live" => o = s
      <4>1. ASSUME NEW o \in Births, life[o] = "live" PROVE o = Predecessor(p)
        BY <3>1, <4>1, PredecessorFacts DEF IdentityAgrees
      <4> QED BY <2>2, <4>1
    <3>3. trans = Nothing /\ ~gone /\ mailbox.status = "absent"
      BY <3>1, HookFacts DEF IdentityAgrees, Box!Absent
    <3>4. Held(s)'
      BY <2>3, <2>5 DEF Held
    <3> HIDE DEF Held
    <3>5. IdentityAgrees'
      BY <1>1, <2>2, <3>2, <3>3, <3>4 DEF IdentityAgrees
    <3>6. Relies(hook[p])'
      BY <1>1, <2>3, <2>5, <3>1, <3>2 DEF Relies
    <3> QED BY <3>5, <3>6
  <2>12. \A o \in Births : life[o] # "unborn" => life'[o] # "unborn"
    BY <2>2
  <2> QED BY <1>1, <2>3, <2>4, <2>5, <2>7, <2>8, <2>9, <2>10, <2>11, <2>12, InsideStep
<1> QED BY <1>2, <1>3

\* The mailbox is made with the Session that was started for it.
LEMMA CreateStep ==
    ASSUME OpenCodeInv, NEW p \in Hooks, Create(p)
    PROVE  OpenCodeInv'
<1> DEFINE s == hook[p].session
<1>1. hookAt[p] = "in" /\ hook[p].step = "create" /\ UNCHANGED <<gone, hookAt, lost, paired>> /\ s \in Births
      /\ life[s] # "unborn" /\ hook[p] \in HookRows /\ hook \in [Hooks -> HookRows] /\ gone \in BOOLEAN
      /\ attach \in [Births -> {"never", "active", "detached"}] /\ BoxInv
  <2>1. hookAt[p] = "in" /\ hook[p].step = "create" /\ UNCHANGED <<gone, hookAt, lost, paired>>
    BY DEF Create, Handling, Frame
  <2> QED BY <2>1, HookFacts DEF Carries, HooksTyped, IdentityTyped
<1>2. CASE ~MayCreate(s)
  BY <1>1, <1>2, HookTurns DEF Create, SameBox
<1>3. CASE MayCreate(s)
  <2>1. Box!create_managed_agent_mailbox(p, s) /\ Onward(p, "made") /\ life[s] = "live"
    BY <1>3 DEF Create, MayCreate
  <2>2. /\ BoxInv' /\ trans' # Nothing /\ mailbox'.status = "active" /\ trans'.op = "create" /\ trans'.owner = p
        /\ work' = [work EXCEPT ![p] = "prepared"] /\ trans = Nothing /\ UNCHANGED <<binding, life>>
        /\ attach' = Box!Attached(s) /\ mailbox = Box!Absent
    BY <1>1, <2>1, BoxIsCreated
  <2> DEFINE r == [hook[p] EXCEPT !.step = "made"]
  <2>3. r \in HookRows /\ r.step = "made" /\ r.secret = hook[p].secret /\ r.session = s /\ hook' = [hook EXCEPT ![p] = r]
    <3>1. hook[p] \in HookRows /\ "made" \in HookSteps
      BY <1>1 DEF HookSteps
    <3> QED BY <2>1, <3>1, GoesOn DEF Onward
  <2> HIDE DEF r
  <2>4. hook'[p] = r /\ work \in [Hooks -> Box!Steps \cup {Nothing}] /\ \A o \in Births : attach[o] = "never"
    BY <1>1, <2>2, <2>3, HookFacts DEF IdentityTyped
  <2>5. work'[p] = "prepared" /\ work'[p] # Nothing /\ \A q \in Hooks : q # p => work'[q] = work[q]
    BY <2>2, <2>4, NothingIsNone DEF Box!Steps
  <2>6. \A o \in Births : attach'[o] = IF o = s THEN "active" ELSE "never"
    BY <1>1, <2>2, <2>4 DEF Box!Attached
  <2>7. BornInOrder'
    BY <1>1, <2>2, <2>6, HookFacts DEF BornInOrder
  <2>8. IntentIsOwned'
    BY <2>2, <2>3, <2>4, <2>5 DEF IntentIsOwned
  <2>9. HookCarries(p)'
    BY <1>1, <2>2, <2>3, <2>4, HookFacts DEF HookCarries, Carries
  <2>10. ASSUME ~paired PROVE IdentityAgrees' /\ Relies(hook[p])'
    <3>1. \A o \in Births : life[o] = "live" => o = s
      BY <1>1, <2>10, HookFacts DEF Relies
    <3>2. ASSUME NEW o \in Births, o = s PROVE IsLatest(o)'
      BY <2>6, <3>2, NothingIsNone DEF IsLatest, Known
    <3>3. ~gone
      BY <1>1, <2>2, <2>10, HookFacts DEF IdentityAgrees, Box!Absent
    <3> HIDE DEF Held
    <3>4. IdentityAgrees'
      BY <1>1, <2>2, <2>6, <3>1, <3>2, <3>3 DEF IdentityAgrees
    <3>5. Relies(hook[p])'
      BY <2>2, <2>3, <2>4, <3>1 DEF Relies
    <3> QED BY <3>4, <3>5
  <2> QED BY <1>1, <2>2, <2>3, <2>5, <2>7, <2>8, <2>9, <2>10, InsideStep
<1> QED BY <1>2, <1>3

\* The intent to retire it.
LEMMA RevokeBindingStep ==
    ASSUME OpenCodeInv, NEW p \in Hooks, RevokeBinding(p)
    PROVE  OpenCodeInv'
<1> DEFINE s == hook[p].session
<1>1. hookAt[p] = "in" /\ hook[p].step = "revoke" /\ UNCHANGED <<gone, hookAt, lost, paired>> /\ s \in Births
      /\ hook[p] \in HookRows /\ hook \in [Hooks -> HookRows] /\ gone \in BOOLEAN /\ BoxInv
  <2>1. hookAt[p] = "in" /\ hook[p].step = "revoke" /\ UNCHANGED <<gone, hookAt, lost, paired>>
    BY DEF RevokeBinding, Handling, Frame
  <2> QED BY <2>1, HookFacts DEF Carries, HooksTyped, IdentityTyped
<1>2. CASE ~(trans = Nothing /\ Box!Proves(binding))
  BY <1>1, <1>2, HookTurns DEF RevokeBinding, SameBox, Finished
<1>3. CASE trans = Nothing /\ Box!Proves(binding)
  <2>1. Box!revoke_managed_agent_mailbox_binding(p, s) /\ Onward(p, "revoked")
    BY <1>3 DEF RevokeBinding
  <2>2. /\ BoxInv' /\ trans' # Nothing /\ trans'.op = "revoke" /\ trans'.owner = p /\ trans'.session = s
        /\ work' = [work EXCEPT ![p] = "prepared"] /\ trans = Nothing
        /\ UNCHANGED <<mailbox, attach, binding, life>> /\ mailbox.status = "active"
    BY <1>1, <2>1, BoxIsRevoked
  <2> DEFINE r == [hook[p] EXCEPT !.step = "revoked"]
  <2>3. r \in HookRows /\ r.step = "revoked" /\ r.secret = hook[p].secret /\ r.session = s /\ hook' = [hook EXCEPT ![p] = r]
    <3>1. hook[p] \in HookRows /\ "revoked" \in HookSteps
      BY <1>1 DEF HookSteps
    <3> QED BY <2>1, <3>1, GoesOn DEF Onward
  <2> HIDE DEF r
  <2>4. hook'[p] = r /\ work \in [Hooks -> Box!Steps \cup {Nothing}]
    BY <1>1, <2>3, HookFacts DEF IdentityTyped
  <2>5. work'[p] = "prepared" /\ work'[p] # Nothing /\ \A q \in Hooks : q # p => work'[q] = work[q]
    BY <2>2, <2>4, NothingIsNone DEF Box!Steps
  <2>6. BornInOrder'
    BY <2>2, HookFacts DEF BornInOrder
  <2>7. IntentIsOwned'
    BY <2>2, <2>3, <2>4, <2>5 DEF IntentIsOwned
  <2>8. HookCarries(p)'
    BY <1>1, <2>2, <2>3, <2>4, HookFacts DEF HookCarries, Carries
  <2>9. ASSUME ~paired PROVE IdentityAgrees' /\ Relies(hook[p])'
    <3>1. IdentityAgrees /\ Relies(hook[p])
      BY <1>1, <2>9, HookFacts
    <3>2. lost = 0 => \A o \in Births : life[o] = "live" => attach[o] = "active"
      BY <1>1, <2>9, NobodyHeld DEF HoldSteps
    <3>3. \A o \in Births : attach[o] = "active" => o = s
      BY <1>1, <3>1 DEF Relies
    <3> HIDE DEF Held
    <3>4. IdentityAgrees'
      BY <1>1, <2>2, <3>1, <3>2, <3>3 DEF IdentityAgrees, Known, Reached, IsLatest
    <3>5. Relies(hook[p])'
      BY <1>1, <2>2, <2>3, <2>4, <3>1 DEF Relies, Known, Reached
    <3> QED BY <3>4, <3>5
  <2> QED BY <1>1, <2>2, <2>3, <2>5, <2>6, <2>7, <2>8, <2>9, InsideStep
<1> QED BY <1>2, <1>3

\* A process that has written or unlinked the file can settle its intent.
LEMMA OwnIsSettled ==
    ASSUME OpenCodeInv, NEW p \in Hooks, Box!SettleOwn(p)
    PROVE  /\ Box!Settle /\ trans # Nothing /\ UNCHANGED <<binding, life, keys>> /\ work[p] # Nothing
           /\ work' = [work EXCEPT ![p] = Nothing] /\ \A q \in Hooks : q # p => work[q] = Nothing
<1>1. work[p] = "settle" /\ work[p] # Nothing /\ BoxInv
  BY NothingIsNone DEF Box!SettleOwn, Box!At, Box!Steps, OpenCodeInv
<1>2. trans # Nothing /\ trans \in Box!Intent /\ (\A q \in Hooks : q # p => work[q] = Nothing)
  BY <1>1 DEF BoxInv, IdentityTyped, Box!SoleWriter
<1>3. binding \in {Nothing, trans.from} /\ trans.op \in {"create", "revoke"}
      /\ (trans.op = "revoke" => trans.to = Nothing) /\ (trans.op = "create" => trans.to = trans.from)
  BY <1>1, <1>2 DEF BoxInv, IdentityTyped, IntentStands
<1>4. Box!Settleable
  BY <1>3 DEF Box!Settleable, Box!Done, Box!Undone, Box!MayGoOn
<1> QED BY <1>1, <1>2, <1>4 DEF Box!SettleOwn, Box!Step

\* The file is written and the intent settled.
LEMMA OperateStep ==
    ASSUME OpenCodeInv, NEW p \in Hooks, Operate(p)
    PROVE  OpenCodeInv'
<1>1. hookAt[p] = "in" /\ work[p] # Nothing /\ UNCHANGED <<hook, gone, hookAt, lost, paired>> /\ hook[p] \in HookRows
      /\ hook[p].step \in {"made", "revoked"} /\ hook[p].session \in Births /\ gone \in BOOLEAN
      /\ work \in [Hooks -> Box!Steps \cup {Nothing}] /\ hook \in [Hooks -> HookRows] /\ BoxInv /\ BornInOrder
  <2>1. hookAt[p] = "in" /\ work[p] # Nothing /\ UNCHANGED <<hook, gone, hookAt, lost, paired>>
    BY DEF Operate, Frame
  <2> QED BY <2>1, HookFacts DEF Carries, HooksTyped, IdentityTyped
<1>2. hook' = [hook EXCEPT ![p] = hook[p]]
  BY <1>1
<1>3. CASE Box!OpenBinding(p) \/ Box!_create_managed_binding(p) \/ Box!unlink(p)
  <2>1. /\ BoxInv' /\ UNCHANGED <<mailbox, attach, trans, life, keys>> /\ trans # Nothing /\ trans.owner = p
    BY <1>1, <1>3, FileMoves
  <2>2. PICK v \in {Nothing, "opened", "settle"} :
          work' = [work EXCEPT ![p] = v] /\ (v = Nothing => trans.op = "revoke" /\ binding' = trans.from)
    BY <1>1, <1>3, FileMoves
  <2>3. work'[p] = v /\ \A q \in Hooks : q # p => work'[q] = work[q]
    BY <1>1, <2>2
  <2>4. BornInOrder'
    BY <1>1, <2>1 DEF BornInOrder
  <2>5. IntentIsOwned'
    BY <1>1, <2>1, <2>2, <2>3 DEF IntentIsOwned, OpenCodeInv
  <2>6. HookCarries(p)'
    BY <1>1, <2>1, HookFacts DEF HookCarries, Carries
  <2>7. ASSUME ~paired PROVE IdentityAgrees' /\ Relies(hook[p])'
    <3>1. IdentityAgrees /\ Relies(hook[p])
      BY <1>1, <2>7, HookFacts
    <3>2. IdentityAgrees'
      BY <1>1, <2>1, <3>1 DEF IdentityAgrees, Known, Reached, IsLatest, Held
    <3>3. Relies(hook[p])'
      BY <1>1, <2>1, <3>1 DEF Relies, Known, Reached, IsLatest
    <3> QED BY <3>2, <3>3
  <2> QED BY <1>1, <1>2, <2>1, <2>3, <2>4, <2>5, <2>6, <2>7, InsideStep
<1>4. CASE Box!SettleOwn(p)
  <2>1. /\ Box!Settle /\ trans # Nothing /\ UNCHANGED <<binding, life, keys>>
        /\ work' = [work EXCEPT ![p] = Nothing] /\ \A q \in Hooks : q # p => work[q] = Nothing
    BY <1>4, OwnIsSettled
  <2>2. \A q \in Hooks : work'[q] = Nothing /\ (q # p => work'[q] = work[q])
    BY <1>1, <2>1
  <2>3. /\ mailbox' \in Box!MailboxRow /\ trans' = Nothing
        /\ attach' \in [Births -> {"never", "active", "detached"}]
        /\ (mailbox = Box!Absent => \A s \in Births : attach[s] = "never")'
        /\ SecretIsMinted' /\ Box!BindingAgrees' /\ Box!OneIncarnation'
        /\ \/ trans.op = "create" /\ mailbox' = Box!Absent
           \/ trans.op = "revoke" /\ mailbox' = [mailbox EXCEPT !.status = "retired"] /\ attach' = Box!Detached(trans.session)
           \/ UNCHANGED <<mailbox, attach>>
    BY <1>1, <2>1, IntentSettles
  <2>4. BoxInv' /\ BornInOrder' /\ IntentIsOwned'
    <3>1. work' \in [Hooks -> Box!Steps \cup {Nothing}]
      BY <1>1, <2>1
    <3>2. IdentityTyped' /\ IntentStands' /\ Box!SoleWriter'
      BY <1>1, <2>1, <2>2, <2>3, <3>1 DEF BoxInv, IdentityTyped, IntentStands, Box!SoleWriter
    <3> QED BY <2>1, <2>3, <3>2, SettledIsBorn DEF BoxInv, IntentIsOwned
  <2>5. HookCarries(p)'
    BY <1>1, <2>1, <2>2, HookFacts DEF HookCarries, Carries
  <2>6. ASSUME ~paired PROVE IdentityAgrees' /\ Relies(hook[p])'
    <3>1. IdentityAgrees /\ Relies(hook[p])
      BY <1>1, <2>6, HookFacts
    <3>2. \A s \in Births : life[s] = "live" => s = hook[p].session
      BY <1>1, <3>1 DEF Relies
    <3>3. \A s \in Births : life[s] = "live" => Held(s)'
      BY <1>1, <3>2 DEF Held
    <3>4. IdentityAgrees'
      <4> HIDE DEF Held
      <4> QED BY <1>1, <2>1, <2>6, <3>3, SettledAgrees
    <3>5. hook[p].step = "made" => mailbox'.status # "retired"
      <4>1. hook[p].step = "made" => trans.op = "create" /\ mailbox.status # "retired"
        BY <2>1, <3>1 DEF Relies
      <4> QED BY <2>3, <4>1 DEF Box!Absent
    <3>6. hook[p].step = "revoked" => mailbox'.status # "absent"
          /\ \A o \in Births : Known(o)' /\ Reached(o)' => o = hook[p].session
      <4>1. hook[p].step = "revoked" => trans.op = "revoke" /\ mailbox.status # "absent" /\ \A o \in Births : Known(o) /\ Reached(o) => o = hook[p].session
        BY <2>1, <3>1 DEF Relies
      <4>2. mailbox \in Box!MailboxRow /\ attach \in [Births -> {"never", "active", "detached"}]
        BY HookFacts DEF IdentityTyped
      <4> QED BY <2>1, <2>3, <4>1, <4>2 DEF Box!MailboxRow, Known, Reached, Box!Detached
    <3>7. Relies(hook[p])'
      BY <1>1, <2>1, <2>3, <3>2, <3>5, <3>6 DEF Relies
    <3> QED BY <3>4, <3>7
  <2> QED BY <1>1, <1>2, <2>1, <2>2, <2>4, <2>5, <2>6, InsideStep
<1> QED BY <1>3, <1>4 DEF Operate

\* A Session is ended, and its hook is over.
LEMMA EndStep ==
    ASSUME OpenCodeInv, NEW p \in Hooks, hookAt[p] = "in", hook[p].step \in {"failed", "finalize", "repair"}, Onward(p, "over"), Frame,
           IF hook[p].session = 0 THEN SameBox ELSE Ended(hook[p].session),
           gone' = IF hook[p].step = "failed" THEN gone ELSE TRUE
    PROVE  OpenCodeInv'
<1> DEFINE s == hook[p].session
<1>1. /\ UNCHANGED <<hookAt, lost, paired>> /\ s \in Births \cup {0} /\ hook[p] \in HookRows /\ hook \in [Hooks -> HookRows]
      /\ gone \in BOOLEAN /\ gone' \in BOOLEAN /\ BoxInv /\ BornInOrder /\ work[p] = Nothing
      /\ attach \in [Births -> {"never", "active", "detached"}] /\ life \in [Births -> {"unborn", "live", "lapsed", "dormant", "ended"}]
      /\ s # 0 => life[s] # "unborn"
  BY HookFacts DEF Frame, HooksTyped, IdentityTyped, Carries
<1>2. /\ UNCHANGED <<mailbox, trans, binding, work, keys>> /\ BoxInv'
      /\ \A o \in Births : /\ life'[o] = IF o = s THEN "ended" ELSE life[o]
                           /\ attach'[o] = "active" => attach[o] = "active"
                           /\ attach'[o] = "never" <=> attach[o] = "never"
                           /\ attach'[o] \in {"never", "active", "detached"}
                           /\ o # s => attach'[o] = attach[o]
  <2>1. CASE s = 0
    <3>1. UNCHANGED boxVars /\ \A o \in Births : o # s
      BY <2>1, NothingIsNone DEF SameBox
    <3> QED BY <1>1, <3>1, BoxStays DEF boxVars
  <2>2. CASE s # 0 /\ life[s] = "ended"
    <3>1. UNCHANGED boxVars
      BY <2>2 DEF Ended, SameBox
    <3> QED BY <1>1, <2>2, <3>1, BoxStays DEF boxVars
  <2>3. CASE s # 0 /\ life[s] # "ended"
    <3>1. life' = [life EXCEPT ![s] = "ended"] /\ attach' = Box!Detached(s) /\ UNCHANGED <<mailbox, trans, binding, work, keys>>
      BY <2>3 DEF Ended, Box!end_session
    <3>2. life' \in [Births -> {"unborn", "live", "lapsed", "dormant", "ended"}] /\ s \in Births
      BY <1>1, <2>3, <3>1
    <3>3. BoxInv'
      BY <1>1, <3>1, <3>2, SessionMoves
    <3> QED BY <1>1, <3>1, <3>2, <3>3 DEF Box!Detached
  <2> QED BY <2>1, <2>2, <2>3
<1> DEFINE r == [hook[p] EXCEPT !.step = "over"]
<1>3. r \in HookRows /\ r.step = "over" /\ r.secret = hook[p].secret /\ r.session = s /\ hook' = [hook EXCEPT ![p] = r]
  <2>1. "over" \in HookSteps
    BY DEF HookSteps
  <2> QED BY <1>1, <2>1, GoesOn DEF Onward
<1> HIDE DEF r
<1>4. hook'[p] = r
  BY <1>1, <1>3
<1>5. BornInOrder'
  <2>1. 0 \notin Births
    BY NothingIsNone
  <2>2. \A o \in Births : life'[o] = "unborn" <=> life[o] = "unborn"
    BY <1>1, <1>2, <2>1
  <2> QED BY <1>1, <1>2, <2>2 DEF BornInOrder
<1>6. IntentIsOwned'
  BY <1>1, <1>2, <1>3, OwnerStays
<1>7. HookCarries(p)'
  BY <1>1, <1>2, <1>3, <1>4 DEF HookCarries, Carries
<1>8. ASSUME ~paired PROVE IdentityAgrees' /\ Relies(hook[p])'
  <2>1. IdentityAgrees /\ Relies(hook[p])
    BY <1>8, HookFacts
  <2>2. \A o \in Births : /\ Known(o)' <=> Known(o)
                          /\ IsLatest(o)' <=> IsLatest(o)
                          /\ Reached(o)' <=> Reached(o) /\ o # s
                          /\ life'[o] = "live" <=> life[o] = "live" /\ o # s
    BY <1>2 DEF Known, IsLatest, Reached
  <2>3. ASSUME lost = 0, NEW o \in Births, life'[o] = "live" PROVE attach'[o] = "active"
    <3>1. life[o] = "live" /\ o # s
      BY <2>2, <2>3
    <3>2. ~Held(o)
      BY <1>8, <3>1, HeldHere
    <3> HIDE DEF Held
    <3> QED BY <1>2, <2>1, <2>3, <3>1, <3>2 DEF IdentityAgrees
  <2>4. mailbox.status = "active" => \A o \in Births :
              /\ life'[o] = "live" => attach'[o] = "active"
              /\ attach'[o] = "detached" => ~Reached(o)'
              /\ attach'[o] = "active" => IsLatest(o)'
    BY <1>2, <2>1, <2>2 DEF IdentityAgrees
  <2>5. mailbox.status = "retired" => \A o \in Births : attach'[o] # "active" /\ (Known(o)' /\ Reached(o)' => IsLatest(o)')
    BY <1>2, <2>1, <2>2 DEF IdentityAgrees
  <2>6. gone' => mailbox.status = "retired" /\ \A o \in Births : Known(o)' => ~Reached(o)'
    <3>1. CASE hook[p].step = "failed"
      BY <2>1, <2>2, <3>1 DEF IdentityAgrees
    <3>2. CASE hook[p].step # "failed"
      BY <2>1, <2>2, <3>2 DEF Relies
    <3> QED BY <3>1, <3>2
  <2>7. /\ \A o, q \in Births : life'[q] = "live" /\ life'[o] = "live" => q = o
        /\ trans # Nothing /\ trans.op = "revoke" => \A o \in Births : attach'[o] = "active" => o = trans.session
    BY <1>2, <2>1, <2>2 DEF IdentityAgrees
  <2> HIDE DEF Held
  <2>8. IdentityAgrees'
    BY <1>1, <1>2, <2>3, <2>4, <2>5, <2>6, <2>7 DEF IdentityAgrees
  <2>9. Relies(hook[p])'
    BY <1>3, <1>4 DEF Relies
  <2> QED BY <2>8, <2>9
<1>9. (\A o \in Births : life[o] # "unborn" => life'[o] # "unborn") /\ (\A q \in Hooks : q # p => work'[q] = work[q])
  BY <1>2
<1> QED BY <1>1, <1>2, <1>3, <1>5, <1>6, <1>7, <1>8, <1>9, InsideStep

LEMMA FailedStep ==
    ASSUME OpenCodeInv, NEW p \in Hooks, Failed(p)
    PROVE  OpenCodeInv'
<1>1. hookAt[p] = "in" /\ hook[p].step = "failed" /\ hook[p].session # 0 /\ Onward(p, "over") /\ Frame /\ Ended(hook[p].session) /\ gone' = gone
  BY HookFacts DEF Failed, Handling, Finished, Carries
<1> QED BY <1>1, EndStep

LEMMA FinalizeStep ==
    ASSUME OpenCodeInv, NEW p \in Hooks, Finalize(p)
    PROVE  OpenCodeInv'
BY EndStep DEF Finalize, Handling, Finished

LEMMA MadeStep ==
    ASSUME OpenCodeInv, NEW p \in Hooks, Made(p)
    PROVE  OpenCodeInv'
BY HookTurns DEF Made, Handling, SameBox

\* With the process goes the claim of its intent to be somebody's.
LEMMA BoxCrash ==
    ASSUME BoxInv, NEW p \in Hooks, Box!Crash(p)
    PROVE  /\ BoxInv' /\ UNCHANGED <<mailbox, attach, binding, life, keys>>
           /\ work' = [work EXCEPT ![p] = Nothing]
           /\ trans = Nothing <=> trans' = Nothing
           /\ trans # Nothing => /\ trans'.op = trans.op /\ trans'.session = trans.session /\ trans'.from = trans.from /\ trans'.owner = trans.owner
                                 /\ trans'.alive => trans.alive /\ trans.owner # p
<1>1. /\ UNCHANGED <<mailbox, attach, binding, life, keys>> /\ work' = [work EXCEPT ![p] = Nothing]
      /\ \/ trans' = trans /\ (trans # Nothing => trans.owner # p)
         \/ trans # Nothing /\ trans.owner = p /\ trans' = [trans EXCEPT !.alive = FALSE]
  BY DEF Box!Crash
<1>2. trans # Nothing => /\ trans \in Box!Intent /\ trans' \in Box!Intent
                         /\ trans'.op = trans.op /\ trans'.session = trans.session /\ trans'.from = trans.from /\ trans'.owner = trans.owner
                         /\ trans'.to = trans.to /\ (trans'.alive => trans.alive /\ trans.owner # p)
                         /\ (trans.alive /\ trans.owner # p => trans'.alive)
  BY <1>1 DEF BoxInv, IdentityTyped, Box!Intent
<1>3. trans = Nothing <=> trans' = Nothing
  BY <1>1, <1>2, NothingIsNone
<1>4. work' \in [Hooks -> Box!Steps \cup {Nothing}] /\ \A q \in Hooks : work'[q] = IF q = p THEN Nothing ELSE work[q]
  BY <1>1 DEF BoxInv, IdentityTyped
<1>5. IdentityTyped'
  BY <1>1, <1>2, <1>3, <1>4 DEF BoxInv, IdentityTyped
<1>6. Box!SoleWriter'
  BY <1>1, <1>2, <1>3, <1>4 DEF BoxInv, Box!SoleWriter, Box!At
<1>7. SecretIsMinted' /\ Box!BindingAgrees' /\ Box!OneIncarnation'
  BY <1>1, <1>3 DEF BoxInv, SecretIsMinted, Box!BindingAgrees, Box!OneIncarnation, Box!Active, Box!Proves
<1>8. IntentStands'
  <2>1. ASSUME trans' # Nothing, trans'.op = "revoke", NEW q \in Hooks, work'[q] = "prepared" PROVE binding' = trans'.from
    <3>1. work[q] = "prepared"
      BY <1>4, <2>1, NothingIsNone DEF Box!Steps
    <3> QED BY <1>1, <1>2, <1>3, <2>1, <3>1 DEF BoxInv, IntentStands
  <2>2. \A q \in Hooks : work'[q] = "settle" => work[q] = "settle"
    BY <1>4, NothingIsNone DEF Box!Steps
  <2> QED BY <1>1, <1>2, <1>3, <2>1, <2>2 DEF BoxInv, IntentStands
<1> QED BY <1>1, <1>2, <1>3, <1>5, <1>6, <1>7, <1>8 DEF BoxInv

\* A process comes, goes or waits: what the hook inside relies on stays.
LEMMA OutsideStep ==
    ASSUME OpenCodeInv, NEW p \in Hooks, NEW r \in HookRows, hook' = [hook EXCEPT ![p] = r],
           NEW place \in HookPlaces, hookAt' = [hookAt EXCEPT ![p] = place],
           r.step \in {"none", "reconcile"}, r.session = 0,
           UNCHANGED gone, lost' \in Nat, lost' = 0 => lost = 0 /\ hook[p].step \notin HoldSteps,
           paired' \in BOOLEAN, paired => paired',
           place = "in" /\ ~paired' => \A q \in Hooks : hookAt[q] = "in" => q = p,
           \/ UNCHANGED boxVars /\ hookAt[p] # "in"
           \/ Box!Crash(p) /\ place # "in"
    PROVE  OpenCodeInv'
<1>1. /\ hook \in [Hooks -> HookRows] /\ hookAt \in [Hooks -> HookPlaces] /\ BoxInv /\ gone \in BOOLEAN
      /\ work \in [Hooks -> Box!Steps \cup {Nothing}] /\ BornInOrder
  BY HookFacts DEF HooksTyped, IdentityTyped
<1>2. /\ hook'[p] = r /\ \A q \in Hooks : q # p => hook'[q] = hook[q] /\ hookAt'[q] = hookAt[q]
      /\ hookAt'[p] = place
  BY <1>1
<1>3. HooksTyped' /\ BoxInv'
  BY <1>1, BoxStays, BoxCrash DEF HooksTyped
<1>4. /\ UNCHANGED <<mailbox, attach, binding, life, keys>> /\ (trans = Nothing <=> trans' = Nothing)
      /\ trans # Nothing => /\ trans'.op = trans.op /\ trans'.session = trans.session /\ trans'.from = trans.from /\ trans'.owner = trans.owner
      /\ \A q \in Hooks : q # p => work'[q] = work[q]
      /\ work'[p] # Nothing => work[p] # Nothing /\ hookAt[p] # "in"
  BY <1>1, BoxCrash DEF boxVars
<1>5. hookAt[p] # "in" => hook[p].step \in {"none", "reconcile"}
  BY DEF OpenCodeInv, HookCarries
<1>6. work'[p] = Nothing
  BY <1>4, <1>5, HookFacts
<1>7. BornInOrder'
  BY <1>1, <1>4 DEF BornInOrder
<1>8. ASSUME NEW q \in Hooks PROVE HookCarries(q)'
  <2>1. CASE q = p
    BY <1>2, <1>4, <1>6, <2>1 DEF HookCarries, Carries
  <2>2. CASE q # p
    BY <1>2, <1>4, <2>2 DEF OpenCodeInv, HookCarries, Carries
  <2> QED BY <2>1, <2>2
<1>9. IntentIsOwned'
  <2>1. CASE trans # Nothing
    <3>1. trans.owner \in Hooks
      BY <2>1, HookFacts DEF IdentityTyped, Box!Intent
    <3>2. trans'.alive => trans.alive /\ trans.owner # p
      <4>1. CASE Box!Crash(p)
        BY <1>1, <2>1, <4>1, BoxCrash
      <4>2. CASE UNCHANGED boxVars /\ hookAt[p] # "in"
        <5>1. trans.alive => hook[trans.owner].step \in {"made", "failed", "revoked", "over"}
          BY <2>1 DEF OpenCodeInv, IntentIsOwned
        <5> QED BY <1>5, <4>2, <5>1 DEF boxVars
      <4> QED BY <4>1, <4>2
    <3>3. trans'.alive => hook'[trans'.owner].step \in {"made", "failed", "revoked", "over"}
      BY <1>2, <1>4, <2>1, <3>1, <3>2 DEF OpenCodeInv, IntentIsOwned
    <3>4. lost' = 0 /\ work'[trans'.owner] = Nothing => trans'.op = "revoke" /\ binding = trans'.from
      <4>1. lost' = 0 => work[p] = Nothing /\ lost = 0
        BY HookFacts DEF HoldSteps
      <4>2. lost' = 0 /\ work'[trans'.owner] = Nothing => work[trans.owner] = Nothing
        BY <1>4, <2>1, <3>1, <4>1
      <4> QED BY <1>4, <2>1, <4>1, <4>2 DEF OpenCodeInv, IntentIsOwned
    <3> QED BY <1>4, <3>3, <3>4 DEF IntentIsOwned
  <2> QED BY <1>4, <2>1 DEF IntentIsOwned
<1>10. ASSUME ~paired' PROVE IdentityAgrees'
  <2>1. IdentityAgrees /\ ~paired
    BY <1>10 DEF OpenCodeInv
  <2>2. ASSUME lost' = 0, NEW s \in Births, life[s] = "live", attach[s] # "active" PROVE Held(s)'
    <3>1. Held(s)
      <4> HIDE DEF Held
      <4> QED BY <2>1, <2>2 DEF IdentityAgrees
    <3>2. PICK q \in Hooks : hook[q].session = s /\ hook[q].step \in HoldSteps
      BY <3>1 DEF Held, HoldSteps
    <3>3. q # p
      BY <2>2, <3>2
    <3> QED BY <1>2, <3>2, <3>3 DEF Held, HoldSteps
  <2>3. \A s \in Births : (Known(s)' <=> Known(s)) /\ (Reached(s)' <=> Reached(s)) /\ (IsLatest(s)' <=> IsLatest(s))
    BY <1>4 DEF Known, Reached, IsLatest
  <2> HIDE DEF Held
  <2>4. lost' = 0 => \A s \in Births : life[s] = "live" => attach[s] = "active" \/ Held(s)'
    BY <2>2
  <2> QED BY <1>4, <2>1, <2>3, <2>4 DEF IdentityAgrees
<1>11. ASSUME ~paired' PROVE \A q, o \in Hooks : hookAt'[q] = "in" /\ hookAt'[o] = "in" => q = o
  <2>1. ~paired /\ \A q, o \in Hooks : hookAt[q] = "in" /\ hookAt[o] = "in" => q = o
    BY <1>11 DEF OpenCodeInv
  <2> QED BY <1>2, <1>11, <2>1
<1>12. ASSUME ~paired', NEW q \in Hooks, hookAt'[q] = "in" PROVE Relies(hook[q])'
  <2>1. CASE q = p
    BY <1>2, <2>1 DEF Relies
  <2>2. CASE q # p
    <3>1. Relies(hook[q]) /\ hook'[q] = hook[q]
      BY <1>2, <1>12, <2>2 DEF OpenCodeInv
    <3> QED BY <1>4, <3>1 DEF Relies, Known, Reached, IsLatest
  <2> QED BY <2>1, <2>2
<1> QED BY <1>3, <1>7, <1>8, <1>9, <1>10, <1>11, <1>12 DEF OpenCodeInv

LEMMA OpenCodeStays ==
    ASSUME OpenCodeInv, UNCHANGED <<boxVars, hook, hookAt, lost, paired, gone>>
    PROVE  OpenCodeInv'
<1>1. BoxInv' /\ UNCHANGED <<mailbox, attach, trans, binding, life, work, keys>>
  BY BoxStays DEF OpenCodeInv, boxVars
<1>2. HooksTyped' /\ BornInOrder' /\ IntentIsOwned' /\ \A p \in Hooks : HookCarries(p)'
  BY <1>1 DEF OpenCodeInv, HooksTyped, BornInOrder, IntentIsOwned, HookCarries, Carries
<1>3. IdentityAgrees => IdentityAgrees'
  BY <1>1 DEF IdentityAgrees, Known, Reached, IsLatest, Held
<1>4. \A p \in Hooks : Relies(hook[p]) => Relies(hook[p])'
  BY <1>1 DEF Relies, Known, Reached, IsLatest
<1> QED BY <1>1, <1>2, <1>3, <1>4 DEF OpenCodeInv

LEMMA RestingRow ==
    /\ Resting \in HookRows /\ Resting.step = "none" /\ Resting.session = 0
    /\ \A event \in {"message", "deleted"} :
          LET r == [Resting EXCEPT !.event = event, !.step = "reconcile"]
          IN  r \in HookRows /\ r.step = "reconcile" /\ r.session = 0
BY DEF Resting, HookRows, HookSteps

\* Processes that come, wait, leave, die and restart.
LEMMA HooksMove ==
    ASSUME OpenCodeInv, NEW p \in Hooks,
           Runs(p, "message") \/ Runs(p, "deleted") \/ TakesNativeLock(p) \/ Leaves(p) \/ HookDies(p) \/ HookRestarts(p)
    PROVE  OpenCodeInv'
<1>1. /\ hook \in [Hooks -> HookRows] /\ hookAt \in [Hooks -> HookPlaces] /\ lost \in Nat /\ paired \in BOOLEAN
      /\ hook[p] \in HookRows /\ hookAt[p] \in HookPlaces /\ Carries(hook[p])
      /\ hookAt[p] # "in" => hook[p].step \in {"none", "reconcile"}
  BY HookFacts DEF HooksTyped, OpenCodeInv, HookCarries
<1>2. ASSUME NEW event \in {"message", "deleted"}, Runs(p, event) PROVE OpenCodeInv'
  <2> DEFINE r == [Resting EXCEPT !.event = event, !.step = "reconcile"]
  <2>1. hook' = [hook EXCEPT ![p] = r] /\ hookAt' = [hookAt EXCEPT ![p] = "waiting"] /\ hookAt[p] = "out"
        /\ UNCHANGED boxVars /\ UNCHANGED <<lost, paired, gone>>
    BY <1>2 DEF Runs, SameBox
  <2>2. r \in HookRows /\ r.step = "reconcile" /\ r.session = 0
    BY RestingRow
  <2> HIDE DEF r
  <2>3. "waiting" \in HookPlaces /\ hook[p].step \notin HoldSteps
    BY <1>1, <2>1 DEF HookPlaces, HoldSteps
  <2> QED BY <1>1, <2>1, <2>2, <2>3, OutsideStep
<1>3. ASSUME TakesNativeLock(p) PROVE OpenCodeInv'
  <2>1. UNCHANGED boxVars /\ UNCHANGED <<hook, lost, gone>>
        /\ paired' = (paired \/ \E q, r \in Hooks : q # r /\ hookAt'[q] = "in" /\ hookAt'[r] = "in")
    BY <1>3 DEF TakesNativeLock, SameBox
  <2>2. PICK place \in HookPlaces : hookAt' = [hookAt EXCEPT ![p] = place] /\ hookAt[p] \notin {"in", "out"}
    BY <1>3 DEF TakesNativeLock, NativeLock!Contends, NativeLock!Opens, NativeLock!Signs, NativeLock!Refused, NativeLock!Looks,
       NativeLock!Unlinks, HookPlaces
  <2>3. hook' = [hook EXCEPT ![p] = hook[p]] /\ hook[p].step \in {"none", "reconcile"} /\ hook[p].step \notin HoldSteps
    BY <1>1, <2>1, <2>2 DEF HoldSteps
  <2>4. place = "in" /\ ~paired' => \A q \in Hooks : hookAt[q] = "in" => q = p
    BY <1>1, <2>1, <2>2
  <2>5. hook[p].session = 0
    BY <1>1, <2>3 DEF Carries
  <2>6. paired' \in BOOLEAN /\ (paired => paired')
    BY <1>1, <2>1
  <2> QED BY <1>1, <2>1, <2>2, <2>3, <2>4, <2>5, <2>6, OutsideStep
<1>4. ASSUME Leaves(p) PROVE OpenCodeInv'
  <2>1. hook' = [hook EXCEPT ![p] = Resting] /\ hookAt' = [hookAt EXCEPT ![p] = "out"] /\ Box!Crash(p) /\ UNCHANGED <<lost, paired, gone>>
        /\ (hook[p].step = "over" \/ hookAt[p] = "refused")
    BY <1>4 DEF Leaves, NativeLock!Leaves, NativeLock!GivesUp
  <2>2. "out" \in HookPlaces /\ hook[p].step \notin HoldSteps
    BY <1>1, <2>1 DEF HookPlaces, HoldSteps
  <2> QED BY <1>1, <2>1, <2>2, RestingRow, OutsideStep
<1>5. ASSUME HookDies(p) PROVE OpenCodeInv'
  <2>1. hook' = [hook EXCEPT ![p] = Resting] /\ hookAt' = [hookAt EXCEPT ![p] = "out"] /\ Box!Crash(p) /\ UNCHANGED <<paired, gone>>
        /\ lost' = lost + 1
    BY <1>5 DEF HookDies
  <2>2. "out" \in HookPlaces /\ lost' \in Nat /\ lost' # 0
    BY <1>1, <2>1 DEF HookPlaces
  <2> QED BY <1>1, <2>1, <2>2, RestingRow, OutsideStep
<1>6. ASSUME HookRestarts(p) PROVE OpenCodeInv'
  <2>1. UNCHANGED boxVars /\ UNCHANGED <<hook, hookAt, lost, paired, gone>>
    BY <1>6 DEF HookRestarts, SameBox
  <2> QED BY <2>1, OpenCodeStays
<1> QED BY <1>2, <1>3, <1>4, <1>5, <1>6

\* A lease runs out, and somebody sweeps.
LEMMA ElsewhereStep ==
    ASSUME OpenCodeInv, Elsewhere
    PROVE  OpenCodeInv'
<1>1. PICK s \in Births : life[s] # "unborn" /\ (Box!Lapse(s) \/ Box!sweep_stale_session_leases(s))
  BY DEF Elsewhere, Born, Unborn
<1>2. UNCHANGED <<hook, gone, hookAt, lost, paired, mailbox, trans, binding, work, keys>>
  BY <1>1 DEF Elsewhere, Frame, Box!Lapse, Box!sweep_stale_session_leases
<1>3. /\ BoxInv /\ BornInOrder /\ HooksTyped /\ attach \in [Births -> {"never", "active", "detached"}]
      /\ life \in [Births -> {"unborn", "live", "lapsed", "dormant", "ended"}]
  BY DEF OpenCodeInv, BoxInv, IdentityTyped
<1>4. \/ life[s] = "live" /\ life' = [life EXCEPT ![s] = "lapsed"] /\ attach' = attach
      \/ life[s] = "lapsed" /\ life' = [life EXCEPT ![s] = "dormant"] /\ attach' = Box!Detached(s)
  BY <1>1 DEF Box!Lapse, Box!sweep_stale_session_leases
<1>5. BoxInv'
  <2>1. life' \in [Births -> {"unborn", "live", "lapsed", "dormant", "ended"}]
    BY <1>3, <1>4
  <2> QED BY <1>2, <1>3, <1>4, <2>1, SessionMoves
<1>6. \A o \in Births : /\ life'[o] = "unborn" <=> life[o] = "unborn"
                        /\ life'[o] = "live" => life[o] = "live" /\ o # s
                        /\ Reached(o)' => Reached(o)
                        /\ attach'[o] = "active" => attach[o] = "active"
                        /\ attach'[o] = "never" <=> attach[o] = "never"
                        /\ attach'[o] \in {"never", "active", "detached"}
                        /\ o # s => attach'[o] = attach[o]
                        /\ attach'[o] = "detached" => attach[o] = "detached" \/ ~Reached(o)'
                        /\ Known(o)' <=> Known(o)
  BY <1>3, <1>4 DEF Box!Detached, Reached, Known
<1>7. \A o \in Births : IsLatest(o)' <=> IsLatest(o)
  BY <1>6 DEF IsLatest
<1>8. HooksTyped' /\ BornInOrder' /\ IntentIsOwned'
  BY <1>2, <1>3, <1>6 DEF HooksTyped, BornInOrder, OpenCodeInv, IntentIsOwned
<1>9. ASSUME NEW p \in Hooks PROVE HookCarries(p)'
  BY <1>2, <1>6, HookFacts DEF OpenCodeInv, HookCarries, Carries
<1>10. ASSUME ~paired PROVE IdentityAgrees'
  <2>1. IdentityAgrees
    BY <1>10 DEF OpenCodeInv
  <2>2. \A o \in Births : Held(o)' <=> Held(o)
    BY <1>2 DEF Held
  <2> HIDE DEF Held
  <2>3. mailbox.status = "active" => \A o \in Births :
              /\ life'[o] = "live" => attach'[o] = "active"
              /\ attach'[o] = "detached" => ~Reached(o)'
              /\ attach'[o] = "active" => IsLatest(o)'
    BY <1>6, <1>7, <2>1 DEF IdentityAgrees
  <2>4. mailbox.status = "retired" => \A o \in Births : attach'[o] # "active" /\ (Known(o)' /\ Reached(o)' => IsLatest(o)')
    BY <1>6, <1>7, <2>1 DEF IdentityAgrees
  <2>5. lost = 0 => \A o \in Births : life'[o] = "live" => attach'[o] = "active" \/ Held(o)'
    BY <1>6, <2>1, <2>2 DEF IdentityAgrees
  <2>6. gone => mailbox.status = "retired" /\ \A o \in Births : Known(o)' => ~Reached(o)'
    BY <1>6, <2>1 DEF IdentityAgrees
  <2>7. /\ \A o, q \in Births : life'[q] = "live" /\ life'[o] = "live" => q = o
        /\ trans # Nothing /\ trans.op = "revoke" => \A o \in Births : attach'[o] = "active" => o = trans.session
    BY <1>6, <2>1 DEF IdentityAgrees
  <2> QED BY <1>2, <2>3, <2>4, <2>5, <2>6, <2>7 DEF IdentityAgrees
<1>11. ASSUME ~paired, NEW p \in Hooks, hookAt[p] = "in" PROVE Relies(hook[p])'
  <2>1. Relies(hook[p]) /\ hook[p].session \in Births \cup {0}
    BY <1>11, HookFacts
  <2>2. hook[p].step = "renew" => hook[p].session \in Births
    BY <2>1, HookFacts DEF Carries
  <2>3. hook[p].step = "renew" => IsLatest(hook[p].session)'
    BY <1>2, <1>7, <2>1, <2>2 DEF Relies, IsLatest
  <2> QED BY <1>2, <1>6, <2>1, <2>3 DEF Relies
<1>12. OpenCodeInv'
  BY <1>2, <1>5, <1>8, <1>9, <1>10, <1>11 DEF OpenCodeInv
<1> QED BY <1>12

\* Whoever moves.
LEMMA OpenCodeSteps ==
    ASSUME OpenCodeInv, [OpenCodeNext]_hookVars
    PROVE  OpenCodeInv'
<1>1. CASE \E p \in Hooks : Runs(p, "message") \/ Runs(p, "deleted") \/ TakesNativeLock(p) \/ Leaves(p) \/ HookDies(p) \/ HookRestarts(p)
  BY <1>1, HooksMove
<1>2. CASE \E p \in Hooks : HookWorks(p)
  BY <1>2, ReconcileStep, SweepStep, LookAtMessageStep, ReadCurrentStep, RenewStep, SucceedStep, EnrollStep, CreateStep, OperateStep,
     MadeStep, FailedStep, LookAtDeletedStep, RevokeBindingStep, RevokedStep, FinalizeStep DEF HookWorks
<1>3. CASE Elsewhere
  BY <1>3, ElsewhereStep
<1>4. CASE UNCHANGED hookVars
  BY <1>4, OpenCodeStays DEF hookVars
<1> QED BY <1>1, <1>2, <1>3, <1>4 DEF OpenCodeNext

\* No mailbox, no Session, no process.
LEMMA OpenCodeBegins ==
    ASSUME OpenCodeInit
    PROVE  OpenCodeInv
<1>1. /\ mailbox = Box!Absent /\ trans = Nothing /\ binding = Nothing /\ keys = 0 /\ lost = 0 /\ paired = FALSE /\ gone = FALSE
      /\ attach = [s \in Births |-> "never"] /\ life = [s \in Births |-> "unborn"] /\ work = [p \in Hooks |-> Nothing]
      /\ \A p \in Hooks : hook[p].step = "none" /\ hook[p].session = 0 /\ hookAt[p] = "out"
      /\ hook \in [Hooks -> HookRows] /\ hookAt \in [Hooks -> HookPlaces]
  <2>1. "out" \in HookPlaces
    BY DEF HookPlaces
  <2> HIDE DEF Resting
  <2> QED BY <2>1, RestingRow DEF OpenCodeInit
<1>2. mailbox \in Box!MailboxRow /\ mailbox.status = "absent"
  BY <1>1, OpenCodeAssumption DEF Box!Absent, Box!MailboxRow
<1>3. IdentityTyped
  BY <1>1, <1>2, OpenCodeAssumption DEF IdentityTyped
<1>4. Box!BindingAgrees /\ Box!SoleWriter /\ Box!OneIncarnation
  BY <1>1, <1>2, NothingIsNone DEF Box!BindingAgrees, Box!SoleWriter, Box!OneIncarnation, Box!At, Box!Active
<1>5. BoxInv
  BY <1>1, <1>2, <1>3, <1>4 DEF BoxInv, SecretIsMinted, IntentStands
<1>6. HooksTyped /\ BornInOrder /\ IntentIsOwned
  BY <1>1 DEF HooksTyped, BornInOrder, IntentIsOwned
<1>7. \A p \in Hooks : HookCarries(p)
  BY <1>1 DEF HookCarries, Carries
<1>8. IdentityAgrees
  BY <1>1, <1>2 DEF IdentityAgrees
<1> QED BY <1>1, <1>5, <1>6, <1>7, <1>8 DEF OpenCodeInv

\* What it says of the identity.
LEMMA OpenCodeFollows ==
    ASSUME OpenCodeInv
    PROVE  IdentityIsOne
<1>1. Box!OneIncarnation /\ Box!BindingAgrees /\ Box!SoleWriter
  BY DEF OpenCodeInv, BoxInv
<1>2. ASSUME ~paired PROVE Cardinality(LiveHandles) <= 1
  <2>1. \A s, o \in LiveHandles : s = o
    BY <1>2 DEF OpenCodeInv, IdentityAgrees, LiveHandles, Born
  <2>2. CASE LiveHandles = {}
    BY <2>2, FS_EmptySet
  <2>3. CASE LiveHandles # {}
    <3>1. PICK s \in LiveHandles : TRUE
      BY <2>3
    <3>2. LiveHandles = {s}
      BY <2>1, <3>1
    <3>3. Cardinality({s}) = 1
      BY FS_Singleton
    <3> QED BY <3>2, <3>3
  <2> QED BY <2>2, <2>3
<1>3. ASSUME ~paired, NEW s \in LiveHandles, attach[s] # "active" PROVE Held(s) \/ lost > 0
  <2>1. lost \in Nat /\ IdentityAgrees /\ s \in Births /\ life[s] = "live"
    BY <1>3 DEF OpenCodeInv, HooksTyped, LiveHandles, Born
  <2>2. lost = 0 => Held(s)
    <3> HIDE DEF Held
    <3> QED BY <1>3, <2>1 DEF IdentityAgrees
  <2> HIDE DEF Held
  <2> QED BY <2>1, <2>2
<1>4. DeletionIsFinal
  BY DEF OpenCodeInv, IdentityAgrees, DeletionIsFinal, Known, Reached
<1>5. NoStray
  BY <1>2, <1>3 DEF NoStray
<1> QED BY <1>1, <1>4, <1>5 DEF IdentityIsOne

-----------------------------------------------------------------------------
(* The custody that is checked: one of the components moves, the others     *)
(* stand.                                                                   *)

CustodyInv == RecoveryInv /\ RepairInv /\ SettingsInv /\ OpenCodeInv

\* Whoever moves, each component takes a step of its own or stands.
LEMMA EachIsKept ==
    ASSUME [CustodyNext]_CustodyVars
    PROVE  [RecoveryNext]_recoveryVars /\ [IntegrityNext]_integrityVars /\ [SettingsNext]_handVars /\ [OpenCodeNext]_hookVars
BY DEF CustodyNext, CustodyVars

LEMMA CustodySteps ==
    ASSUME CustodyInv, [CustodyNext]_CustodyVars
    PROVE  CustodyInv'
BY EachIsKept, RecoverySteps, RepairSteps, SettingsSteps, OpenCodeSteps DEF CustodyInv

LEMMA CustodyBegins ==
    ASSUME CustodyInit
    PROVE  CustodyInv
BY RecoveryBegins, RepairBegins, SettingsBegins, OpenCodeBegins DEF CustodyInit, CustodyInv

\* A repair of the store ends, ends clean, gives up no durable row it was not told to, and writes
\* nothing that the store does not prove, whatever combination of rows is damaged.
THEOREM RepairsAreSound == CustodySpec => []RepairIsSound
<1>1. CustodyInv => RepairIsSound
  BY RepairFollows DEF CustodyInv
<1>2. CustodyInv /\ [CustodyNext]_CustodyVars => CustodyInv'
  BY CustodySteps
<1> QED BY <1>1, <1>2, CustodyBegins, PTL DEF CustodySpec

\* What a repair commits is archived, a restore that reports a refusal has undone itself, and an
\* archive is the store of one instant, whatever the service does beside them.
THEOREM CommandsAreHonest == CustodySpec => CustodyStands
<1>1. CustodyInv /\ [CustodyNext]_CustodyVars
         => CustodyInv' /\ [RepairedIsArchived /\ RefusedIsUndone /\ ArchiveIsOneInstant]_recoveryVars
  BY CustodySteps, EachIsKept, RecoveryStands DEF CustodyInv
<1> QED BY <1>1, CustodyBegins, PTL DEF CustodySpec, CustodyStands

\* The rollback point of a restore is the store it replaced; the latest edit of the settings file is
\* in a file, whoever dies where, and our hook in it can be told and taken out again; and a native
\* session has one reachable incarnation, proved by its binding file, and none once it is deleted.
THEOREM NothingIsLost == CustodySpec => []FilesAreSafe
<1>1. CustodyInv => FilesAreSafe
  BY RecoveryFollows, SettingsFollow, OpenCodeFollows DEF CustodyInv, FilesAreSafe
<1>2. CustodyInv /\ [CustodyNext]_CustodyVars => CustodyInv'
  BY CustodySteps
<1> QED BY <1>1, <1>2, CustodyBegins, PTL DEF CustodySpec
=============================================================================
