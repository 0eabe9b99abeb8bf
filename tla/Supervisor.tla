----------------------------- MODULE Supervisor -----------------------------
(* One Child of the supervisor (control/supervisor.py): the thread that    *)
(* starts its process and waits for it, a watcher thread per process that  *)
(* probes the listener, and the main thread that stops it all on a signal. *)
(* The threads share proc, _stop and _watch_stop and take no lock but the  *)
(* one around a termination.                                               *)
EXTENDS Integers, FiniteSets

CONSTANTS Starts,                 \* bound: processes started, 1..n
          LISTENER_FAILURE_LIMIT, \* misses after which a listener is taken for dead
          MaxFaults               \* bound: processes that fail to start, die or go deaf on their own

ASSUME SupervisorAssumption ==
    Starts \subseteq Nat \ {0} /\ LISTENER_FAILURE_LIMIT \in Nat \ {0} /\ MaxFaults \in Nat

VARIABLES process,  \* start -> "none", "starting", "serving", "deaf", "ended"
          signalled,\* starts whose process was asked to terminate
          proc,     \* Child.proc: the newest start, 0 before the first
          supervise,\* the supervise thread
          watcher,  \* start -> its watcher thread
          main,     \* the main thread
          stop,     \* _stop
          watchStop,\* _watch_stop
          overlooked, \* history: stop() found nothing to end while a process was being started
          faults
superVars == <<process, signalled, proc, supervise, watcher, main, stop, watchStop, overlooked, faults>>

NoWatcher == [at |-> "none", ready |-> FALSE, misses |-> 0]
Alive(n) == process[n] \in {"starting", "serving", "deaf"}

SuperTypeOK ==
    /\ process \in [Starts -> {"none", "starting", "serving", "deaf", "ended"}]
    /\ signalled \subseteq Starts /\ proc \in Starts \cup {0}
    /\ supervise \in {"off", "loop", "spawn", "clear", "reading", "after", "pausing", "done"}
    /\ watcher \in [Starts -> [at : {"none", "watching", "done"}, ready : BOOLEAN,
                              misses : 0..(LISTENER_FAILURE_LIMIT - 1)]]
    /\ main \in {"up", "stopping", "terminating", "joining", "gone"}
    /\ stop \in BOOLEAN /\ watchStop \in BOOLEAN /\ overlooked \in BOOLEAN /\ faults \in 0..MaxFaults

SuperInit ==
    /\ process = [n \in Starts |-> "none"] /\ signalled = {} /\ proc = 0
    /\ supervise = "off" /\ watcher = [n \in Starts |-> NoWatcher]
    /\ main = "up" /\ stop = FALSE /\ watchStop = FALSE /\ overlooked = FALSE /\ faults = 0

----------------------------------------------------------------------------
(* The supervise thread.                                                   *)

\* Child.start
StartChild ==
    /\ supervise = "off"
    /\ stop' = FALSE
    /\ supervise' = "loop"
    /\ UNCHANGED <<process, signalled, proc, watcher, main, watchStop, overlooked, faults>>

\* while not self._stop.is_set(); the bound is kept here, so that a start under way ends.
Loop ==
    /\ supervise = "loop"
    /\ \/ stop /\ supervise' = "done"
       \/ ~stop /\ proc + 1 \in Starts /\ supervise' = "spawn"
    /\ UNCHANGED <<process, signalled, proc, watcher, main, stop, watchStop, overlooked, faults>>

\* Popen and the assignment of its result.  Until then stop() sees the process before it, if
\* any: one that exists and has not been assigned is no more to it than one about to be made.
Spawn ==
    /\ supervise = "spawn" /\ proc + 1 \in Starts
    /\ process' = [process EXCEPT ![proc + 1] = "starting"]
    /\ proc' = proc + 1
    /\ supervise' = "clear"
    /\ UNCHANGED <<signalled, watcher, main, stop, watchStop, overlooked, faults>>

\* Popen raises: logged, and tried again after the back-off.
SpawnFails ==
    /\ supervise = "spawn" /\ faults < MaxFaults
    /\ faults' = faults + 1
    /\ supervise' = "after"
    /\ UNCHANGED <<process, signalled, proc, watcher, main, stop, watchStop, overlooked>>

BugStartWatcher ==
    /\ supervise = "clear"
    /\ watcher' = [watcher EXCEPT ![proc].at = "watching"]
    /\ supervise' = "reading"
    /\ UNCHANGED <<process, signalled, proc, main, stop, watchStop, overlooked, faults>>
\* The watch flag is lowered and the watcher of this process started.
StartWatcher ==
    /\ supervise = "clear"
    /\ watchStop' = FALSE
    /\ watcher' = [watcher EXCEPT ![proc].at = "watching"]
    /\ supervise' = "reading"
    /\ UNCHANGED <<process, signalled, proc, main, stop, overlooked, faults>>

\* Output is copied until the process ends, then its watcher is told and joined for a while.
Reaped ==
    /\ supervise = "reading" /\ ~Alive(proc)
    /\ watchStop' = TRUE
    /\ supervise' = "after"
    /\ UNCHANGED <<process, signalled, proc, watcher, main, stop, overlooked, faults>>
\* Restart with back-off unless the Child was stopped meanwhile.
After ==
    /\ supervise = "after"
    /\ supervise' = IF stop THEN "done" ELSE "pausing"
    /\ UNCHANGED <<process, signalled, proc, watcher, main, stop, watchStop, overlooked, faults>>
Paused ==
    /\ supervise = "pausing"
    /\ supervise' = "loop"
    /\ UNCHANGED <<process, signalled, proc, watcher, main, stop, watchStop, overlooked, faults>>

----------------------------------------------------------------------------
(* The watchers and the processes.                                         *)

\* _terminate_process_tree: a signal to the group, unless the process has ended.
Terminate(n) == signalled' = IF Alive(n) THEN signalled \cup {n} ELSE signalled

Watched(n, record) == watcher' = [watcher EXCEPT ![n] = record]

TooMany(misses) == misses >= LISTENER_FAILURE_LIMIT

\* One turn of the probe loop.
Probe(n) ==
    /\ watcher[n].at = "watching"
    /\ \/ /\ stop \/ watchStop \/ ~Alive(n)
          /\ Watched(n, [watcher[n] EXCEPT !.at = "done"]) /\ UNCHANGED signalled
       \/ /\ ~stop /\ ~watchStop /\ process[n] = "serving"
          /\ Watched(n, [watcher[n] EXCEPT !.ready = TRUE, !.misses = 0]) /\ UNCHANGED signalled
       \/ /\ ~stop /\ ~watchStop /\ process[n] \in {"starting", "deaf"} /\ watcher[n].ready
          /\ IF TooMany(watcher[n].misses + 1)
             THEN Watched(n, [watcher[n] EXCEPT !.at = "done"]) /\ Terminate(n)
             ELSE Watched(n, [watcher[n] EXCEPT !.misses = @ + 1]) /\ UNCHANGED signalled
       \/ \* never ready: the startup grace may be over
          /\ ~stop /\ ~watchStop /\ process[n] \in {"starting", "deaf"} /\ ~watcher[n].ready
          /\ Watched(n, [watcher[n] EXCEPT !.at = "done"]) /\ Terminate(n)
    /\ UNCHANGED <<process, proc, supervise, main, stop, watchStop, overlooked, faults>>

Become(n, state) == process' = [process EXCEPT ![n] = state]
Listens(n) ==
    /\ process[n] = "starting" /\ Become(n, "serving")
    /\ UNCHANGED <<signalled, proc, supervise, watcher, main, stop, watchStop, overlooked, faults>>
Fail(n) ==
    /\ Alive(n) /\ faults < MaxFaults
    /\ faults' = faults + 1
    /\ \E state \in {"deaf", "ended"} : process[n] # state /\ Become(n, state)
    /\ UNCHANGED <<signalled, proc, supervise, watcher, main, stop, watchStop, overlooked>>
\* A process that was asked to terminate does.
End(n) ==
    /\ Alive(n) /\ n \in signalled /\ Become(n, "ended")
    /\ UNCHANGED <<signalled, proc, supervise, watcher, main, stop, watchStop, overlooked, faults>>

----------------------------------------------------------------------------
(* The main thread, on SIGTERM or SIGINT: Child.stop.                      *)

\* The handler sets an event, and run() calls stop() once every Child was started.
Signal ==
    /\ main = "up" /\ supervise # "off"
    /\ main' = "stopping" /\ stop' = TRUE /\ watchStop' = TRUE
    /\ UNCHANGED <<process, signalled, proc, supervise, watcher, overlooked, faults>>
\* if self.proc and self.proc.poll() is None: a process that is just being started is not there.
StopProc ==
    /\ main = "stopping"
    /\ \/ /\ proc # 0 /\ Alive(proc)
          /\ Terminate(proc) /\ main' = "terminating" /\ UNCHANGED overlooked
       \/ /\ ~(proc # 0 /\ Alive(proc))
          /\ main' = "joining" /\ overlooked' = (supervise = "spawn") /\ UNCHANGED signalled
    /\ UNCHANGED <<process, proc, supervise, watcher, stop, watchStop, faults>>
\* The process ended in time, or is killed.
Stopped ==
    /\ main = "terminating"
    /\ process' = IF Alive(proc) THEN [process EXCEPT ![proc] = "ended"] ELSE process
    /\ main' = "joining"
    /\ UNCHANGED <<signalled, proc, supervise, watcher, stop, watchStop, overlooked, faults>>
\* run() returns when the threads are joined or the wait is over; the interpreter then
\* waits for the supervise thread, which is no daemon.
Exit ==
    /\ main = "joining" /\ supervise = "done"
    /\ main' = "gone"
    /\ UNCHANGED <<process, signalled, proc, supervise, watcher, stop, watchStop, overlooked, faults>>

----------------------------------------------------------------------------
ThreadStep == Loop \/ Spawn \/ SpawnFails \/ StartWatcher \/ Reaped \/ After \/ Paused
MainStep == StopProc \/ Stopped \/ Exit
SuperNext ==
    \/ StartChild \/ ThreadStep \/ MainStep \/ Signal
    \/ \E n \in Starts : Probe(n) \/ Listens(n) \/ Fail(n) \/ End(n)
\* Threads run, probes repeat, and a process comes up and obeys a signal.
SuperFairness ==
    /\ WF_superVars(ThreadStep) /\ WF_superVars(MainStep)
    /\ \A n \in Starts : WF_superVars(Probe(n)) /\ WF_superVars(Listens(n)) /\ WF_superVars(End(n))

\* A restart waits for the process before it: two processes of one Child would fight for its
\* port (_spawn_once returns only after proc.wait()).
OneProcess == Cardinality({n \in Starts : Alive(n)}) <= 1

\* A shutdown passed over the process that was being started (see GracefulShutdown).
Survivor == overlooked /\ proc # 0 /\ Alive(proc)

\* A process whose listener died does not stay (_watch_listener), but for the survivor of a
\* shutdown: its watcher sees _stop and goes.
DeafReplaced == \A n \in Starts : process[n] = "deaf" ~> (process[n] = "ended" \/ Survivor)

\* A process that ends is followed by another unless the Child is stopped (_supervise).
Restarted ==
    \A n \in {m \in Starts : m + 1 \in Starts} : process[n] = "ended" ~> (stop \/ process[n + 1] # "none")

\* "SIGTERM / SIGINT propagation for graceful shutdown" (supervisor.py:17): after the signal the
\* process ends and the supervisor goes (Child.stop and the non-daemon supervise thread).  The
\* code does not keep this always: a stop() that runs between the supervise thread's look at
\* _stop and the assignment of the process it starts ends nothing, and the supervisor then
\* waits for that process as long as it lives.  That window, and no other, is excepted.
GracefulShutdown == (main = "stopping") ~> ((main = "gone" /\ \A n \in Starts : ~Alive(n)) \/ Survivor)

\* A Child is never left dead, deaf or behind: restarts, watchers and the shutdown all get
\* where they lead although they share two flags and one field; the one process a shutdown
\* passes over is named.
Supervised == DeafReplaced /\ Restarted /\ GracefulShutdown
=============================================================================
