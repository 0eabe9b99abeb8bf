----------------------------- MODULE SpawnQueue -----------------------------
(* Work handed to a machine: an Issue is dispatched, the daemon of the     *)
(* Runtime it is bound to claims it, runs an agent under a Session of its  *)
(* own and acknowledges the outcome; Sessions are stopped and reconciled   *)
(* beside it (control/issue_evidence.py, control/assignments.py,           *)
(* daemon/daemon.py, control/sessions.py).  Every transaction is a step.   *)
EXTENDS Integers, FiniteSets

CONSTANTS Daemons,      \* each with its Runtime
          Dispatchers,  \* callers of dispatch
          Sessions,     \* bound: Sessions of the Issue at one time
          NoOne

ASSUME QueueAssumption == NoOne \notin Daemons \cup Sessions

VARIABLES issue,        \* its status, and the Runtime its assignee is bound to
          session,      \* Session -> its row
          daemon,       \* daemon -> what its thread does
          caller,       \* dispatcher -> the call it is in
          settling,     \* daemon, "stop" or "reconcile" -> what the hub does for it
          reopened      \* "open" was written while an agent was at work
queueVars == <<issue, session, daemon, caller, settling, reopened>>

NoSession == [state |-> "none", runtime |-> NoOne, aged |-> FALSE]
Idle == [at |-> "idle", session |-> NoOne, ok |-> FALSE, stopped |-> FALSE]
NoCall == [at |-> "rest", runtime |-> NoOne, bound |-> TRUE, open |-> TRUE]
Requests == Daemons \X {"stop", "reconcile"}
NoRequest == [at |-> "rest", pending |-> {}, session |-> NoOne]

IssueStatuses == {"open", "in_progress", "in_review", "blocked", "done"}
Ongoing(s) == session[s].state \in {"spawning", "running"}
Ended(s) == session[s].state \in {"completed", "failed"}
AtWork == {d \in Daemons : daemon[d].at \in {"claimed", "opened", "running"}}

QueueTypeOK ==
    /\ issue \in [status : IssueStatuses, runtime : Daemons \cup {NoOne}]
    /\ \A s \in Sessions : /\ session[s].runtime \in Daemons \cup {NoOne}
                           /\ (session[s].state = "none") <=> (session[s].runtime = NoOne)
    /\ \A d \in Daemons : /\ daemon[d].session \in Sessions \cup {NoOne}
                          /\ daemon[d].at \in {"opened", "running"} => daemon[d].session # NoOne
    /\ \A r \in Requests : /\ settling[r].pending \subseteq Sessions
                           /\ settling[r].at \in {"block", "write"} => settling[r].session \in Sessions
    /\ \A c \in Dispatchers : (caller[c].at = "rest") <=> (caller[c].runtime = NoOne)

QueueInit ==
    /\ issue = [status |-> "open", runtime |-> NoOne]
    /\ session = [s \in Sessions |-> NoSession]
    /\ daemon = [d \in Daemons |-> Idle]
    /\ caller = [c \in Dispatchers |-> NoCall]
    /\ settling = [r \in Requests |-> NoRequest]
    /\ reopened = FALSE

\* The status of the Issue is written, and the ghost notes an opening of work in progress.
SetStatus(status) ==
    /\ issue' = [issue EXCEPT !.status = status]
    /\ reopened' = (reopened \/ (status = "open" /\ AtWork # {}))
KeepIssue == UNCHANGED <<issue, reopened>>

\* Bound: the name of an ended Session nobody holds is free again.
Held(s) == \/ \E d \in Daemons : daemon[d].session = s
           \/ \E r \in Requests : settling[r].session = s \/ s \in settling[r].pending
Forget(s) ==
    /\ Ended(s) /\ ~Held(s)
    /\ session' = [session EXCEPT ![s] = NoSession]
    /\ UNCHANGED <<daemon, caller, settling>> /\ KeepIssue
\* Bound: work begins where a name is left for its Session.
Room == Cardinality({s \in Sessions : session[s] = NoSession})
        > Cardinality({d \in Daemons : daemon[d].at \in {"listed", "claimed"}})
          + Cardinality({c \in Dispatchers : caller[c].at = "planned"})
NewSession(s, state, d) ==
    /\ session[s] = NoSession
    /\ session' = [session EXCEPT ![s] = [state |-> state, runtime |-> d, aged |-> FALSE]]
\* RECONCILE_GRACE_SECONDS go by.  Assumption: they are longer than a request waits to be served.
Age(s) ==
    /\ Ongoing(s) /\ ~session[s].aged /\ \A r \in Requests : settling[r].at # "asked"
    /\ session' = [session EXCEPT ![s].aged = TRUE]
    /\ UNCHANGED <<daemon, caller, settling>> /\ KeepIssue

----------------------------------------------------------------------------
(* The Issue and its dispatch.                                             *)

transition ==
    /\ \E status \in IssueStatuses : issue.status # status /\ SetStatus(status)
    /\ UNCHANGED <<session, daemon, caller, settling>>
assign ==
    /\ \E d \in Daemons : issue.runtime # d /\ issue' = [issue EXCEPT !.runtime = d]
    /\ UNCHANGED <<session, daemon, caller, settling, reopened>>

Calling(c, record) == caller' = [caller EXCEPT ![c] = record]
\* dispatch_plan, and the duplicate that dispatch answers with.
dispatch_plan(c) ==
    /\ caller[c].at = "rest"
    /\ issue.status # "done" /\ issue.runtime # NoOne
    /\ \A s \in Sessions : ~Ongoing(s)
    /\ Room /\ Calling(c, [NoCall EXCEPT !.at = "planned", !.runtime = issue.runtime])
    /\ UNCHANGED <<session, daemon, settling>> /\ KeepIssue
open_spawn_session(c) ==
    /\ caller[c].at = "planned"
    /\ \E s \in Sessions : NewSession(s, "spawning", caller[c].runtime)
    /\ Calling(c, [caller[c] EXCEPT !.at = "row"])
    /\ UNCHANGED <<daemon, settling>> /\ KeepIssue
ReadIssue(c) ==
    /\ caller[c].at = "row"
    /\ Calling(c, [caller[c] EXCEPT !.at = "read", !.bound = issue.runtime = caller[c].runtime, !.open = issue.status = "open"])
    /\ UNCHANGED <<session, daemon, settling>> /\ KeepIssue
\* enqueue_spawn writes the assignee and then the status, each only if what it read differs.
EnqueueAssign(c) ==
    /\ caller[c].at = "read"
    /\ Calling(c, [caller[c] EXCEPT !.at = "assigned", !.bound = TRUE])
    /\ issue' = IF caller[c].bound THEN issue ELSE [issue EXCEPT !.runtime = caller[c].runtime]
    /\ UNCHANGED <<session, daemon, settling, reopened>>
EnqueueOpen(c) ==
    /\ caller[c].at = "assigned"
    /\ Calling(c, NoCall)
    /\ IF caller[c].open THEN KeepIssue ELSE SetStatus("open")
    /\ UNCHANGED <<session, daemon, settling>>

----------------------------------------------------------------------------
(* The daemon: it polls, claims and executes on one thread.                *)

Becomes(d, record) == daemon' = [daemon EXCEPT ![d] = record]
Goes(d, at) == Becomes(d, [daemon[d] EXCEPT !.at = at])
\* The ghost is cleared when the last agent is through.
Through(d) == reopened' = (reopened /\ AtWork \ {d} # {})

list_assignments_for_runtime(d) ==
    /\ daemon[d].at = "idle" /\ issue.status = "open" /\ issue.runtime = d
    /\ Room /\ Goes(d, "listed")
    /\ UNCHANGED <<session, caller, settling>> /\ KeepIssue
\* A claim that commits and is never heard of again is a daemon that crashes after it.
BugClaimable(d) == issue.runtime = d
Claimable(d) == issue.runtime = d /\ issue.status = "open"
claim_assignment(d) ==
    /\ daemon[d].at = "listed"
    /\ IF Claimable(d) THEN Goes(d, "claimed") /\ SetStatus("in_progress") ELSE Becomes(d, Idle) /\ KeepIssue
    /\ UNCHANGED <<session, caller, settling>>

\* A row of its own: the spawning row of a dispatch is never taken over.  No answer: no Session to report.
open_session(d) ==
    /\ daemon[d].at = "claimed"
    /\ \E s \in Sessions :
        /\ NewSession(s, "running", d)
        /\ \/ Becomes(d, [daemon[d] EXCEPT !.at = "opened", !.session = s]) /\ KeepIssue
           \/ Goes(d, "aborting") /\ issue' = issue /\ Through(d)
    /\ UNCHANGED <<caller, settling>>
ack_started(d) ==
    /\ daemon[d].at = "opened"
    /\ \/ Goes(d, "running") /\ SetStatus("in_progress")
       \/ Goes(d, "failing") /\ issue' \in {issue, [issue EXCEPT !.status = "in_progress"]} /\ Through(d)
    /\ UNCHANGED <<session, caller, settling>>
\* The agent ends with its return code, or could not be launched.
run_session(d) ==
    /\ daemon[d].at = "running"
    /\ \/ \E ok \in BOOLEAN : Becomes(d, [daemon[d] EXCEPT !.at = "exited", !.ok = ok])
       \/ Goes(d, "failing")
    /\ issue' = issue /\ Through(d)
    /\ UNCHANGED <<session, caller, settling>>

\* set_session_state: a row that has ended refuses every other state.
SetState(s, state) == session' = IF Ended(s) THEN session ELSE [session EXCEPT ![s].state = state]
\* Best effort: the report may be lost.
report_session_state(d) ==
    /\ daemon[d].at \in {"exited", "failing"}
    /\ Goes(d, IF daemon[d].at = "exited" THEN "reported" ELSE "aborting")
    /\ \/ SetState(daemon[d].session, IF daemon[d].at = "exited" /\ daemon[d].ok THEN "completed" ELSE "failed")
       \/ UNCHANGED session
    /\ UNCHANGED <<caller, settling>> /\ KeepIssue
\* The outcome is written, whatever the Issue has become; no answer makes it an exception.
ack_outcome(d) ==
    /\ daemon[d].at = "reported"
    /\ LET status == IF daemon[d].ok THEN "in_review" ELSE "open"
       IN \/ Becomes(d, Idle) /\ SetStatus(status)
          \/ Goes(d, "failing") /\ (SetStatus(status) \/ KeepIssue)
    /\ UNCHANGED <<session, caller, settling>>
ack_aborted(d) ==
    /\ daemon[d].at = "aborting"
    /\ Becomes(d, Idle)
    /\ SetStatus("open") \/ KeepIssue
    /\ UNCHANGED <<session, caller, settling>>

Crash(d) ==
    /\ daemon[d].at # "down"
    /\ Becomes(d, [Idle EXCEPT !.at = "down"])
    /\ issue' = issue /\ Through(d)
    /\ UNCHANGED <<session, caller, settling>>
ComeBack(d) ==
    /\ daemon[d].at = "down"
    /\ Becomes(d, Idle)
    /\ UNCHANGED <<session, caller, settling>> /\ KeepIssue

----------------------------------------------------------------------------
(* Sessions that end for another reason.                                   *)

Settling(r, record) == settling' = [settling EXCEPT ![r] = record]
\* The command thread terminates the agent, and the hub is told.
stop_session(d) ==
    /\ daemon[d].at = "running" /\ settling[<<d, "stop">>] = NoRequest
    /\ Becomes(d, [daemon[d] EXCEPT !.at = "exited", !.ok = FALSE, !.stopped = TRUE])
    /\ Settling(<<d, "stop">>, [NoRequest EXCEPT !.at = "end", !.pending = {daemon[d].session}])
    /\ issue' = issue /\ Through(d)
    /\ UNCHANGED <<session, caller>>

\* On start and from time to time; the thread that asks owns no agent.
reconcile_sessions(d) ==
    /\ daemon[d].at = "idle" /\ settling[<<d, "reconcile">>] = NoRequest
    /\ Goes(d, "asking")
    /\ Settling(<<d, "reconcile">>, [NoRequest EXCEPT !.at = "asked"])
    /\ UNCHANGED <<session, caller>> /\ KeepIssue
\* The answer, or the patience of the client, is over.
Answered(d) ==
    /\ daemon[d].at = "asking"
    /\ Becomes(d, Idle)
    /\ UNCHANGED <<session, caller, settling>> /\ KeepIssue
BugUnownedRunning(d) == {s \in Sessions : session[s].state = "running" /\ session[s].runtime = d /\ session[s].aged}
Unowned(d) == {s \in Sessions : Ongoing(s) /\ session[s].runtime = d /\ session[s].aged}
reconcile_machine_sessions(r) ==
    /\ settling[r].at = "asked"
    /\ Settling(r, [NoRequest EXCEPT !.at = "end", !.pending = Unowned(r[1])])
    /\ UNCHANGED <<session, daemon, caller>> /\ KeepIssue

\* UPDATE ... WHERE ended_at IS NULL
Unended(s) == Ongoing(s)
finalize_session(r) ==
    /\ settling[r].at = "end"
    /\ \/ /\ settling[r].pending = {}
          /\ Settling(r, NoRequest) /\ UNCHANGED session
       \/ \E s \in settling[r].pending :
            LET rest == settling[r].pending \ {s}
            IN IF Unended(s)
               THEN /\ session' = [session EXCEPT ![s].state = "failed"]
                    /\ Settling(r, [at |-> "block", pending |-> rest, session |-> s])
               ELSE Settling(r, [settling[r] EXCEPT !.pending = rest]) /\ UNCHANGED session
    /\ UNCHANGED <<daemon, caller>> /\ KeepIssue
\* _block_issue_for_stopped_session reads, and writes later.
ReadStatus(r) ==
    /\ settling[r].at = "block"
    /\ Settling(r, IF issue.status = "in_progress" THEN [settling[r] EXCEPT !.at = "write"]
                   ELSE [settling[r] EXCEPT !.at = "end", !.session = NoOne])
    /\ UNCHANGED <<session, daemon, caller>> /\ KeepIssue
block_issue(r) ==
    /\ settling[r].at = "write"
    /\ SetStatus("blocked")
    /\ Settling(r, [settling[r] EXCEPT !.at = "end", !.session = NoOne])
    /\ UNCHANGED <<session, daemon, caller>>

DaemonStep(d) ==
    \/ claim_assignment(d) \/ open_session(d) \/ ack_started(d) \/ run_session(d) \/ report_session_state(d)
    \/ ack_outcome(d) \/ ack_aborted(d) \/ Answered(d) \/ ComeBack(d)
HubStep(r) == reconcile_machine_sessions(r) \/ finalize_session(r) \/ ReadStatus(r) \/ block_issue(r)

QueueNext ==
    \/ \E s \in Sessions : Forget(s) \/ Age(s)
    \/ transition \/ assign
    \/ \E c \in Dispatchers : \/ dispatch_plan(c) \/ open_spawn_session(c) \/ ReadIssue(c)
                              \/ EnqueueAssign(c) \/ EnqueueOpen(c)
    \/ \E d \in Daemons : list_assignments_for_runtime(d) \/ DaemonStep(d) \/ Crash(d) \/ stop_session(d) \/ reconcile_sessions(d)
    \/ \E r \in Requests : HubStep(r)

\* The thread of a daemon gets on with what it does, comes back after a crash and finds its clock
\* past detect_interval now and again while a Session is open; the hub finishes what it began; time passes.
QueueFairness ==
    /\ \A d \in Daemons : WF_queueVars(DaemonStep(d)) /\ SF_queueVars((\E s \in Sessions : Ongoing(s)) /\ reconcile_sessions(d))
    /\ \A r \in Requests : WF_queueVars(HubStep(r))
    /\ \A s \in Sessions : SF_queueVars(Age(s))

----------------------------------------------------------------------------
\* "two daemons racing the same assignment resolve to exactly one winner": two agents work one
\* Issue only if somebody opened it again while the first was at it.
OneAgent == Cardinality(AtWork) <= 1 \/ reopened

\* The rows agree with what the daemons do, and one agent is at work.
QueueIsSound == QueueTypeOK /\ OneAgent

\* "Bring a Session to a terminal state exactly once": whichever of a natural finish, a stop and
\* a reconciliation is first decides, and the others change nothing.
SettledOnce == \A s \in Sessions : Ended(s) => session'[s] \in {session[s], NoSession}

\* A reconciliation whose client gave up waiting never ends the Session the daemon opened since.
AgentKeepsSession ==
    \A s \in Sessions, d \in Daemons :
        daemon[d].session = s /\ daemon[d].at \in {"opened", "running"} /\ daemon'[d] = daemon[d]
            => session'[s] = session[s] \/ session'[s] = [session[s] EXCEPT !.aged = TRUE]

\* "every Session the hub still shows running here is settled ... instead of staying live forever".
SessionsSettle == \A s \in Sessions : Ongoing(s) ~> ~Ongoing(s)

------------------------------------------------------------
(* What the repository says and the code does not do.                      *)

\* finalize_session: the Issue of a stopped Session "is moved to blocked rather than back to open,
\* because re-opening it would have the daemon immediately re-spawn the work".
StopHolds ==
    [][\A d \in Daemons : daemon[d].stopped /\ daemon'[d] # daemon[d]
        => ~(issue.status # "open" /\ issue'.status = "open")]_queueVars
=============================================================================
