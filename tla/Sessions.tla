------------------------------ MODULE Sessions ------------------------------
(***************************************************************************)
(* Session lifecycle and what a Session owns: control/sessions.py,         *)
(* session_liveness.py, claims.py and tasks.py, in one Workspace.          *)
(*                                                                         *)
(* A handle is a coordination Session: no PID, a renewable lease, dormant  *)
(* when the lease lapses.  An agent is a process-bound Session: a PID and  *)
(* a last activity, ended by the reaper.  Handles share one tool and one   *)
(* operator, so any of them is a candidate for reuse or succession.        *)
(*                                                                         *)
(* Time is relative.  lease is what is left of a lease and claim.left of   *)
(* the Workspace claim (-1: lapsed), quiet the time since an agent's last  *)
(* activity; passing time moves them all and nothing bounds the clock.     *)
(*                                                                         *)
(* A mutation that locks the Session row first is one atomic step.  Three  *)
(* calls read before they lock and are several steps: the reaper, which    *)
(* claim_workspace and start_session run first, and the two choices of     *)
(* start_session, whose later step works on the attributes read earlier.   *)
(* One such call is in progress at a time; everything else interleaves.    *)
(*                                                                         *)
(* append_event, which most operations end with, renews the caller again   *)
(* a moment later; the renewal is part of the operation's step.  Mailbox   *)
(* attachments and open commands are settled by the same transitions and   *)
(* belong to their own components.                                         *)
(***************************************************************************)
EXTENDS Integers, FiniteSets

CONSTANTS
    Handles,        \* coordination Sessions
    Agents,         \* process-bound Sessions
    Foreign,        \* the agents recorded on another machine
    MaxTasks,       \* bound: task codes
    None,           \* no Session
    LeaseLength,    \* session_lease_seconds()
    ClaimLength,    \* duration_minutes of a Workspace claim
    StaleTTL,       \* STALE_SESSION_TTL_SECONDS
    ReportedStates  \* what a Runtime may report through set_session_state

ASSUME ConstantsAssumption ==
    /\ Handles \cap Agents = {}
    /\ Foreign \subseteq Agents
    /\ None \notin Handles \cup Agents
    /\ MaxTasks \in Nat /\ LeaseLength \in Nat /\ ClaimLength \in Nat /\ StaleTTL \in Nat
    /\ ReportedStates \subseteq {"spawning", "running", "blocked", "completed", "failed"}

Ids == Handles \cup Agents

\* TASK-0001, TASK-0002, ...: minted in order.
Tasks == 1 .. MaxTasks

VARIABLES
    session,   \* [state, ended] of each agent_sessions row
    lease,     \* what is left of each handle's lease
    quiet,     \* time since each agent's last activity
    alive,     \* the agents whose process still runs
    successor, \* the session_successors table
    claim,     \* the Workspace's claim: [owner, left]
    task,      \* the agent_tasks table: [status, owner, deps]
    call       \* the multi-step call in progress

vars == <<session, lease, quiet, alive, successor, claim, task, call>>

TERMINAL == {"completed", "failed"}
States == {"absent", "spawning", "running", "blocked", "dormant"} \cup TERMINAL

NoClaim == [owner |-> None, left |-> -1]
NoTask  == [status |-> "absent", owner |-> None, deps |-> {}]

(***************************************************************************)
(* A call: op names it and pc its next step; who is the claiming Session;  *)
(* seen the live agents the reaper read with a stale activity; pick the    *)
(* handle start_session chose, with the state and ended it read then.      *)
(***************************************************************************)
NoCall == [op |-> "none", pc |-> "idle", who |-> None, seen |-> {},
           pick |-> None, state |-> "absent", ended |-> FALSE]

Call == [op    : {"none", "claim", "start", "new"},
         pc    : {"idle", "reap", "claim", "sweep", "reuse", "renew", "link", "create"},
         who   : Ids \cup {None},
         seen  : SUBSET Agents,
         pick  : Ids \cup {None},
         state : States,
         ended : BOOLEAN]

Init ==
    /\ session = [s \in Ids |-> [state |-> "absent", ended |-> FALSE]]
    /\ lease = [h \in Handles |-> -1]
    /\ quiet = [a \in Agents |-> 0]
    /\ alive = Agents
    /\ successor = [s \in Ids |-> None]
    /\ claim = NoClaim
    /\ task = [t \in Tasks |-> NoTask]
    /\ call = NoCall

-----------------------------------------------------------------------------
Exists(s) == session[s].state # "absent"

\* _terminal_or_ended.
TerminalOrEnded(s) == session[s].ended \/ session[s].state \in TERMINAL

\* require_live_session: a handle must also be awake and hold a current lease.
Live(s) ==
    /\ Exists(s)
    /\ ~TerminalOrEnded(s)
    /\ s \in Handles => session[s].state # "dormant" /\ lease[s] >= 0

\* renew_session_lease and the activity stamp of append_event, for a Session
\* that is neither ended nor dormant: a handle's lease, an agent's activity.
Touch(s) ==
    /\ lease' = [h \in Handles |-> IF h = s THEN LeaseLength ELSE lease[h]]
    /\ quiet' = [a \in Agents |-> IF a = s THEN 0 ELSE quiet[a]]

\* A task given back.
GivenBack(t) == [task[t] EXCEPT !.status = "available", !.owner = None]

\* _release_session_ownership, for a set of Sessions: their claim is deleted
\* and their tasks in progress are available again.
BugReleaseOwnership(S) == UNCHANGED <<claim, task>>
ReleaseOwnership(S) ==
    /\ claim' = IF claim.owner \in S THEN NoClaim ELSE claim
    /\ task' = [t \in Tasks |->
                  IF task[t].status = "in_progress" /\ task[t].owner \in S
                  THEN GivenBack(t) ELSE task[t]]

Tick ==
    /\ lease' = [h \in Handles |-> IF lease[h] < 0 THEN -1 ELSE lease[h] - 1]
    /\ quiet' = [a \in Agents |-> IF quiet[a] > StaleTTL THEN quiet[a] ELSE quiet[a] + 1]
    /\ claim' = [claim EXCEPT !.left = IF @ < 0 THEN -1 ELSE @ - 1]
    /\ UNCHANGED <<session, alive, successor, task, call>>

\* An agent's recorded process exits.
ProcessExit(a) ==
    /\ a \in alive
    /\ alive' = alive \ {a}
    /\ UNCHANGED <<session, lease, quiet, successor, claim, task, call>>

-----------------------------------------------------------------------------
(* Session transitions that lock first.                                    *)

\* Whether renew_session_lease may wake s: a superseded handle stays dormant.
BugMayWake(s) == TRUE
MayWake(s) == ~(session[s].state = "dormant" /\ successor[s] # None)

heartbeat_session(s) ==
    /\ Exists(s) /\ ~session[s].ended
    /\ MayWake(s)
    /\ session' = [session EXCEPT ![s].state = IF @ = "dormant" THEN "running" ELSE @]
    /\ Touch(s)
    /\ UNCHANGED <<alive, successor, claim, task, call>>

\* append_event in the name of s, outside the operations below: it renews but
\* never wakes.
append_event(s) ==
    /\ Exists(s) /\ ~session[s].ended /\ session[s].state # "dormant"
    /\ Touch(s)
    /\ UNCHANGED <<session, alive, successor, claim, task, call>>

\* A repeated report of the same terminal state only releases again.
set_session_state(s, state) ==
    /\ Exists(s)
    /\ IF TerminalOrEnded(s)
       THEN session[s].state = state /\ state \in TERMINAL /\ UNCHANGED session
       ELSE session' = [session EXCEPT ![s] = [state |-> state, ended |-> state \in TERMINAL]]
    /\ IF state \in TERMINAL THEN ReleaseOwnership({s}) ELSE UNCHANGED <<claim, task>>
    /\ UNCHANGED <<lease, quiet, alive, successor, call>>

end_session(s) ==
    /\ Exists(s) /\ ~session[s].ended
    /\ session' = [session EXCEPT ![s] = [state |-> IF @.state \in TERMINAL THEN @.state
                                                    ELSE "completed",
                                          ended |-> TRUE]]
    /\ ReleaseOwnership({s})
    /\ UNCHANGED <<lease, quiet, alive, successor, call>>

\* The conditional UPDATE on ended_at IS NULL; an operator stop, or
\* reconcile_machine_sessions for a Session its Runtime no longer owns.
finalize_session(s, state) ==
    /\ Exists(s) /\ ~session[s].ended
    /\ session' = [session EXCEPT ![s] = [state |-> state, ended |-> TRUE]]
    /\ ReleaseOwnership({s})
    /\ UNCHANGED <<lease, quiet, alive, successor, call>>

\* The handles whose lease has lapsed.
Lapsed == {h \in Handles : /\ Exists(h) /\ ~session[h].ended
                           /\ session[h].state # "dormant" /\ lease[h] < 0}

SweepLeases ==
    /\ session' = [s \in Ids |-> IF s \in Lapsed THEN [session[s] EXCEPT !.state = "dormant"]
                                 ELSE session[s]]
    /\ ReleaseOwnership(Lapsed)

sweep_stale_session_leases ==
    /\ Lapsed # {}
    /\ SweepLeases
    /\ UNCHANGED <<lease, quiet, alive, successor, call>>

\* _supersede_coordination_handle with the predecessor's state and ended as
\* the caller has them in memory: what p owns becomes h's, and p goes dormant
\* (a state that already reads dormant is not written).
MoveOwnership(p, h) ==
    /\ claim' = IF claim.owner = p THEN [claim EXCEPT !.owner = h] ELSE claim
    /\ task' = [t \in Tasks |->
                  IF task[t].status = "in_progress" /\ task[t].owner = p
                  THEN [task[t] EXCEPT !.owner = h] ELSE task[t]]

Supersede(p, h, pState, pEnded, others) ==
    IF p \in Handles /\ ~pEnded
    THEN /\ session' = IF pState = "dormant" THEN others
                       ELSE [others EXCEPT ![p].state = "dormant"]
         /\ MoveOwnership(p, h)
    ELSE session' = others /\ UNCHANGED <<claim, task>>

\* The link row is inserted once and never re-pointed.
MayLink(p) == successor[p] = None

link_session_successor(p, h) ==
    /\ p # h /\ Exists(p) /\ Exists(h)
    /\ MayLink(p)
    /\ Live(h)
    /\ Supersede(p, h, session[p].state, session[p].ended, session)
    /\ successor' = [successor EXCEPT ![p] = h]
    /\ Touch(h)
    /\ UNCHANGED <<alive, call>>

-----------------------------------------------------------------------------
(* reap_zombie_sessions, the first two steps of claim_workspace and of     *)
(* start_session: the live rows are read without a lock, and the ones      *)
(* found stale are ended by a later, unconditional write.                  *)

Begin(op, who, pick) ==
    /\ call.pc = "idle"
    /\ call' = [NoCall EXCEPT
                  !.op = op, !.pc = "reap", !.who = who, !.pick = pick,
                  !.seen = {a \in Agents : Exists(a) /\ ~session[a].ended /\ quiet[a] > StaleTTL}]
    /\ UNCHANGED <<session, lease, quiet, alive, successor, claim, task>>

\* The PID probe, per row, comes after the read.
Victims == {a \in call.seen : a \in Foreign \/ a \notin alive}

ReapWrite ==
    /\ call.pc = "reap"
    /\ session' = [s \in Ids |-> IF s \in Victims THEN [state |-> "failed", ended |-> TRUE]
                                 ELSE session[s]]
    /\ ReleaseOwnership(Victims)
    /\ call' = [call EXCEPT !.pc = IF call.op = "claim" THEN "claim" ELSE "sweep", !.seen = {}]
    /\ UNCHANGED <<lease, quiet, alive, successor>>

-----------------------------------------------------------------------------
(* claim_workspace, release_workspace and the expiry of claims.            *)

claim_workspace(s) == Exists(s) /\ Begin("claim", s, None)

\* A claim that has expired does not stand in the way; one that has not does.
ClaimFree(s) == claim.owner \in {None, s} \/ claim.left < 0

\* The claim itself, under the Session lock; a refusal ends the call.
ClaimCommit ==
    /\ call.pc = "claim"
    /\ IF Live(call.who) /\ ClaimFree(call.who)
       THEN claim' = [owner |-> call.who, left |-> ClaimLength] /\ Touch(call.who)
       ELSE UNCHANGED <<claim, lease, quiet>>
    /\ call' = NoCall
    /\ UNCHANGED <<session, alive, successor, task>>

release_workspace(s) ==
    /\ Exists(s)
    /\ claim.owner = s
    /\ claim' = NoClaim
    /\ IF session[s].ended \/ session[s].state = "dormant" THEN UNCHANGED <<lease, quiet>>
       ELSE Touch(s)
    /\ UNCHANGED <<session, alive, successor, task, call>>

\* The claims part of apply_repair.
expire_claims ==
    /\ claim.owner # None /\ claim.left < 0
    /\ claim' = NoClaim
    /\ UNCHANGED <<session, lease, quiet, alive, successor, task, call>>

-----------------------------------------------------------------------------
(* start_session.  Starts of one tool and operator are serialized by       *)
(* _coordination_start_lock.                                               *)

\* reuse_existing and auto_link_predecessor, as the CLI and the MCP tool ask.
start_session == Begin("start", None, None)

\* reuse_existing is off; the caller names a predecessor, asks for one to be found
\* (auto_link_predecessor), or takes the defaults and does without.
start_new_session(p) == Begin("new", None, p)

\* The sweep before anything is chosen.
StartSweep ==
    /\ call.pc = "sweep"
    /\ SweepLeases
    /\ \/ call.op = "start" /\ call' = [call EXCEPT !.pc = "reuse"]
       \/ call.op = "new" /\ call.pick = None /\ call' = [call EXCEPT !.pc = "link"]
       \/ call.op = "new" /\ call' = [call EXCEPT !.pc = "create"]
    /\ UNCHANGED <<lease, quiet, alive, successor>>

Current(h) == ~session[h].ended /\ session[h].state # "dormant" /\ lease[h] >= 0

\* The one current candidate, or else the most recently active one; more than
\* one current candidate is an error and ends the call.
Picks(candidates) ==
    LET current == {h \in candidates : Current(h)}
    IN  IF current # {} THEN current
        ELSE {h \in candidates : \A g \in candidates : lease[g] <= lease[h]}

Ambiguous(candidates) == Cardinality({h \in candidates : Current(h)}) > 1

Candidates == {h \in Handles : Exists(h) /\ successor[h] = None}

PickNext(candidates, found, otherwise) ==
    \/ /\ Ambiguous(candidates)
       /\ call' = NoCall
    \/ /\ ~Ambiguous(candidates)
       /\ \E h \in Picks(candidates) :
            call' = [call EXCEPT !.pc = found, !.pick = h, !.state = session[h].state,
                                 !.ended = session[h].ended]
    \/ /\ candidates = {}
       /\ call' = [call EXCEPT !.pc = otherwise]

StartReuse ==
    /\ call.pc = "reuse"
    /\ PickNext({h \in Candidates : ~session[h].ended}, "renew", "link")
    /\ UNCHANGED <<session, lease, quiet, alive, successor, claim, task>>

\* The reused row is locked, but its attributes are still the ones read by
\* StartReuse: a handle that read dormant is set running, whatever became of
\* it since.
StartRenew ==
    /\ call.pc = "renew"
    /\ LET h == call.pick
       IN  IF call.state = "dormant" /\ successor[h] # None
           THEN UNCHANGED <<session, lease, quiet>>
           ELSE /\ session' = IF call.state = "dormant"
                              THEN [session EXCEPT ![h].state = "running"] ELSE session
                /\ Touch(h)
    /\ call' = NoCall
    /\ UNCHANGED <<alive, successor, claim, task>>

\* auto_link_predecessor: ended handles are candidates too.
StartLink ==
    /\ call.pc = "link"
    /\ PickNext(Candidates, "create", "create")
    /\ UNCHANGED <<session, lease, quiet, alive, successor, claim, task>>

\* The new handle, linked to its predecessor.  A predecessor the caller named
\* is read here; one that was chosen keeps the attributes StartLink read.
\* An unknown predecessor is refused, and so is one that has a successor by
\* now: a conflicting relink.
StartCreate(h) ==
    /\ call.pc = "create"
    /\ ~Exists(h) /\ h \in Handles
    /\ LET p      == call.pick
           chosen == call.state # "absent"
           others == [session EXCEPT ![h] = [state |-> "running", ended |-> FALSE]]
       IN  IF p = None
           THEN /\ session' = others
                /\ Touch(h)
                /\ UNCHANGED <<successor, claim, task>>
           ELSE IF ~Exists(p) \/ ~MayLink(p)
           THEN UNCHANGED <<session, lease, quiet, successor, claim, task>>
           ELSE /\ Supersede(p, h, IF chosen THEN call.state ELSE session[p].state,
                                   IF chosen THEN call.ended ELSE session[p].ended, others)
                /\ successor' = [successor EXCEPT ![p] = h]
                /\ Touch(h)
    /\ call' = NoCall
    /\ UNCHANGED alive

\* The bound on handles is reached: the call is abandoned.
StartExhausted ==
    /\ call.pc = "create"
    /\ \A h \in Handles : Exists(h)
    /\ call' = NoCall
    /\ UNCHANGED <<session, lease, quiet, alive, successor, claim, task>>

\* start_session with a PID: an agent of this or of another machine.
start_agent(a) ==
    /\ ~Exists(a)
    /\ session' = [session EXCEPT ![a] = [state |-> "running", ended |-> FALSE]]
    /\ Touch(a)
    /\ UNCHANGED <<alive, successor, claim, task, call>>

-----------------------------------------------------------------------------
(* Tasks.  Each operation of a Session locks its row and requires it live. *)

\* next_sequential_code, retried until the insert finds its code unused.
IsNextCode(t) == \A u \in Tasks : u < t <=> task[u].status # "absent"

\* depends_on is free text: nothing asks whether the codes it names exist.
create_task(t, deps) ==
    /\ IsNextCode(t)
    /\ task' = [task EXCEPT ![t] = [status |-> "available", owner |-> None, deps |-> deps]]
    /\ UNCHANGED <<session, lease, quiet, alive, successor, claim, call>>

\* A dependency that does not exist holds nothing up.
BugStartable(t) == task[t].status = "available"
Startable(t) ==
    /\ task[t].status = "available"
    /\ \A d \in task[t].deps : task[d].status \in {"absent", "done"}

claim_task(s, t) ==
    /\ Live(s)
    /\ Startable(t)
    /\ task' = [task EXCEPT ![t].status = "in_progress", ![t].owner = s]
    /\ Touch(s)
    /\ UNCHANGED <<session, alive, successor, claim, call>>

\* Only the owner completes a task that has one.
BugMayComplete(s, t) == task[t].status \notin {"absent", "done"}
MayComplete(s, t) ==
    /\ task[t].status \notin {"absent", "done"}
    /\ task[t].owner \in {None, s}

complete_task(s, t) ==
    /\ Live(s)
    /\ MayComplete(s, t)
    /\ task' = [task EXCEPT ![t].status = "done"]
    /\ Touch(s)
    /\ UNCHANGED <<session, alive, successor, claim, call>>

release_task(s, t) ==
    /\ Live(s)
    /\ task[t].status = "in_progress" /\ task[t].owner = s
    /\ task' = [task EXCEPT ![t] = GivenBack(t)]
    /\ Touch(s)
    /\ UNCHANGED <<session, alive, successor, claim, call>>

\* The predecessor is done and its follow-up exists, in one transaction.
handoff_task(s, t, next, extra) ==
    /\ Live(s)
    /\ MayComplete(s, t)
    /\ IsNextCode(next)
    /\ task' = [task EXCEPT ![t].status = "done",
                            ![next] = [status |-> "available", owner |-> None, deps |-> {t} \cup extra]]
    /\ Touch(s)
    /\ UNCHANGED <<session, alive, successor, claim, call>>

-----------------------------------------------------------------------------
LifecycleStep ==
    \/ sweep_stale_session_leases
    \/ \E a \in Agents : ProcessExit(a) \/ start_agent(a)
    \/ \E s \in Ids :
          \/ heartbeat_session(s) \/ append_event(s) \/ end_session(s)
          \/ \E state \in ReportedStates : set_session_state(s, state)
          \/ \E state \in TERMINAL : finalize_session(s, state)
          \/ \E h \in Ids : link_session_successor(s, h)

CallStep ==
    \/ \E s \in Ids : claim_workspace(s) \/ start_new_session(s)
    \/ start_session \/ start_new_session(None)
    \/ ReapWrite \/ ClaimCommit
    \/ StartSweep \/ StartReuse \/ StartRenew \/ StartLink
    \/ (\E h \in Handles : StartCreate(h)) \/ StartExhausted

OwnershipStep ==
    \/ expire_claims
    \/ \E s \in Ids : release_workspace(s)
    \/ \E t \in Tasks :
          \/ \E deps \in SUBSET Tasks : create_task(t, deps)
          \/ \E s \in Ids :
                \/ claim_task(s, t) \/ complete_task(s, t) \/ release_task(s, t)
                \/ \E next \in Tasks, extra \in SUBSET Tasks : handoff_task(s, t, next, extra)

Next == Tick \/ LifecycleStep \/ CallStep \/ OwnershipStep

Spec == Init /\ [][Next]_vars

\* Time passes and the scheduler's maintenance tick keeps sweeping; callers
\* may stop at any point.
FairSpec == Spec /\ WF_vars(Tick) /\ WF_vars(sweep_stale_session_leases)

-----------------------------------------------------------------------------
(* Properties.                                                             *)

TypeOK ==
    /\ session \in [Ids -> [state : States, ended : BOOLEAN]]
    /\ lease \in [Handles -> -1 .. LeaseLength]
    /\ quiet \in [Agents -> 0 .. StaleTTL + 1]
    /\ alive \subseteq Agents
    /\ successor \in [Ids -> Ids \cup {None}]
    /\ claim \in [owner : Ids \cup {None}, left : -1 .. ClaimLength]
    /\ task \in [Tasks -> [status : {"absent", "available", "in_progress", "done"},
                           owner : Ids \cup {None}, deps : SUBSET Tasks]]
    /\ call \in Call

Owns(s) ==
    \/ claim.owner = s
    \/ \E t \in Tasks : task[t].status = "in_progress" /\ task[t].owner = s

\* Nothing is ever held by a Session that has ended or gone dormant: every
\* path that ends, reaps, sweeps or supersedes a Session also releases or
\* moves the claim and the tasks it held.
OwnersAreAwake ==
    \A s \in Ids : Owns(s) => Exists(s) /\ ~session[s].ended /\ session[s].state # "dormant"

\* A task is never being worked on before every older task it depends on is
\* done, through every completion, release, handoff and change of hands.  (A
\* code named before it was minted is not waited for.)
NoEarlyStart ==
    \A t \in Tasks : task[t].status = "in_progress" =>
        \A d \in task[t].deps : d < t => task[d].status = "done"

\* Ownership is sound through reaps, sweeps, starts and successions: rows keep
\* their types, only awake Sessions hold a claim or a task, and no task starts
\* before what it depends on.
OwnershipIsSound == TypeOK /\ OwnersAreAwake /\ NoEarlyStart

ClaimNotStolen ==
    claim.owner # None /\ claim.left >= 0 =>
        claim'.owner \in {claim.owner, None, successor'[claim.owner]}

TaskNotStolen(t) ==
    task[t].status = "in_progress" =>
        /\ task'[t].owner \in {task[t].owner, None, successor'[task[t].owner]}
        /\ task'[t].status = "done" => Live(task[t].owner)

\* Nobody takes what another Session holds: an unexpired claim passes only to
\* the holder's successor, and so does a task in progress, which is completed
\* only while its owner is live, whatever reaps and sweeps interleave.
NotStolen == ClaimNotStolen /\ \A t \in Tasks : TaskNotStolen(t)

\* A link from a Session to its successor is never re-pointed, and a dormant
\* handle that has a successor is not woken by a heartbeat or by reuse: only a
\* reported state can.
SuccessionStands ==
    \A s \in Ids : successor[s] # None =>
        /\ successor'[s] = successor[s]
        /\ session[s].state = "dormant" /\ session'[s].state = "running"
              => set_session_state(s, "running")

\* A Session that ended stays ended, even one whose state a reuse wrote over.
EndedStays == \A s \in Ids : session[s].ended => session'[s].ended

\* What a Session's life has settled stands, whichever of start, reap, sweep,
\* succession and report comes second: holdings leave only by release or
\* succession, links and ends are final.
LifecycleStands == [][NotStolen /\ SuccessionStands /\ EndedStays]_vars

\* What a silent handle holds does not stay with it: each handle either keeps
\* renewing its lease or keeps being without a claim and without tasks.
SilentHoldersAreReleased ==
    \A h \in Handles : []<>(lease[h] = LeaseLength) \/ []<>~Owns(h)

-----------------------------------------------------------------------------
(* What the repository says and the code does not do.                      *)

\* reap_zombie_sessions: "Fresh activity always wins".  The write does not
\* look at the activity again.
FreshActivityWins ==
    [][call.pc = "reap" /\ call'.pc # "reap" =>
         \A a \in Agents : quiet[a] <= StaleTTL => session'[a] = session[a]]_vars

\* "ended_at and the explicit state must move together or the store grows
\* contradictory Sessions".  Reuse and automatic linking write a state decided
\* on attributes read before the lock.
EndedMovesWithState ==
    \A s \in Ids : session[s].ended => session[s].state \in TERMINAL

=============================================================================
