--------------------------- MODULE WorkAssignments ---------------------------
(***************************************************************************)
(* Durable work assignments: control/work_assignments.py.                  *)
(*                                                                         *)
(* One scope is modelled, a Workspace and the operator who owns the work   *)
(* in it: every caller outside that scope is refused before anything is    *)
(* read (_assignment, _visible).  Within the scope an assignment is known  *)
(* by its idempotency key, which the store makes unique.                   *)
(*                                                                         *)
(* Every Session or operator mutation takes SQLite's single writer before  *)
(* it reads, so it is one atomic step.  reconcile_assignment_attempts      *)
(* takes no lock: it reads the row, the attempts and the source one after  *)
(* the other, other writers commit in between, and only the                *)
(* compare-and-set of its last step is atomic.                             *)
(*                                                                         *)
(* A request carries its runtime budget and an optional deadline; title,   *)
(* evidence and result are one opaque value each.                          *)
(***************************************************************************)
EXTENDS Naturals

CONSTANTS
    Sessions,     \* coordination Sessions (PID-less) of the owning operator
    MailboxBound, \* the Sessions with a durable mailbox attachment
    Keys,         \* idempotency keys, one assignment each
    Requests,     \* the requests a creator may make: [budget, deadline]
    Evidence,     \* what a settlement may report
    NoDeadline,   \* a request without a deadline of its own
    Nobody,       \* no Session: an absent source, or the operator as author
    LeaseLength,  \* session_lease_seconds()
    MaxTime,      \* bound on the clock
    MaxRevision,  \* bound on an assignment's revision
    MaxGeneration \* bound on an assignment's attempts

ASSUME ConstantsAssumption ==
    /\ MailboxBound \subseteq Sessions
    /\ Nobody \notin Sessions
    /\ LeaseLength \in Nat
    /\ MaxTime \in Nat
    /\ MaxRevision \in Nat \ {0}
    /\ MaxGeneration \in Nat
    /\ NoDeadline \notin Nat
    /\ Requests # {}
    /\ Requests \subseteq [budget : Nat \ {0}, deadline : Nat \cup {NoDeadline}]

VARIABLES
    now,       \* the clock utc_now() reads
    sessions,  \* [state, lease] of each Session
    row,       \* the work_assignments table
    attempts,  \* the work_assignment_attempts table: attempts[k][generation]
    reconciler \* what the running reconcile_assignment_attempts has read

vars == <<now, sessions, row, attempts, reconciler>>

UNRESOLVED == {"accepted", "cancel_requested", "uncertain"}
CONCLUSIVE == {"completed", "failed", "cancelled"}
Outcomes   == CONCLUSIVE \cup {"uncertain"}
Statuses   == {"absent", "ready"} \cup UNRESOLVED \cup CONCLUSIVE

Generations == 1 .. MaxGeneration

SessionRow == [state : {"running", "dormant", "ended"}, lease : Nat]

Row == [status     : Statuses,
        revision   : 0 .. MaxRevision,
        generation : 0 .. MaxGeneration,
        kind       : {"session", "operator"},
        request    : Requests,
        cancel     : BOOLEAN]            \* cancel_requested_at is set

Attempt == [status   : Statuses,
            source   : Sessions \cup {Nobody},
            deadline : Nat,
            cancel   : BOOLEAN,          \* cancel_requested_at is set
            settled  : BOOLEAN,          \* settled_at is set
            evidence : Evidence \cup {"none", "reconciled"}]

NoAttempt == [status |-> "absent", source |-> Nobody, deadline |-> 0,
              cancel |-> FALSE, settled |-> FALSE, evidence |-> "none"]

(***************************************************************************)
(* The local state of the one reconciliation in progress: pc names its     *)
(* next step, at is the clock it read on entry, status and revision are    *)
(* the row's as read, attempt is the last attempt as read and generation   *)
(* that attempt's number, outcome is the settlement it decided on.         *)
(***************************************************************************)
Reconciler == [pc         : {"idle", "attempts", "source", "settle"},
               key        : Keys,
               at         : Nat,
               status     : Statuses,
               revision   : 0 .. MaxRevision,
               generation : 0 .. MaxGeneration,
               attempt    : Attempt,
               outcome    : {"failed", "cancelled"}]

Idle(k) == [pc |-> "idle", key |-> k, at |-> 0, status |-> "absent",
            revision |-> 0, generation |-> 0, attempt |-> NoAttempt,
            outcome |-> "failed"]

Init ==
    /\ now = 0
    /\ sessions = [s \in Sessions |-> [state |-> "running", lease |-> LeaseLength]]
    /\ row = [k \in Keys |-> [status |-> "absent", revision |-> 0, generation |-> 0,
                              kind |-> "session", request |-> CHOOSE r \in Requests : TRUE,
                              cancel |-> FALSE]]
    /\ attempts = [k \in Keys |-> [g \in Generations |-> NoAttempt]]
    /\ \E k \in Keys : reconciler = Idle(k)

-----------------------------------------------------------------------------
(* The Sessions that act on assignments: control/sessions.py, reduced to   *)
(* the one question asked here, whether a handle is live.                  *)

\* require_live_session with renew_lease=False: it raises on an ended, a
\* dormant or a lapsed handle.
Live(s) == sessions[s].state = "running" /\ sessions[s].lease >= now

\* require_live_session with renew_lease=True, at the end of a mutation:
\* renew_session_lease extends the lease unless the Session is mailbox bound.
RenewLease(s) ==
    sessions' = IF s \in MailboxBound THEN sessions
                ELSE [sessions EXCEPT ![s].lease = now + LeaseLength]

Tick ==
    /\ now < MaxTime
    /\ now' = now + 1
    /\ UNCHANGED <<sessions, row, attempts, reconciler>>

\* heartbeat_session by the adapter that holds the binding: renews, and
\* wakes a dormant Session.
Heartbeat(s) ==
    /\ sessions[s].state # "ended"
    /\ sessions' = [sessions EXCEPT ![s] = [state |-> "running", lease |-> now + LeaseLength]]
    /\ UNCHANGED <<now, row, attempts, reconciler>>

\* sweep_stale_session_leases, for one Session.
SweepLease(s) ==
    /\ sessions[s].state = "running"
    /\ sessions[s].lease < now
    /\ sessions' = [sessions EXCEPT ![s].state = "dormant"]
    /\ UNCHANGED <<now, row, attempts, reconciler>>

\* end_session.
EndSession(s) ==
    /\ sessions[s].state # "ended"
    /\ sessions' = [sessions EXCEPT ![s].state = "ended"]
    /\ UNCHANGED <<now, row, attempts, reconciler>>

-----------------------------------------------------------------------------
(* Assignment operations.  A refused call changes nothing and is not a     *)
(* step; neither is an idempotent replay, which only reads.                *)

\* _attempts(session, row)[-1]: attempts are numbered 1 .. generation.
Current(k) == attempts[k][row[k].generation]

\* One row of the attempts table is written.
WriteAttempt(k, g, a) == attempts' = [attempts EXCEPT ![k] = [attempts[k] EXCEPT ![g] = a]]

\* _revision: the caller must name the stored revision.
Fenced(k, expected) ==
    /\ row[k].status # "absent"
    /\ row[k].revision = expected
    /\ expected < MaxRevision

\* _cas: a successful write moves the revision on by one.
NextRevision(expected) == expected + 1

\* The revision a new row starts from.
BugFirstRevision == 0
FirstRevision == 1

\* _create_assignment, when no row has the key: with the key taken it is a
\* replay (same kind and request) or a refusal.
CreateRow(k, kind, request) ==
    /\ row[k].status = "absent"
    /\ row' = [row EXCEPT ![k] = [status |-> "ready", revision |-> FirstRevision, generation |-> 0,
                                 kind |-> kind, request |-> request, cancel |-> FALSE]]
    /\ UNCHANGED <<now, attempts, reconciler>>

create_work_assignment(s, k, request) ==
    /\ Live(s)
    /\ CreateRow(k, "session", request)
    /\ RenewLease(s)

create_operator_assignment(k, request) ==
    /\ CreateRow(k, "operator", request)
    /\ UNCHANGED sessions

\* The deadline an acceptance records: now plus the budget, cut short by the
\* request's own deadline.
DeadlineOf(request) ==
    LET budgeted == now + request.budget
    IN  IF request.deadline # NoDeadline /\ request.deadline < budgeted
        THEN request.deadline
        ELSE budgeted

accept_work_assignment(s, k, expected) ==
    /\ Live(s)
    /\ Fenced(k, expected)
    /\ row[k].status = "ready"
    /\ \A g \in 1 .. row[k].generation : attempts[k][g].status \notin UNRESOLVED
    /\ DeadlineOf(row[k].request) > now
    /\ row[k].generation < MaxGeneration
    /\ row' = [row EXCEPT ![k] = [@ EXCEPT !.status = "accepted",
                                           !.revision = NextRevision(expected),
                                           !.generation = row[k].generation + 1]]
    /\ WriteAttempt(k, row[k].generation + 1,
                    [status |-> "accepted", source |-> s,
                     deadline |-> DeadlineOf(row[k].request),
                     cancel |-> FALSE, settled |-> FALSE, evidence |-> "none"])
    /\ RenewLease(s)
    /\ UNCHANGED <<now, reconciler>>

\* What an attempt in this state may still report: a completion after a
\* cancellation request is refused.
BugMayReport(k, outcome) == row[k].status \in {"accepted", "cancel_requested"}
MayReport(k, outcome) ==
    /\ row[k].status \in {"accepted", "cancel_requested"}
    /\ ~(row[k].status = "cancel_requested" /\ outcome = "completed")

\* Only the source of the current attempt may report, and only once.
settle_work_assignment(s, k, g, outcome, evidence, expected) ==
    /\ Live(s)
    /\ Fenced(k, expected)
    /\ attempts[k][g].source = s
    /\ g = row[k].generation
    /\ attempts[k][g].status \notin Outcomes
    /\ MayReport(k, outcome)
    /\ row' = [row EXCEPT ![k] = [@ EXCEPT !.status = outcome,
                                           !.revision = NextRevision(expected)]]
    /\ WriteAttempt(k, g, [attempts[k][g] EXCEPT !.status = outcome,
                                                 !.evidence = evidence,
                                                 !.settled = outcome \in CONCLUSIVE])
    /\ RenewLease(s)
    /\ UNCHANGED <<now, reconciler>>

\* Whether a cancellation changes anything; a repeated one is only read back.
CancelEffective(k) ==
    /\ row[k].status \in {"ready", "accepted", "uncertain"}
    /\ ~(row[k].status = "uncertain" /\ row[k].cancel)

\* The can_cancel permission _operator_snapshot shows a human with the write
\* capability.
CanCancel(k) ==
    /\ row[k].status \notin {"cancelled", "cancel_requested"}
    /\ row[k].status = "uncertain" => ~row[k].cancel
    /\ row[k].status \in {"ready", "accepted", "uncertain"}

\* _cancel_assignment.  Ready work is cancelled outright; accepted work only
\* asks its source to stop; uncertain work stays uncertain and is marked once.
CancelAssignment(k, expected) ==
    LET status == CASE row[k].status = "ready"     -> "cancelled"
                    [] row[k].status = "uncertain" -> "uncertain"
                    [] OTHER                       -> "cancel_requested"
    IN  /\ Fenced(k, expected)
        /\ CancelEffective(k)
        /\ row' = [row EXCEPT ![k] = [@ EXCEPT !.status = status,
                                               !.revision = NextRevision(expected),
                                               !.cancel = TRUE]]
        /\ IF row[k].generation # 0 /\ status # "cancelled"
           THEN WriteAttempt(k, row[k].generation,
                             [Current(k) EXCEPT !.status = status, !.cancel = TRUE])
           ELSE UNCHANGED attempts
        /\ UNCHANGED <<now, reconciler>>

cancel_work_assignment(s, k, expected) ==
    /\ Live(s)
    /\ CancelAssignment(k, expected)
    /\ RenewLease(s)

cancel_operator_assignment(k, expected) ==
    /\ CancelAssignment(k, expected)
    /\ UNCHANGED sessions

\* Only conclusively failed or cancelled work is retried.
Retryable(k) ==
    /\ row[k].status \in {"failed", "cancelled"}
    /\ \A g \in 1 .. row[k].generation :
          attempts[k][g].status \in CONCLUSIVE /\ attempts[k][g].settled

retry_work_assignment(s, k, expected) ==
    /\ Live(s)
    /\ Fenced(k, expected)
    /\ Retryable(k)
    /\ row' = [row EXCEPT ![k] = [@ EXCEPT !.status = "ready",
                                           !.revision = NextRevision(expected),
                                           !.cancel = FALSE]]
    /\ RenewLease(s)
    /\ UNCHANGED <<now, attempts, reconciler>>

-----------------------------------------------------------------------------
(* reconcile_assignment_attempts, read by read.                            *)

\* The clock is read on entry, then the row.
ReconcileReadRow(k) ==
    /\ reconciler.pc = "idle"
    /\ row[k].status # "absent"
    /\ reconciler' = [Idle(k) EXCEPT !.pc = "attempts", !.at = now,
                                     !.status = row[k].status,
                                     !.revision = row[k].revision]
    /\ UNCHANGED <<now, sessions, row, attempts>>

\* The attempts as they are by now; the call returns unless row and last
\* attempt are both unresolved.
ReconcileReadAttempts ==
    /\ reconciler.pc = "attempts"
    /\ LET k == reconciler.key
       IN  reconciler' =
             IF /\ row[k].generation # 0
                /\ reconciler.status \in UNRESOLVED
                /\ Current(k).status \in UNRESOLVED
             THEN [reconciler EXCEPT !.pc = "source",
                                     !.generation = row[k].generation,
                                     !.attempt = Current(k)]
             ELSE Idle(k)
    /\ UNCHANGED <<now, sessions, row, attempts>>

\* The test of _snapshot and of the reconciliation for a source that can no
\* longer report.
BugSourceUnavailable(s, at) == sessions[s].state # "running" \/ sessions[s].lease <= at
SourceUnavailable(s, at) == sessions[s].state # "running" \/ sessions[s].lease < at

\* The source Session as it is by now, judged at the clock of entry.  (The
\* Session and its lease are two reads; what the pair decides is what one of
\* the two instants alone would decide.)
ReconcileReadSource ==
    /\ reconciler.pc = "source"
    /\ LET seen    == reconciler.attempt
           expired == reconciler.at >= seen.deadline
           asked   == reconciler.status = "cancel_requested"
       IN  reconciler' =
             IF expired \/ SourceUnavailable(seen.source, reconciler.at) \/ asked
             THEN [reconciler EXCEPT
                     !.pc = "settle",
                     !.outcome = IF asked \/ seen.status = "cancel_requested"
                                 THEN "cancelled" ELSE "failed"]
             ELSE Idle(reconciler.key)
    /\ UNCHANGED <<now, sessions, row, attempts>>

\* The compare-and-set on the revision read first.
BugCasMatches(k) == TRUE
CasMatches(k) == row[k].revision = reconciler.revision

\* Losing the compare-and-set raises and leaves everything as it is.
ReconcileSettle ==
    /\ reconciler.pc = "settle"
    /\ LET k == reconciler.key
           g == reconciler.generation
       IN  /\ \/ /\ CasMatches(k)
                /\ row[k].revision < MaxRevision
                /\ row' = [row EXCEPT ![k] = [@ EXCEPT !.status = reconciler.outcome,
                                                       !.revision = NextRevision(row[k].revision)]]
                /\ WriteAttempt(k, g, [attempts[k][g] EXCEPT !.status = reconciler.outcome,
                                                             !.evidence = "reconciled",
                                                             !.settled = TRUE])
             \/ /\ ~CasMatches(k)
                /\ UNCHANGED <<row, attempts>>
           /\ reconciler' = Idle(k)
    /\ UNCHANGED <<now, sessions>>

-----------------------------------------------------------------------------
SessionStep ==
    \E s \in Sessions : Heartbeat(s) \/ SweepLease(s) \/ EndSession(s)

AssignmentStep ==
    \E k \in Keys :
        \/ \E request \in Requests :
              \/ create_operator_assignment(k, request)
              \/ \E s \in Sessions : create_work_assignment(s, k, request)
        \/ \E expected \in 1 .. MaxRevision :
              \/ cancel_operator_assignment(k, expected)
              \/ \E s \in Sessions :
                    \/ accept_work_assignment(s, k, expected)
                    \/ cancel_work_assignment(s, k, expected)
                    \/ retry_work_assignment(s, k, expected)
                    \/ \E g \in Generations, outcome \in Outcomes, evidence \in Evidence :
                          settle_work_assignment(s, k, g, outcome, evidence, expected)

ReconcileStep ==
    \/ \E k \in Keys : ReconcileReadRow(k)
    \/ ReconcileReadAttempts
    \/ ReconcileReadSource
    \/ ReconcileSettle

Next == Tick \/ SessionStep \/ AssignmentStep \/ ReconcileStep

Spec == Init /\ [][Next]_vars

-----------------------------------------------------------------------------
(* Properties.                                                             *)

\* Every row has its columns' types and meets the table's CHECK constraints:
\* an existing assignment has a revision of at least 1, and an attempt has
\* settled_at exactly when its status is conclusive.
TypeOK ==
    /\ now \in 0 .. MaxTime
    /\ sessions \in [Sessions -> SessionRow]
    /\ row \in [Keys -> Row]
    /\ attempts \in [Keys -> [Generations -> Attempt]]
    /\ reconciler \in Reconciler
    /\ \A k \in Keys : IF row[k].status = "absent"
                       THEN row[k].revision = 0 /\ row[k].generation = 0
                       ELSE row[k].revision >= 1
    /\ \A k \in Keys, g \in Generations :
          attempts[k][g].settled <=> attempts[k][g].status \in CONCLUSIVE

\* At most one attempt of an assignment is unresolved, it is the newest one,
\* and it is unresolved exactly when the assignment is, in the same status:
\* the two tables never disagree, whatever accept, settle, cancel, retry and a
\* lock-free reconciliation do to them.
SingleLiveAttempt ==
    \A k \in Keys, g \in Generations :
        /\ g < row[k].generation => attempts[k][g].status \in CONCLUSIVE
        /\ g > row[k].generation => attempts[k][g] = NoAttempt
        /\ g = row[k].generation =>
             /\ attempts[k][g].source \in Sessions
             /\ IF row[k].status \in UNRESOLVED
                THEN attempts[k][g].status = row[k].status
                ELSE attempts[k][g].status \in CONCLUSIVE

\* A reconciliation whose revision still matches is about to settle the
\* attempt as it is: no interleaving lets its compare-and-set succeed on a row
\* or an attempt it has not read.
ReconcilerIsCurrent ==
    LET k == reconciler.key
        g == reconciler.generation
    IN  /\ reconciler.pc # "idle" =>
             /\ row[k].status # "absent"
             /\ reconciler.revision <= row[k].revision
             /\ reconciler.revision = row[k].revision => reconciler.status = row[k].status
        /\ reconciler.pc \in {"source", "settle"} =>
             /\ reconciler.status \in UNRESOLVED
             /\ reconciler.attempt.source \in Sessions
             /\ reconciler.revision = row[k].revision =>
                  /\ g = row[k].generation
                  /\ g \in Generations
                  /\ reconciler.attempt = attempts[k][g]

\* A cancellation request that wins against the report fences completion:
\* no attempt that was asked to cancel is ever recorded as completed, or as
\* accepted again.
CancelFencesCompletion ==
    \A k \in Keys, g \in Generations :
        attempts[k][g].cancel => attempts[k][g].status \notin {"accepted", "completed"}

\* The attempt table stays fenced: one live attempt that agrees with its row,
\* no compare-and-set of the lock-free reconciliation on anything it has not
\* read, and no completion of work that was told to stop, under every
\* interleaving of accept, settle, cancel, retry and reconcile.
AttemptsAreFenced == SingleLiveAttempt /\ ReconcilerIsCurrent /\ CancelFencesCompletion

\* What a reader is told agrees with what a source may do: an attempt whose
\* source is shown as available has a source require_live_session accepts,
\* and the other way round, up to the last instant of the lease.
ObservationMatchesAuthority ==
    \A s \in Sessions : SourceUnavailable(s, now) <=> ~Live(s)

\* The can_cancel permission shown to the operator is true exactly when a
\* cancellation at the shown revision would change the assignment.
PermissionMatchesCancel ==
    \A k \in Keys : CanCancel(k) <=> CancelEffective(k)

\* What a caller is shown is what the operations then do: the source's
\* availability and the can_cancel permission are each computed apart from the
\* guard they speak of, and never disagree with it.
ShownIsTrue == ObservationMatchesAuthority /\ PermissionMatchesCancel

\* The revision names the state: nothing about an assignment or its attempts
\* changes without the revision moving on by exactly one, so a caller that
\* names the stored revision has read the state it is changing.
RevisionStep ==
    \A k \in Keys :
        \/ row'[k] = row[k] /\ attempts'[k] = attempts[k]
        \/ row'[k].revision = row[k].revision + 1

\* A conclusive attempt is history: its outcome, its evidence and its source
\* never change again, even when a slow reconciliation finishes after a
\* report, a retry and a new acceptance.
FinalStep ==
    \A k \in Keys, g \in Generations :
        attempts[k][g].status \in CONCLUSIVE => attempts'[k][g] = attempts[k][g]

\* Revisions are a history: a revision is never reused for another state, and
\* what a past revision concluded is never written over (_cas and every write
\* of an attempt).
RevisionsAreHistory == [][RevisionStep /\ FinalStep]_vars

------------------------------------------------------------
(* What the repository says and the code does not do.                      *)

\* The module's own documentation: an uncertain attempt cannot be retried or
\* reconciled, it stays uncertain.  reconcile_assignment_attempts settles it.
UncertainStaysUnresolved ==
    [][\A k \in Keys, g \in Generations :
         attempts[k][g].status = "uncertain" => attempts'[k][g].status = "uncertain"]_vars

=============================================================================
