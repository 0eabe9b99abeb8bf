----------------------------- MODULE Governance -----------------------------
(***************************************************************************)
(* Governed actions and the approvals they wait for: govern/__init__.py,   *)
(* control/decisions.py and the release step of exec/gate.py.              *)
(*                                                                         *)
(* A process reserves an action under an idempotency key, has it decided,  *)
(* runs the effect under a heartbeat and records the outcome.  Another     *)
(* process may retry the key, a sweep settles what went unheard of, people *)
(* resolve the asks.  Reserving a lapsed row, sweeping and resolving read  *)
(* first and write later, so each is two steps; the other calls are one    *)
(* transaction each, and only the heartbeat, the sweep and the takeover    *)
(* compare what they overwrite.                                            *)
(*                                                                         *)
(* Gates are PATH-shim processes: their key is their own and their effect  *)
(* replaces them.  A process whose audit append fails stops where it is,   *)
(* which is Crash.  Audit entries are Audit's subject.  The tier a row was *)
(* first requested in is only reported: every call goes by its own.        *)
(***************************************************************************)
EXTENDS Integers, FiniteSets

CONSTANTS
    Procs,      \* processes that call run_governed
    Gates,      \* PATH-shim processes
    Keys,       \* idempotency keys given by callers
    People,     \* who resolves asks
    Nobody,     \* not a process
    Lease,      \* ticks of silence after which an attempt is abandoned
    Ttl,        \* ticks an approval can be spent
    MaxCode,    \* bound: asks filed
    MaxAttempt  \* bound: attempts of a key

ASSUME ConstantsAssumption ==
    /\ Lease \in Nat \ {0, 1} /\ Ttl \in 1 .. Lease
    /\ MaxCode \in Nat /\ MaxAttempt \in Nat \ {0}
    /\ Procs \cap Gates = {} /\ Keys \cap Gates = {}
    /\ Nobody \notin Procs \cup Gates

VARIABLES
    row,      \* governed_actions, by key
    ask,      \* approval_requests, by code
    proc,     \* each calling process
    reading,  \* the open ask each person has before them, 0 for none
    sweep,    \* the row the sweep has read
    effects,  \* history: who ran the effect of a key, as which tier and on which ask
    overrun   \* history: processes that wrote on an action they no longer owned

vars == <<row, ask, proc, reading, sweep, effects, overrun>>

All == Procs \cup Gates
Actions == Keys \cup Gates
Codes == 1 .. MaxCode
Tiers == {"local", "outward", "unsupported"}
INFLIGHT == {"requested", "pending", "authorized", "executing"}
TERMINAL_STATUSES == {"succeeded", "failed", "released", "denied", "expired"}
KeysOf(p) == IF p \in Gates THEN {p} ELSE Keys

Row == [status: INFLIGHT \cup TERMINAL_STATUSES, attempt: 1 .. MaxAttempt,
        code: 0 .. MaxCode, window: 0 .. MaxCode, silence: 0 .. Lease,
        untouched: BOOLEAN]
NoRow == [status |-> "absent"]
Ask == [status: {"open", "resolved", "refused", "consumed"}, approves: BOOLEAN, age: 0 .. Ttl + 1,
        filer: All, granted: BOOLEAN]
NoAsk == [status |-> "absent"]
Points == {"lapsed", "reserved", "waiting", "approved", "allowed", "marked", "effect",
           "ended", "released"}
Proc == [at: Points, key: Actions, tier: Tiers, seen: INFLIGHT, attempt: 1 .. MaxAttempt,
         code: 0 .. MaxCode, ok: BOOLEAN, beater: {"off", "on", "late"}]
Idle == [at |-> "idle"]
Gone == [at |-> "gone"]
NoSweep == [key |-> Nobody]

Exists(k) == row[k].status # "absent"
Terminal(k) == row[k].status \in TERMINAL_STATUSES
Filed == {c \in Codes : ask[c].status # "absent"}

\* The process still has the attempt it reserved.
Owns(p) == /\ row[proc[p].key].attempt = proc[p].attempt
           /\ ~Terminal(proc[p].key)

-----------------------------------------------------------------------------
\* _lease_expired: nothing was heard of the row for a lease.  silence counts from what
\* _liveness_anchor takes: the start of the attempt, or the last heartbeat when executing.
Lapsed(k) == row[k].status \in INFLIGHT /\ row[k].silence >= Lease

Move(p, to) == proc' = [proc EXCEPT ![p] = [@ EXCEPT !.at = to]]
Stop(p) == proc' = [proc EXCEPT ![p] = Gone]
Noted(p) == overrun' = IF Owns(p) THEN overrun ELSE overrun \cup {p}

Requested(attempt) ==
    [status |-> "requested", attempt |-> attempt, code |-> 0, window |-> 0, silence |-> 0,
     untouched |-> FALSE]

Began(p, k, tier, at, seen, attempt) ==
    proc' = [proc EXCEPT ![p] = [at |-> at, key |-> k, tier |-> tier, seen |-> seen,
                                 attempt |-> attempt, code |-> 0, ok |-> FALSE, beater |-> "off"]]

\* reserve: a new key is recorded, a settled one replayed, one in flight refused.  A retry
\* is of the tier its caller gives it, whatever the key was first requested as.
reserve(p, k, tier) ==
    /\ proc[p].at = "idle" /\ k \in KeysOf(p)
    /\ \/ /\ ~Exists(k)
          /\ row' = [row EXCEPT ![k] = Requested(1)]
          /\ Began(p, k, tier, "reserved", "requested", 1)
       \/ /\ Exists(k)
          /\ \/ Lapsed(k) /\ Began(p, k, tier, "lapsed", row[k].status, row[k].attempt)
             \/ ~Lapsed(k) /\ Stop(p)
          /\ UNCHANGED row
    /\ UNCHANGED <<ask, reading, sweep, effects, overrun>>

\* _resume_or_refuse: the abandoned attempt is claimed if it is still the one read; what
\* never reached its effect starts a new attempt, what was executing is failed and refused.
_resume_or_refuse(p) ==
    LET k == proc[p].key
        same == row[k].status = proc[p].seen /\ row[k].attempt = proc[p].attempt
    IN  /\ proc[p].at = "lapsed"
        /\ \/ /\ same /\ proc[p].seen = "executing"
              /\ row' = [row EXCEPT ![k].status = "failed"]
              /\ Stop(p)
           \/ /\ same /\ proc[p].seen # "executing" /\ row[k].attempt < MaxAttempt
              /\ row' = [row EXCEPT ![k] = Requested(@.attempt + 1)]
              /\ Began(p, k, proc[p].tier, "reserved", "requested", row[k].attempt + 1)
           \/ /\ ~same
              /\ Stop(p)
              /\ UNCHANGED row
        /\ UNCHANGED <<ask, reading, sweep, effects, overrun>>

-----------------------------------------------------------------------------
\* _settle: one decision, written whatever the row has become.
_settle(p, status, code) ==
    /\ row' = [row EXCEPT ![proc[p].key] =
                  [row[proc[p].key] EXCEPT !.status = status, !.code = IF code = 0 THEN @ ELSE code]]
    /\ Noted(p)

\* authorize, no ask needed: an unsupported shape is denied, a local action allowed.
AuthorizeDirectly(p) ==
    /\ proc[p].at = "reserved"
    /\ \/ proc[p].tier = "unsupported" /\ _settle(p, "denied", 0) /\ Stop(p)
       \/ proc[p].tier = "local" /\ _settle(p, "authorized", 0) /\ Move(p, "allowed")
    /\ UNCHANGED <<ask, reading, sweep, effects>>

\* authorize, outward without a Workspace to file the ask in.
AuthorizeUnattributed(p) ==
    /\ proc[p].at = "reserved" /\ proc[p].tier = "outward"
    /\ _settle(p, "denied", 0) /\ Stop(p)
    /\ UNCHANGED <<ask, reading, sweep, effects>>

\* _file_approval: the ask and the pending row in one transaction; without wait the call
\* ends here and nobody is left to spend the ask.
_file_approval(p, wait) ==
    LET c == Cardinality(Filed) + 1
    IN  /\ proc[p].at = "reserved" /\ proc[p].tier = "outward" /\ c <= MaxCode
        /\ ask' = [ask EXCEPT ![c] = [status |-> "open", approves |-> FALSE, age |-> 0,
                                      filer |-> p, granted |-> FALSE]]
        /\ row' = [row EXCEPT ![proc[p].key].status = "pending", ![proc[p].key].window = c]
        /\ IF wait THEN proc' = [proc EXCEPT ![p].at = "waiting", ![p].code = c] ELSE Stop(p)
        /\ Noted(p)
        /\ UNCHANGED <<reading, sweep, effects>>

\* The poll loop: resolved, and the answer is not deny, reject or no.
Approves(c) == ask[c].status \in {"resolved", "consumed"} /\ ask[c].approves

\* authorize: the poll finds the ask answered.
PollAnswered(p) ==
    LET c == proc[p].code
    IN  /\ proc[p].at = "waiting" /\ ask[c].status # "open"
        /\ \/ Approves(c) /\ Move(p, "approved") /\ UNCHANGED <<row, overrun>>
           \/ ~Approves(c) /\ _settle(p, "denied", c) /\ Stop(p)
        /\ UNCHANGED <<ask, reading, sweep, effects>>

\* authorize: the wait ends without an answer; a caller's own timeout may be any.
PollTimesOut(p) ==
    /\ proc[p].at = "waiting"
    /\ _settle(p, "expired", proc[p].code) /\ Stop(p)
    /\ UNCHANGED <<ask, reading, sweep, effects>>

\* consume_approval: spent if unexpired and still resolved, else the action is refused.
consume_approval(p) ==
    LET c == proc[p].code
        expired == ask[c].age > Ttl
    IN  /\ proc[p].at = "approved"
        /\ \/ /\ ~expired /\ ask[c].status = "resolved"
              /\ ask' = [ask EXCEPT ![c].status = "consumed"]
              /\ _settle(p, "authorized", c) /\ Move(p, "allowed")
           \/ /\ expired \/ ask[c].status # "resolved"
              /\ _settle(p, IF expired THEN "expired" ELSE "denied", 0) /\ Stop(p)
              /\ UNCHANGED ask
        /\ UNCHANGED <<reading, sweep, effects>>

\* resolve_decision reads the ask as open, and writes its answer later, unconditionally.
ReadAsk(h, c) ==
    /\ reading[h] = 0 /\ ask[c].status = "open"
    /\ reading' = [reading EXCEPT ![h] = c]
    /\ UNCHANGED <<row, ask, proc, sweep, effects, overrun>>

resolve_decision(h, status, approves) ==
    LET c == reading[h]
    IN  /\ c # 0
        /\ approves => status = "resolved"
        /\ ask' = [ask EXCEPT ![c] = [ask[c] EXCEPT !.status = status, !.approves = approves,
                                                    !.granted = @ \/ approves]]
        /\ reading' = [reading EXCEPT ![h] = 0]
        /\ UNCHANGED <<row, proc, sweep, effects, overrun>>

-----------------------------------------------------------------------------

\* mark_executing: written whatever the row has become; its attempt is what the lease renews.
mark_executing(p) ==
    LET k == proc[p].key
    IN  /\ proc[p].at = "allowed"
        /\ row' = [row EXCEPT ![k] = [@ EXCEPT !.status = "executing", !.silence = 0]]
        /\ proc' = [proc EXCEPT ![p].at = "marked", ![p].attempt = row[k].attempt,
                                ![p].beater = IF p \in Gates THEN "off" ELSE "on"]
        /\ Noted(p)
        /\ UNCHANGED <<ask, reading, sweep, effects>>

Performs(p) == effects' = [effects EXCEPT ![proc[p].key] = @ \cup {<<p, proc[p].tier, proc[p].code>>}]

\* run_governed: the effect starts, and ends well or not.
EffectStarts(p) ==
    /\ p \in Procs /\ proc[p].at = "marked"
    /\ Performs(p) /\ Move(p, "effect")
    /\ UNCHANGED <<row, ask, reading, sweep, overrun>>

EffectEnds(p, ok) ==
    /\ proc[p].at = "effect"
    /\ proc' = [proc EXCEPT ![p].at = "ended", ![p].ok = ok, ![p].beater = "off"]
    /\ UNCHANGED <<row, ask, reading, sweep, effects, overrun>>

Beats(p) == row[proc[p].key].status = "executing" /\ row[proc[p].key].attempt = proc[p].attempt

\* heartbeat, from ExecutionLease: renews the attempt it was taken out on, or gives up.
heartbeat(p) ==
    /\ proc[p].beater # "off"
    /\ \/ Beats(p) /\ row' = [row EXCEPT ![proc[p].key].silence = 0] /\ UNCHANGED proc
       \/ ~Beats(p) /\ proc' = [proc EXCEPT ![p].beater = "off"] /\ UNCHANGED row
    /\ UNCHANGED <<ask, reading, sweep, effects, overrun>>

\* The beater misses its interval: the machine slept, or the store could not be written.
BeaterStalls(p) ==
    /\ proc[p].beater = "on"
    /\ proc' = [proc EXCEPT ![p].beater = "late"]
    /\ UNCHANGED <<row, ask, reading, sweep, effects, overrun>>

\* complete: the outcome, written whatever the row has become.
complete(p) ==
    /\ proc[p].at = "ended"
    /\ _settle(p, IF proc[p].ok THEN "succeeded" ELSE "failed", 0)
    /\ Stop(p)
    /\ UNCHANGED <<ask, reading, sweep, effects>>

\* release_for_handoff, then execv replaces the process or fails and is recorded as failed.
release_for_handoff(p) ==
    /\ p \in Gates /\ proc[p].at = "marked"
    /\ _settle(p, "released", 0) /\ Move(p, "released")
    /\ UNCHANGED <<ask, reading, sweep, effects>>

Execv(p) ==
    /\ proc[p].at = "released"
    /\ \/ Performs(p) /\ UNCHANGED row
       \/ row' = [row EXCEPT ![proc[p].key].status = "failed"] /\ UNCHANGED effects
    /\ Stop(p)
    /\ UNCHANGED <<ask, reading, sweep, overrun>>

-----------------------------------------------------------------------------
\* expire_stale_pending: a pending row past its window expires, any row past its lease fails.
WindowClosed(k) == /\ row[k].status = "pending" /\ row[k].window # 0
                   /\ ask[row[k].window].age > Ttl

\* Mistaken variants, named Bug..., stand before the definitions they replace in the
\* checks that a property can fail.
BugSweepReads(k) ==
    /\ sweep = NoSweep /\ row[k].status \in {"requested", "pending", "authorized"}
    /\ Lapsed(k) \/ WindowClosed(k)
    /\ sweep' = [key |-> k, status |-> row[k].status, attempt |-> row[k].attempt,
                 to |-> IF WindowClosed(k) THEN "expired" ELSE "failed"]
    /\ UNCHANGED <<row, ask, proc, reading, effects, overrun>>

SweepReads(k) ==
    /\ sweep = NoSweep /\ Exists(k)
    /\ Lapsed(k) \/ WindowClosed(k)
    /\ sweep' = [key |-> k, status |-> row[k].status, attempt |-> row[k].attempt,
                 to |-> IF WindowClosed(k) THEN "expired" ELSE "failed"]
    /\ UNCHANGED <<row, ask, proc, reading, effects, overrun>>

BugSameAsRead == TRUE
SameAsRead == row[sweep.key].status = sweep.status /\ row[sweep.key].attempt = sweep.attempt

BugExpire ==
    /\ sweep # NoSweep
    /\ row' = IF SameAsRead
              THEN [row EXCEPT ![sweep.key] = [@ EXCEPT !.status = sweep.to, !.untouched = TRUE]]
              ELSE row
    /\ sweep' = NoSweep
    /\ UNCHANGED <<ask, proc, reading, effects, overrun>>

\* The settlement, conditional on the status and attempt that were read.
expire_stale_pending ==
    /\ sweep # NoSweep
    /\ row' = IF SameAsRead
              THEN [row EXCEPT ![sweep.key] = [@ EXCEPT !.status = sweep.to,
                                                        !.untouched = sweep.status # "executing"]]
              ELSE row
    /\ sweep' = NoSweep
    /\ UNCHANGED <<ask, proc, reading, effects, overrun>>

\* A tick of the clock.  A beater that is on time renews at least twice per lease.
Older(k) == IF row[k].status \in INFLIGHT /\ row[k].silence < Lease
            THEN [row[k] EXCEPT !.silence = @ + 1] ELSE row[k]

Tick ==
    /\ \A p \in All : proc[p].at \in Points /\ proc[p].beater = "on" /\ Beats(p)
                         => row[proc[p].key].silence + 1 < Lease
    /\ row' = [k \in Actions |-> Older(k)]
    /\ ask' = [c \in Codes |-> IF ask[c].status \in {"open", "resolved", "refused"} /\ ask[c].age <= Ttl
                               THEN [ask[c] EXCEPT !.age = @ + 1] ELSE ask[c]]
    /\ UNCHANGED <<proc, reading, sweep, effects, overrun>>

\* A process dies, or stops on an error it could not record.
Crash(p) ==
    /\ proc[p].at \in Points
    /\ Stop(p)
    /\ UNCHANGED <<row, ask, reading, sweep, effects, overrun>>

-----------------------------------------------------------------------------
Init ==
    /\ row = [k \in Actions |-> NoRow]
    /\ ask = [c \in Codes |-> NoAsk]
    /\ proc = [p \in All |-> Idle]
    /\ reading = [h \in People |-> 0]
    /\ sweep = NoSweep
    /\ effects = [k \in Actions |-> {}]
    /\ overrun = {}

Call(p) ==
    \/ \E k \in Actions, tier \in Tiers : reserve(p, k, tier)
    \/ _resume_or_refuse(p)
    \/ AuthorizeDirectly(p) \/ AuthorizeUnattributed(p)
    \/ \E wait \in BOOLEAN : _file_approval(p, wait)
    \/ PollAnswered(p) \/ PollTimesOut(p) \/ consume_approval(p)
    \/ mark_executing(p)
    \/ EffectStarts(p)
    \/ \E ok \in BOOLEAN : EffectEnds(p, ok)
    \/ complete(p)
    \/ release_for_handoff(p) \/ Execv(p)

Beating(p) == proc[p].at \in Points /\ (heartbeat(p) \/ BeaterStalls(p))

Answer(h) ==
    \/ \E c \in Codes : ReadAsk(h, c)
    \/ \E status \in {"resolved", "refused"}, approves \in BOOLEAN : resolve_decision(h, status, approves)

Sweep == (\E k \in Actions : SweepReads(k)) \/ expire_stale_pending

Next ==
    \/ \E p \in All : Call(p) \/ Beating(p) \/ Crash(p)
    \/ \E h \in People : Answer(h)
    \/ Sweep
    \/ Tick

Spec == Init /\ [][Next]_vars

\* The maintenance tick of the MCP server sweeps, and time passes.
FairSpec == Spec /\ WF_vars(Sweep) /\ WF_vars(Tick) 

-----------------------------------------------------------------------------
\* Rows, asks and processes keep their types; only a row in flight is taken over or swept.
TypeOK ==
    /\ row \in [Actions -> Row \cup {NoRow}]
    /\ ask \in [Codes -> Ask \cup {NoAsk}]
    /\ proc \in [All -> Proc \cup {Idle, Gone}]
    /\ reading \in [People -> 0 .. MaxCode]
    /\ sweep \in {NoSweep} \cup [key: Actions, status: INFLIGHT, attempt: 1 .. MaxAttempt,
                                 to: {"failed", "expired"}]
    /\ effects \in [Actions -> SUBSET (All \X Tiers \X (0 .. MaxCode))]
    /\ overrun \subseteq All

\* Guarantee 2 of govern: an effect its caller classified as outward was approved by a
\* person, on an ask that process filed itself, whatever was retried, swept or answered
\* twice meanwhile.
EffectIsApproved ==
    \A k \in Actions : \A e \in effects[k] :
        e[2] # "local" => /\ e[2] = "outward" /\ e[3] \in Filed
                          /\ ask[e[3]].granted /\ ask[e[3]].filer = e[1]

\* Guarantee 4 of govern: a retried key does not repeat its effect.  It holds as long as
\* no process goes on writing after another took its attempt over or settled it.
EffectOnce == \A k \in Actions : Cardinality(effects[k]) <= 1
OneEffectUnlessOverrun == overrun = {} => EffectOnce

\* Guarantee 5 of govern, the record says what happened: a row denied, expired or abandoned
\* before any effect had none, and one succeeded had one; again short of an overrun.
RecordIsTrue ==
    overrun = {} => \A k \in Actions :
        /\ row[k].status \in {"denied", "expired"} => effects[k] = {}
        /\ row[k].status = "failed" /\ row[k].untouched => effects[k] = {}
        /\ row[k].status = "succeeded" => effects[k] # {}

\* What govern promises of every effect, whatever was retried, swept, stalled or answered
\* twice: it was approved, it ran once, and its row tells the truth about it.
EffectsAreSound == TypeOK /\ EffectIsApproved /\ OneEffectUnlessOverrun /\ RecordIsTrue

\* Guarantee 6 of govern: an execution whose beater keeps its interval is not settled by
\* the sweep or by a retry, however long it runs.
LiveIsNotAbandoned ==
    \A p \in Procs, k \in Keys :
        /\ proc[p].at \in {"marked", "effect"} /\ proc[p].key = k
        /\ proc[p].beater = "on" /\ Beats(p)
        => row'[k].status = "executing" \/ proc'[p] = Gone \/ overrun' # {}

\* TERMINAL_STATUSES: nothing leaves a settled status, but for a handoff that failed.
SettledStays ==
    \A k \in Actions : Terminal(k) /\ row'[k].status # row[k].status
        => (row[k].status = "released" /\ row'[k].status = "failed") \/ overrun' # {}

\* Nothing takes a row from the process that is executing it or reopens a settled one: not
\* the sweep's second statement, not a retry of the key, not a late answer.
RecordStands == [][LiveIsNotAbandoned /\ SettledStays]_vars

\* expire_stale_pending: no action stays in flight once nobody is left to finish it.
Orphan(k) == /\ Exists(k) /\ ~Terminal(k)
             /\ \A p \in All : proc[p].at \in Points => proc[p].key # k
OrphansAreSettled == \A k \in Actions : Orphan(k) ~> ~Orphan(k)

=============================================================================
