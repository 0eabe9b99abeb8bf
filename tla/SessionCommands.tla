--------------------------- MODULE SessionCommands ---------------------------
(***************************************************************************)
(* The command queue of one Session: control/session_commands.py and how   *)
(* exec/session_dispatch.py and exec/session_channel.py consume it.        *)
(*                                                                         *)
(* Operators enqueue messages and stops; consumers claim a command under a *)
(* lease, act on the agent process they hold a handle of, and report what  *)
(* happened.  Every write is one conditional update; what is read before   *)
(* it (the Session's end, the highest sequence, the attempt count, the     *)
(* lapsed leases, the commands to cancel) may be old by then, so these     *)
(* calls are two steps.  A lease is named by the claim that took it out.   *)
(*                                                                         *)
(* All consumers belong to the Runtime that owns the Session; a consumer   *)
(* that restarts has lost its handle.  A stop that names an operation id   *)
(* of its own, events and announcements are left out.                      *)
(***************************************************************************)
EXTENDS Integers, FiniteSets

CONSTANTS
    Operators,    \* browsers and CLIs that enqueue
    Consumers,    \* processes that claim
    NoConsumer,       \* neither
    MessageIds,   \* operation ids of messages
    Interactive,  \* the agent's tool keeps an input channel open
    MaxAttempts,  \* claims after which an abandoned command fails
    MaxCommands,  \* bound: commands of the Session
    MaxClaims     \* bound: claims of a command that are not its last

ASSUME CommandAssumption ==
    /\ NoConsumer \notin Consumers \cup {"gone"} /\ "gone" \notin Consumers
    /\ Interactive \in BOOLEAN
    /\ MaxAttempts \in Nat \ {0} /\ MaxCommands \in Nat \ {0} /\ MaxClaims \in Nat

VARIABLES
    command,   \* session_commands, by sequence
    pressing,  \* each operator's enqueue between its reads and its insert
    consumer,  \* what each consumer is doing
    expiring,  \* the lapsed lease expire_leases has read
    ended,     \* the Session has ended
    agent,     \* who holds the handle of the live agent process
    exited,    \* who still has the exited agent registered
    cleanup    \* cancellation after the end: due, and the commands left to cancel

commandVars == <<command, pressing, consumer, expiring, ended, agent, exited, cleanup>>

Commands == 1 .. MaxCommands
OPEN_STATUSES == {"requested", "delivered"}
SETTLED == {"acknowledged", "failed", "cancelled"}
Results == {"none", "unsupported", "session_ended", "already_terminal", "abandoned", "stopped",
            "already_exited", "not_owned", "delivered", "session_dormant"}
PROVES_TERMINAL == {"stopped", "already_exited"}

\* operation_key: a message's operation id, or the epoch of a stop nobody named.
OperationKeys == ({"message"} \X MessageIds) \cup ({"stop"} \X Commands)
Command == [key: OperationKeys, status: OPEN_STATUSES \cup SETTLED, result: Results,
            by: Consumers \cup {NoConsumer}, lapsed: BOOLEAN, attempt: 0 .. MaxClaims + 1,
            claims: 0 .. MaxClaims + 1]
NoCommand == [status |-> "absent", key |-> <<"none", 0>>]
NoPress == [key |-> <<"none", 0>>]
Free == [at |-> "free"]
NoExpiry == [n |-> 0]
NoCleanup == [due |-> FALSE, left |-> {}]

Recorded == {n \in Commands : command[n].status # "absent"}
Open == {n \in Recorded : command[n].status \in OPEN_STATUSES}
Stops == {n \in Recorded : command[n].key[1] = "stop"}
Latest(ns) == CHOOSE n \in ns : \A m \in ns : m <= n
GONE == "gone"

-----------------------------------------------------------------------------
\* Mistaken variants, named Bug..., stand before the definitions they replace in the
\* checks that a property can fail.
BugSpent(n) == command[n].status = "failed" /\ ~ended

\* _stop_attempt_is_spent: the last stop stopped nothing and the Session goes on.
_stop_attempt_is_spent(n) ==
    /\ command[n].status \notin OPEN_STATUSES
    /\ ~ended
    /\ ~(command[n].status = "acknowledged" /\ command[n].result \in PROVES_TERMINAL)

\* _default_stop_slot: the epochs a press of stop may insert, none if it is the last stop.
_default_stop_slot == IF Stops # {} /\ ~_stop_attempt_is_spent(Latest(Stops))
                      THEN {} ELSE {Cardinality(Stops) + 1}

\* _initial_state: a command nobody could deliver is settled at once.
_initial_state(kind) ==
    CASE ended /\ kind = "stop" -> <<"acknowledged", "already_terminal">>
      [] ended /\ kind = "message" -> <<"failed", "session_ended">>
      [] ~ended /\ kind = "message" /\ ~Interactive -> <<"failed", "unsupported">>
      [] OTHER -> <<"requested", "none">>

NextSequence == Cardinality(Recorded) + 1

\* enqueue, its reads: an existing key is answered with its command, which changes nothing.
EnqueueReads(o, key) ==
    /\ pressing[o] = NoPress
    /\ \/ key[1] = "stop" /\ key[2] \in _default_stop_slot
       \/ key[1] = "message" /\ \A n \in Recorded : command[n].key # key
    /\ Cardinality(Recorded) < MaxCommands
    /\ pressing' = [pressing EXCEPT ![o] = [key |-> key, sequence |-> NextSequence,
                                            state |-> _initial_state(key[1])]]
    /\ UNCHANGED <<command, consumer, expiring, ended, agent, exited, cleanup>>

\* Its insert: a sequence or key taken meanwhile is looked at again.
enqueue(o) ==
    LET new == pressing[o]
    IN  /\ new # NoPress
        /\ command' = IF new.sequence \in Recorded \/ \E n \in Recorded : command[n].key = new.key
                      THEN command
                      ELSE [command EXCEPT ![new.sequence] =
                              [key |-> new.key, status |-> new.state[1], result |-> new.state[2],
                               by |-> NoConsumer, lapsed |-> FALSE, attempt |-> 0, claims |-> 0]]
        /\ pressing' = [pressing EXCEPT ![o] = NoPress]
        /\ UNCHANGED <<consumer, expiring, ended, agent, exited, cleanup>>

-----------------------------------------------------------------------------
BugClaimReads(c, n) ==
    /\ consumer[c] = Free /\ n \in Recorded /\ command[n].status = "requested" /\ ~ended
    /\ consumer' = [consumer EXCEPT ![c] = [at |-> "claiming", n |-> n,
                                            attempt |-> command[n].attempt + 1]]
    /\ UNCHANGED <<command, pressing, expiring, ended, agent, exited, cleanup>>

\* claim, its read of the attempt count, and its update off requested.
ClaimReads(c, n) ==
    /\ consumer[c] = Free /\ n \in Recorded /\ command[n].status = "requested"
    /\ consumer' = [consumer EXCEPT ![c] = [at |-> "claiming", n |-> n,
                                            attempt |-> command[n].attempt + 1]]
    /\ UNCHANGED <<command, pressing, expiring, ended, agent, exited, cleanup>>

claim_command(c) ==
    LET n == consumer[c].n
        won == command[n].status = "requested"
    IN  /\ consumer[c].at = "claiming"
        /\ command' = IF won
                      THEN [command EXCEPT ![n] =
                              [command[n] EXCEPT !.status = "delivered", !.by = c, !.lapsed = FALSE,
                                                 !.attempt = consumer[c].attempt, !.claims = @ + 1]]
                      ELSE command
        /\ consumer' = [consumer EXCEPT ![c] =
                           IF won THEN [at |-> "holding", n |-> n, claim |-> command[n].claims + 1]
                           ELSE Free]
        /\ UNCHANGED <<pressing, expiring, ended, agent, exited, cleanup>>

\* stop_session and deliver_message: only the process one holds a handle of is touched, and
\* only its holder can tell that it has exited.
Outcome(c, kind) ==
    CASE c \notin {agent, exited} -> "not_owned"
      [] kind = "message" /\ ~Interactive -> "unsupported"
      [] c = exited -> "already_exited"
      [] c = agent -> IF kind = "stop" THEN "stopped" ELSE "delivered"

execute(c) ==
    LET n == consumer[c].n
        what == Outcome(c, command[n].key[1])
    IN  /\ consumer[c].at = "holding"
        /\ consumer' = [consumer EXCEPT ![c] = [at |-> "executed", n |-> n, claim |-> consumer[c].claim,
                                                result |-> what]]
        /\ agent' = IF what = "stopped" THEN GONE ELSE agent
        /\ exited' = IF what = "already_exited" /\ command[n].key[1] = "stop" THEN NoConsumer ELSE exited
        /\ UNCHANGED <<command, pressing, expiring, ended, cleanup>>

Settled(n, status, result) ==
    [command EXCEPT ![n] = [@ EXCEPT !.status = status, !.result = result, !.lapsed = FALSE]]

\* settle by a consumer: its command is delivered and claimed by it.
Holds(c) == command[consumer[c].n].status = "delivered" /\ command[consumer[c].n].by = c

\* acknowledge: the outcome is recorded for the holder, and dropped for anyone else; a stop
\* that proves the process gone then ends the Session, which is a step of its own.
acknowledge(c) ==
    LET n == consumer[c].n
        what == consumer[c].result
        proven == what \in PROVES_TERMINAL /\ command[n].key[1] = "stop"
        ok == what = "delivered" \/ proven
    IN  /\ consumer[c].at = "executed"
        /\ command' = IF Holds(c) THEN Settled(n, IF ok THEN "acknowledged" ELSE "failed", what)
                      ELSE command
        /\ consumer' = [consumer EXCEPT ![c] = IF Holds(c) /\ proven THEN [at |-> "stopped", n |-> n]
                                               ELSE Free]
        /\ UNCHANGED <<pressing, expiring, ended, agent, exited, cleanup>>

\* _synchronize_terminal_state, finalize_session: the Session ends, and its queue is due.
_synchronize_terminal_state(c) ==
    /\ consumer[c].at = "stopped"
    /\ ended' = TRUE /\ cleanup' = [due |-> TRUE, left |-> cleanup.left]
    /\ consumer' = [consumer EXCEPT ![c] = Free]
    /\ UNCHANGED <<command, pressing, expiring, agent, exited>>

\* release: a holder that shuts down, or does not own the Session, hands the command back.
release(c) ==
    LET n == consumer[c].n
    IN  /\ consumer[c].at = "holding" /\ command[n].claims <= MaxClaims
        /\ command' = IF Holds(c) THEN [command EXCEPT ![n] = [@ EXCEPT !.status = "requested", !.by = NoConsumer,
                                                                        !.lapsed = FALSE]]
                      ELSE command
        /\ consumer' = [consumer EXCEPT ![c] = Free]
        /\ UNCHANGED <<pressing, expiring, ended, agent, exited, cleanup>>

-----------------------------------------------------------------------------
\* A lease runs out, whether its holder died or is slow.
LeaseLapses(n) ==
    /\ n \in Recorded /\ command[n].status = "delivered" /\ command[n].claims <= MaxClaims
    /\ ~command[n].lapsed
    /\ command' = [command EXCEPT ![n].lapsed = TRUE]
    /\ UNCHANGED <<pressing, consumer, expiring, ended, agent, exited, cleanup>>

\* expire_leases, which every consumer calls before it lists: the lapsed leases it reads.
ExpiryReads(n) ==
    /\ expiring = NoExpiry
    /\ n \in Recorded /\ command[n].status = "delivered" /\ command[n].lapsed
    /\ expiring' = [n |-> n, claim |-> command[n].claims, spent |-> command[n].attempt >= MaxAttempts]
    /\ UNCHANGED <<command, pressing, consumer, ended, agent, exited, cleanup>>

BugSameLease == TRUE
SameLease == /\ command[expiring.n].status = "delivered"
             /\ command[expiring.n].claims = expiring.claim

\* It requeues on the exact lease it read, or fails a command whose attempts are used up;
\* that settlement compares no lease.
expire_leases ==
    LET n == expiring.n
    IN  /\ expiring # NoExpiry
        /\ \/ /\ expiring.spent
              /\ command' = IF n \in Open THEN Settled(n, "failed", "abandoned") ELSE command
           \/ /\ ~expiring.spent
              /\ command' = IF SameLease
                            THEN [command EXCEPT ![n] = [@ EXCEPT !.status = "requested", !.by = NoConsumer,
                                                                  !.lapsed = FALSE, !.result = "none"]]
                            ELSE command
        /\ expiring' = NoExpiry
        /\ UNCHANGED <<pressing, consumer, ended, agent, exited, cleanup>>

\* The agent's process exits by itself: its launcher has it registered until it notices.
AgentExits ==
    /\ agent # GONE
    /\ agent' = GONE /\ exited' = agent
    /\ UNCHANGED <<command, pressing, consumer, expiring, ended, cleanup>>

unregister ==
    /\ exited # NoConsumer
    /\ exited' = NoConsumer
    /\ UNCHANGED <<command, pressing, consumer, expiring, ended, agent, cleanup>>

\* The Session ends by itself, mostly because its launcher noticed; the cancellation that
\* follows is best effort.
SessionEnds ==
    /\ ~ended
    /\ ended' = TRUE /\ cleanup' = [due |-> TRUE, left |-> cleanup.left]
    /\ UNCHANGED <<command, pressing, consumer, expiring, agent, exited>>

\* sweep_stale_session_leases: dormancy cancels the open commands in its own transaction.
SessionSleeps ==
    /\ ~ended /\ Open # {}
    /\ command' = [n \in Commands |-> IF n \in Open
                                      THEN Settled(n, "cancelled", "session_dormant")[n] ELSE command[n]]
    /\ UNCHANGED <<pressing, consumer, expiring, ended, agent, exited, cleanup>>

\* cancel_open_for_session: read the open commands, then settle each.
CancelReads ==
    /\ cleanup.due
    /\ cleanup' = [due |-> FALSE, left |-> cleanup.left \cup Open]
    /\ UNCHANGED <<command, pressing, consumer, expiring, ended, agent, exited>>

cancel_open_for_session(n) ==
    /\ n \in cleanup.left
    /\ command' = IF n \in Open THEN Settled(n, "cancelled", "session_ended") ELSE command
    /\ cleanup' = [cleanup EXCEPT !.left = @ \ {n}]
    /\ UNCHANGED <<pressing, consumer, expiring, ended, agent, exited>>

\* The process that ended the Session dies before it cancelled.
CleanupLost ==
    /\ cleanup # NoCleanup
    /\ cleanup' = NoCleanup
    /\ UNCHANGED <<command, pressing, consumer, expiring, ended, agent, exited>>

\* A consumer dies and is restarted; the agent it launched runs on, owned by nobody.  Only
\* restarts that lose something are steps: a handle, or a claim, which the bounds count.
Restart(c) ==
    /\ consumer[c].at \in {"free", "claiming"} => c \in {agent, exited}
    /\ consumer[c].at \in {"holding", "executed"} => command[consumer[c].n].claims <= MaxClaims
    /\ consumer' = [consumer EXCEPT ![c] = Free]
    /\ agent' = IF agent = c THEN NoConsumer ELSE agent
    /\ exited' = IF exited = c THEN NoConsumer ELSE exited
    /\ UNCHANGED <<command, pressing, expiring, ended, cleanup>>

-----------------------------------------------------------------------------
CommandInit ==
    /\ command = [n \in Commands |-> NoCommand]
    /\ pressing = [o \in Operators |-> NoPress]
    /\ consumer = [c \in Consumers |-> Free]
    /\ expiring = NoExpiry
    /\ ended = FALSE
    /\ agent \in Consumers /\ exited = NoConsumer
    /\ cleanup = NoCleanup

Consume(c) ==
    \/ \E n \in Commands : ClaimReads(c, n)
    \/ claim_command(c) \/ execute(c) \/ acknowledge(c) \/ _synchronize_terminal_state(c)

Expire == (\E n \in Commands : ExpiryReads(n)) \/ expire_leases

CommandNext ==
    \/ \E o \in Operators : enqueue(o) \/ \E key \in OperationKeys : EnqueueReads(o, key)
    \/ \E c \in Consumers : Consume(c) \/ release(c) \/ Restart(c)
    \/ \E n \in Commands : LeaseLapses(n) \/ cancel_open_for_session(n)
    \/ Expire
    \/ AgentExits \/ unregister \/ SessionEnds \/ SessionSleeps \/ CancelReads \/ CleanupLost

CommandSpec == CommandInit /\ [][CommandNext]_commandVars

\* Consumers poll in a loop, each poll expires leases first, and a lease does run out.
CommandFairness ==
    /\ \A c \in Consumers : WF_commandVars(Consume(c))
    /\ WF_commandVars(Expire)
    /\ WF_commandVars(\E n \in Commands : LeaseLapses(n))
    /\ \A o \in Operators : WF_commandVars(enqueue(o))

-----------------------------------------------------------------------------
\* A consumer has the live agent or the exited one registered, not both.
HandleOK == /\ agent \in Consumers \cup {NoConsumer, GONE} /\ exited \in Consumers \cup {NoConsumer}
            /\ exited # NoConsumer => agent = GONE

\* Commands, presses and claims keep their types; recorded sequences are dense and keys
\* unique, as the two unique indexes promise.
CommandTypeOK ==
    /\ command \in [Commands -> Command \cup {NoCommand}]
    /\ pressing \in [Operators -> {NoPress} \cup [key: OperationKeys, sequence: Commands,
                                                 state: (OPEN_STATUSES \cup SETTLED) \X Results]]
    /\ consumer \in [Consumers -> {Free} \cup [at: {"claiming"}, n: Commands, attempt: 1 .. MaxClaims + 1]
                                     \cup [at: {"holding"}, n: Commands, claim: 1 .. MaxClaims + 1]
                                     \cup [at: {"executed"}, n: Commands, claim: 1 .. MaxClaims + 1,
                                           result: Results]
                                     \cup [at: {"stopped"}, n: Commands]]
    /\ expiring \in {NoExpiry} \cup [n: Commands, claim: 1 .. MaxClaims + 1, spent: BOOLEAN]
    /\ ended \in BOOLEAN /\ HandleOK
    /\ cleanup \in [due: BOOLEAN, left: SUBSET Commands]
    /\ Recorded = 1 .. Cardinality(Recorded)
    /\ \A n, m \in Recorded : command[n].key = command[m].key => n = m

\* enqueue: however often and by however many operators stop is pressed, one stop is open,
\* so the agent is not signalled by two commands at once.
OneOpenStop == Cardinality(Stops \cap Open) <= 1

\* A stop that is answered for good (pressing again returns it) is one whose process is gone.
StopIsNotInert ==
    ~ended /\ Stops # {} /\ Latest(Stops) \notin Open /\ _default_stop_slot = {} => agent = GONE

\* However enqueue, claim, expiry and the Session's end interleave: rows keep their types
\* and unique indexes, one stop is open at a time, and no answered stop leaves the agent
\* running while pressing stop again does nothing.
CommandsAreSound == CommandTypeOK /\ OneOpenStop /\ StopIsNotInert

\* A settled command keeps its outcome, whichever of acknowledgement, expiry, abandonment,
\* cancellation and dormancy comes second.
OutcomesStand ==
    \A n \in Recorded : command[n].status \in SETTLED => command'[n] = command[n]

\* settle: an acknowledgement comes from the consumer whose claim is the current one, never
\* from a holder whose lease was given to another.
HolderReports ==
    \A n \in Recorded : command[n].status # "acknowledged" /\ command'[n].status = "acknowledged"
        => \E c \in Consumers : /\ consumer[c].at = "executed" /\ consumer[c].n = n
                                /\ consumer[c].claim = command[n].claims

\* A command is settled once and, when it is acknowledged, by its current holder: a late
\* report, an expiry or a cancellation never rewrites what was answered.
CommandsStand == [][OutcomesStand /\ HolderReports]_commandVars

\* Every command reaches an outcome: also one inserted after the Session ended and its queue
\* was cancelled, and one whose holders keep dying.
CommandsSettle == \A n \in Commands : n \in Open ~> n \notin Open

=============================================================================
