---------------------------- MODULE MCHeldSession ----------------------------
(* One machine's Sessions, and the commands of one of them, for TLC.  The  *)
(* two share no state here, so one of them moves at a time.                *)
EXTENDS Sessions, SessionCommands, FiniteSetsExt

\* The consumers are alike: which of them the agent is does not matter.
CommandStart == CommandInit /\ agent = CHOOSE c \in Consumers : TRUE

\* At rest neither time nor a consumer has anything to do, so the fairness of one says
\* nothing of the other.
HeldVars == <<vars, commandVars>>
HeldInit == Init /\ CommandStart
HeldSpec ==
    /\ HeldInit
    /\ [][\/ CommandStart /\ Next /\ UNCHANGED commandVars
          \/ Init /\ CommandNext /\ UNCHANGED vars]_HeldVars
    /\ WF_vars(Tick) /\ WF_vars(sweep_stale_session_leases) /\ CommandFairness

\* Whoever goes silent is made good by somebody else: a handle's claim and tasks by the
\* maintenance tick (sweep_stale_session_leases), a dead consumer's command by the
\* others' polls (expire_leases).
NothingIsHeldForEver == SilentHoldersAreReleased /\ CommandsSettle

Claims == MapThenSumSet(LAMBDA n : command[n].claims, Recorded)
Busy == {c \in Consumers : consumer[c] # Free}

\* Bound: two presses at once only before any claim, and none during an expiry, which concerns
\* no command that a press could add to; a Session ends once its agent is gone; no press, expiry
\* or cancellation behind an exit nobody noticed; with two commands, two claims among them, one
\* consumer at a time, and no cancellation or expiry behind a busy one.
CommandsApart ==
    /\ expiring # NoExpiry => \A o \in Operators : pressing[o] = NoPress
    /\ (\A o \in Operators : pressing[o] # NoPress) => Claims = 0 /\ Busy = {}
    /\ ended => agent = GONE
    /\ exited # NoConsumer =>
          /\ \A o \in Operators : pressing[o] = NoPress
          /\ expiring = NoExpiry /\ cleanup = NoCleanup /\ Cardinality(Busy) <= 1
    /\ Cardinality(Recorded) > 1 =>
          /\ Claims <= 2
          /\ Cardinality(Busy) <= 1
          /\ Busy = {} \/ (expiring = NoExpiry /\ cleanup = NoCleanup)
          /\ exited = NoConsumer
=============================================================================
