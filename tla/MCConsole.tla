----------------------------- MODULE MCConsole -----------------------------
(* What an operator watches from the console: the tab's live events, and   *)
(* an Issue handed to a daemon.  They share no state, so one of them moves *)
(* at a time.                                                              *)
EXTENDS Realtime, SpawnQueue

ConsoleVars == <<realtimeVars, queueVars>>
ConsoleInit == RealtimeInit /\ QueueInit
ConsoleNext ==
    \/ QueueInit /\ RealtimeNext /\ UNCHANGED queueVars
    \/ RealtimeInit /\ QueueNext /\ UNCHANGED realtimeVars
\* At rest no fair step is enabled, so the fairness of one component says nothing of the other.
ConsoleSpec ==
    /\ ConsoleInit /\ [][ConsoleNext]_ConsoleVars
    /\ RealtimeFairness /\ QueueFairness

\* Bound: somebody listens before anything is published; another process publishes once, in
\* runs without pruning; the last event comes in runs of two moves and one topic.
RealtimeApart ==
    /\ Len(log) > 1 => client.acked # {} \/ moves > 1
    /\ elsewhere # {} => Cardinality(elsewhere) = 1 /\ floor = 0 /\ Len(log) < MaxEvents
    /\ Len(log) = MaxEvents => moves <= 2 /\ \A i \in 2 .. Len(log) : log[i] = log[2]

\* Bound: one request of the daemon is with the hub at a time, and nobody dispatches meanwhile
\* or while the daemon is down.
DispatchApart ==
    /\ Cardinality({r \in Requests : settling[r] # NoRequest}) <= 1
    /\ (\E r \in Requests : settling[r] # NoRequest) => \A c \in Dispatchers : caller[c] = NoCall
    /\ (\E c \in Dispatchers : caller[c] # NoCall) => \A d \in Daemons : daemon[d].at # "down"

ConsoleApart == RealtimeApart /\ DispatchApart
=============================================================================
