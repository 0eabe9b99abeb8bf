------------------------------ MODULE Realtime ------------------------------
(***************************************************************************)
(* Durable events on their way to one browser tab: the log and its replay  *)
(* (events/store.py), the bus of the gateway process (events/bus.py), one  *)
(* socket (api/ws.py) and the tab's client (frontend/src/realtime).        *)
(*                                                                         *)
(* Event i is the i-th row of the log.  A publisher of the gateway commits *)
(* and announces under one lock; a publisher of another process commits    *)
(* and announces to nobody here.  The socket writes catch-up batches and   *)
(* live frames; what is on the wire is lost with the connection.  The tab  *)
(* keeps one cursor for all its topics.                                    *)
(*                                                                         *)
(* Left out: credentials and scopes, notification-only frames, resync,     *)
(* which the client never sends, the SSE twin of the socket, and a store   *)
(* that is rebuilt under the cursor.                                       *)
(***************************************************************************)
EXTENDS Integers, Sequences, FiniteSets, FiniteSetsExt, SequencesExt

CONSTANTS
    Topics,
    Retention,     \* rows prune keeps
    ReplayLimit,   \* rows one replay may deliver
    MaxEvents,     \* bound: events of the log
    MaxMoves       \* bound: subscriptions, unsubscriptions and lost connections

ASSUME RealtimeAssumption ==
    /\ Topics # {} /\ Retention \in Nat \ {0} /\ ReplayLimit \in Nat \ {0}
    /\ MaxEvents \in Nat \ {0} /\ MaxMoves \in Nat

VARIABLES
    log,         \* the topic of each event ever committed
    floor,       \* the newest event prune has deleted
    announcing,  \* the event committed and not yet announced, 0 if none
    conn,        \* the server's end of the socket
    asks,        \* messages of the tab on their way to the server
    wire,        \* frames on their way to the tab
    client,      \* the tab
    moves,
    owed,        \* events of topics the tab had been acknowledged for, since its last reset
    elsewhere,   \* events published by another process
    raced        \* events pruned between the two reads of a replay

realtimeVars == <<log, floor, announcing, conn, asks, wire, client, moves, owed, elsewhere, raced>>

Ids == 1 .. MaxEvents
Committed == 1 .. Len(log)
NoConn == [held |-> {}, queue |-> << >>, delivered |-> [t \in Topics |-> {}], replaying |-> [at |-> "closed"]]
Live == [at |-> "live"]

-----------------------------------------------------------------------------
\* record_event: one row; publish_durable then announces it under the same lock.
Commit(t) ==
    /\ Len(log) < MaxEvents
    /\ log' = Append(log, t)
    /\ owed' = IF t \in client.acked THEN owed \cup {Len(log) + 1} ELSE owed
    /\ UNCHANGED <<floor, conn, asks, wire, client, moves, raced>>

record_event(t) == announcing = 0 /\ announcing' = Len(log) + 1 /\ Commit(t) /\ UNCHANGED elsewhere

\* deliver: the bus queues it for a socket that holds its topic.
deliver ==
    /\ announcing # 0
    /\ conn' = IF log[announcing] \in conn.held
               THEN [conn EXCEPT !.queue = Append(@, announcing)] ELSE conn
    /\ announcing' = 0
    /\ UNCHANGED <<log, floor, asks, wire, client, moves, owed, elsewhere, raced>>

\* publish_durable in another process: nobody here hears of it.
PublishElsewhere(t) == Commit(t) /\ elsewhere' = elsewhere \cup {Len(log) + 1} /\ UNCHANGED announcing

\* prune keeps the newest rows.
prune ==
    /\ Len(log) - Retention > floor
    /\ floor' = Len(log) - Retention
    /\ UNCHANGED <<log, announcing, conn, asks, wire, client, moves, owed, elsewhere, raced>>

-----------------------------------------------------------------------------
\* subscribe: the phase opens, the topics are registered on the bus, and only then is the
\* log read.  covers: the batch speaks for every topic of the connection.
HandleSubscribe ==
    LET ask == Head(asks)
        held == conn.held \cup ask.topics
    IN  /\ conn.replaying = Live /\ asks # << >> /\ ask.type = "subscribe"
        /\ conn' = [conn EXCEPT !.held = held,
                                !.replaying = [at |-> "asked", topics |-> ask.topics, cursor |-> ask.cursor,
                                               covers |-> ask.topics = held, ref |-> ask.ref]]
        /\ asks' = Tail(asks)
        /\ UNCHANGED <<log, floor, announcing, wire, client, moves, owed, elsewhere, raced>>

\* replay, its reads of the newest and the earliest row.  No cursor is sent as 0.
ReplayBounds ==
    LET r == conn.replaying
    IN  /\ r.at = "asked"
        /\ conn' = [conn EXCEPT !.replaying =
                      [at |-> "bounded", topics |-> r.topics, cursor |-> r.cursor, covers |-> r.covers,
                       ref |-> r.ref, newest |-> Len(log),
                       gap |-> r.cursor # 0 /\ floor < Len(log) /\ r.cursor < floor]]
        /\ UNCHANGED <<log, floor, announcing, asks, wire, client, moves, owed, elsewhere, raced>>

\* The rows after the cursor on the topics, and whether there were more than the limit.
Rows(r) == IF r.cursor = 0 THEN {}
           ELSE {i \in Committed : i > r.cursor /\ i > floor /\ log[i] \in r.topics}
Batch(r) == {i \in Rows(r) : Cardinality({j \in Rows(r) : j < i}) < ReplayLimit}
Gap(r) == r.gap \/ Rows(r) # Batch(r)

\* ReplayResult.cursor
ResumeFrom(r) ==
    IF r.cursor = 0 \/ (r.gap /\ Rows(r) = {}) THEN r.newest
    ELSE IF Rows(r) = {} THEN r.cursor ELSE Max(Batch(r))

\* _pre_replay_cursor: the acknowledgement hands over nothing the batch has yet to bring.
_pre_replay_cursor(r) == IF r.cursor = 0 \/ Gap(r) THEN ResumeFrom(r) ELSE r.cursor

\* _receipt_cursor: only a batch for the whole connection hands over a cursor.
Receipt(r) ==
    IF r.covers
    THEN IF ResumeFrom(r) > _pre_replay_cursor(r)
         THEN <<[type |-> "replay_complete", cursor |-> ResumeFrom(r), covers |-> TRUE]>> ELSE << >>
    ELSE IF \E i \in Batch(r) : i > _pre_replay_cursor(r)
         THEN <<[type |-> "replay_complete", cursor |-> 0, covers |-> FALSE]>> ELSE << >>

\* The rows are read in the order of their ids.
InOrder(S) == [k \in 1 .. Cardinality(S) |-> CHOOSE i \in S : Cardinality({j \in S : j < i}) = k - 1]

\* _send_replay: acknowledgement, reset if there is a gap, frames, receipt.
Frames(r) ==
    <<[type |-> "ack", cursor |-> _pre_replay_cursor(r), covers |-> r.covers, topics |-> r.topics, ref |-> r.ref]>>
    \o (IF Gap(r) THEN <<[type |-> "reset", cursor |-> ResumeFrom(r)]>> ELSE << >>)
    \o [k \in 1 .. Cardinality(Batch(r)) |->
          [type |-> "event", id |-> InOrder(Batch(r))[k], replayed |-> TRUE]]
    \o Receipt(r)

\* covered: what the batch carried, by topic; a gap starts the topics' records over.
covered(r) ==
    [t \in Topics |-> (IF Gap(r) /\ t \in r.topics THEN {} ELSE conn.delivered[t])
                      \cup {i \in Batch(r) : log[i] = t}]

\* replay, its read of the rows, and the batch.
ReplayRows ==
    LET r == conn.replaying
    IN  /\ r.at = "bounded"
        /\ wire' = wire \o Frames(r)
        /\ conn' = [conn EXCEPT !.delivered = covered(r), !.replaying = Live]
        /\ raced' = IF r.cursor = 0 \/ r.gap THEN raced
                    ELSE raced \cup {i \in Committed : r.cursor < i /\ i <= floor}
        /\ UNCHANGED <<log, floor, announcing, asks, client, moves, owed, elsewhere>>

\* unsubscribe: the topic's record is forgotten with it.
HandleUnsubscribe ==
    LET ask == Head(asks)
    IN  /\ conn.replaying = Live /\ asks # << >> /\ ask.type = "unsubscribe"
        /\ conn' = [conn EXCEPT !.held = @ \ ask.topics,
                                !.delivered = [t \in Topics |-> IF t \in ask.topics THEN {} ELSE @[t]]]
        /\ wire' = Append(wire, [type |-> "ack", cursor |-> 0, covers |-> FALSE, topics |-> {}, ref |-> 0])
        /\ asks' = Tail(asks)
        /\ UNCHANGED <<log, floor, announcing, client, moves, owed, elsewhere, raced>>

BugSuperseded(i) == log[i] \notin conn.held \/ (\E t \in Topics : \E j \in conn.delivered[t] : i <= j)

\* _superseded: a queued frame that is no longer wanted, or that a batch carried.
_superseded(i) == log[i] \notin conn.held \/ i \in conn.delivered[log[i]]

BugLiveOpen == conn.replaying.at # "closed"

\* The gate of live delivery: no batch is in flight.
LiveOpen == conn.replaying = Live

send_live ==
    LET i == Head(conn.queue)
    IN  /\ LiveOpen /\ conn.queue # << >>
        /\ wire' = IF _superseded(i) THEN wire
                   ELSE Append(wire, [type |-> "event", id |-> i, replayed |-> FALSE])
        /\ conn' = [conn EXCEPT !.queue = Tail(@)]
        /\ UNCHANGED <<log, floor, announcing, asks, client, moves, owed, elsewhere, raced>>

-----------------------------------------------------------------------------
\* accept: once per event; a frame of a partial batch is applied and does not move the cursor.
accept(c, f) ==
    IF f.id \in c.applied THEN c
    ELSE [c EXCEPT !.applied = @ \cup {f.id},
                   !.cursor = IF (c.retires \/ ~f.replayed) /\ f.id > @ THEN f.id ELSE @]

\* applyAck: a tab without a cursor takes the one of a full batch.
applyAck(c, f) ==
    [c EXCEPT !.retires = f.covers,
              !.cursor = IF f.covers /\ @ = 0 THEN f.cursor ELSE @,
              !.acked = @ \cup {t \in f.topics \cap c.topics : c.ref[t] = f.ref}]

applyReplayComplete(c, f) ==
    [c EXCEPT !.retires = TRUE, !.cursor = IF f.covers /\ f.cursor > @ THEN f.cursor ELSE @]

\* applyReset: the tab reads everything over REST and resumes from the server's cursor.
applyReset(c, f) == [c EXCEPT !.applied = {}, !.cursor = f.cursor]

receive ==
    LET f == Head(wire)
    IN  /\ wire # << >>
        /\ client' = CASE f.type = "ack" -> applyAck(client, f)
                       [] f.type = "replay_complete" -> applyReplayComplete(client, f)
                       [] f.type = "reset" -> applyReset(client, f)
                       [] f.type = "event" -> accept(client, f)
        /\ wire' = Tail(wire)
        /\ owed' = IF f.type = "reset" THEN {} ELSE owed
        /\ UNCHANGED <<log, floor, announcing, conn, asks, moves, elsewhere, raced>>

\* subscribe and unsubscribe by a screen of the tab.
subscribe(t) ==
    /\ moves < MaxMoves /\ t \notin client.topics
    /\ client' = [client EXCEPT !.topics = @ \cup {t}, !.ref[t] = moves + 1]
    /\ asks' = IF client.up
               THEN Append(asks, [type |-> "subscribe", topics |-> {t}, cursor |-> client.cursor, ref |-> moves + 1])
               ELSE asks
    /\ moves' = moves + 1
    /\ UNCHANGED <<log, floor, announcing, conn, wire, owed, elsewhere, raced>>

unsubscribe(t) ==
    /\ moves < MaxMoves /\ t \in client.topics
    /\ client' = [client EXCEPT !.topics = @ \ {t}, !.acked = @ \ {t}]
    /\ asks' = IF client.up THEN Append(asks, [type |-> "unsubscribe", topics |-> {t}]) ELSE asks
    /\ owed' = {i \in owed : log[i] # t}
    /\ moves' = moves + 1
    /\ UNCHANGED <<log, floor, announcing, conn, wire, elsewhere, raced>>

\* onopen: every topic is subscribed to again, from the cursor.
connect ==
    /\ ~client.up /\ client.topics # {}
    /\ conn' = [NoConn EXCEPT !.replaying = Live]
    /\ client' = [client EXCEPT !.up = TRUE, !.ref = [t \in Topics |-> moves]]
    /\ asks' = <<[type |-> "subscribe", topics |-> client.topics, cursor |-> client.cursor, ref |-> moves]>>
    /\ UNCHANGED <<log, floor, announcing, wire, moves, owed, elsewhere, raced>>

\* onclose: frames on the wire and messages on their way are gone.
Drop ==
    /\ client.up /\ moves < MaxMoves
    /\ client' = [client EXCEPT !.up = FALSE]
    /\ conn' = NoConn /\ asks' = << >> /\ wire' = << >>
    /\ moves' = moves + 1
    /\ UNCHANGED <<log, floor, announcing, owed, elsewhere, raced>>

-----------------------------------------------------------------------------
\* A log that has been written to, for a cursor of 0 means none; nobody waits for its event.
RealtimeInit ==
    /\ log = <<CHOOSE t \in Topics : TRUE>>
    /\ floor = 0 /\ announcing = 0 /\ moves = 0
    /\ conn = NoConn /\ asks = << >> /\ wire = << >>
    /\ client = [topics |-> {}, acked |-> {}, ref |-> [t \in Topics |-> 0], cursor |-> 0, applied |-> {},
                 retires |-> TRUE, up |-> FALSE]
    /\ owed = {} /\ elsewhere = {} /\ raced = {}

Serve == HandleSubscribe \/ ReplayBounds \/ ReplayRows \/ HandleUnsubscribe

RealtimeNext ==
    \/ \E t \in Topics : record_event(t) \/ PublishElsewhere(t) \/ subscribe(t) \/ unsubscribe(t)
    \/ deliver \/ prune
    \/ Serve \/ send_live
    \/ receive \/ connect \/ Drop

\* The tasks of the socket run, frames arrive, and the tab reconnects on a timer.
RealtimeFairness ==
    /\ WF_realtimeVars(deliver) /\ WF_realtimeVars(Serve) /\ WF_realtimeVars(send_live)
    /\ WF_realtimeVars(receive) /\ WF_realtimeVars(connect)

-----------------------------------------------------------------------------
\* The log, the socket, the wire and the tab keep their types.
RealtimeTypeOK ==
    /\ log \in Seq(Topics) /\ floor \in 0 .. MaxEvents /\ announcing \in 0 .. MaxEvents
    /\ conn.held \subseteq Topics /\ conn.queue \in Seq(Ids)
    /\ conn.delivered \in [Topics -> SUBSET Ids]
    /\ conn.replaying.at \in {"closed", "live", "asked", "bounded"}
    /\ \A k \in DOMAIN wire : wire[k].type \in {"ack", "reset", "event", "replay_complete"}
    /\ client \in [topics: SUBSET Topics, acked: SUBSET Topics, ref: [Topics -> 0 .. MaxMoves],
                   cursor: 0 .. MaxEvents, applied: SUBSET Ids, retires: BOOLEAN, up: BOOLEAN]
    /\ moves \in 0 .. MaxMoves /\ owed \subseteq Ids /\ elsewhere \subseteq Ids /\ raced \subseteq Ids

\* A tab that loses its connection now resumes before event i, or has applied it.
Kept(i) == i \in client.applied \/ i > client.cursor

\* The cursor follows delivery: at every moment, also halfway through a batch, a tab resumes
\* before every event it is owed and has not applied; the exceptions are an event of another
\* process, and one pruned between the two reads of a replay.
NothingIsSkipped == \A i \in owed : Kept(i) \/ i \in elsewhere \cup raced

\* The resumption point is safe in every state of log, socket, wire and tab.
CursorIsSafe == RealtimeTypeOK /\ NothingIsSkipped

\* Once the tab is left alone, every event it is owed is applied, or it was told to reset.
EventuallyApplied ==
    \A i \in Ids : i \in owed ~> (i \notin owed \/ i \in client.applied \/ i \in elsewhere \cup raced)

------------------------------------------------------------
(* What the repository says and the code does not do.                      *)

\* A publish of another process is durable and picked up by any client that reconnects: no
\* cursor has moved past it.
PickedUpLater == \A i \in owed : Kept(i) \/ i \in raced
=============================================================================
