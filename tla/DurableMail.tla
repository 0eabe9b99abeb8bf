---------------------------- MODULE DurableMail ----------------------------
(***************************************************************************)
(* The inbox of one durable agent mailbox: control/durable_mail.py and the *)
(* attachment side of control/durable_mailbox.py.                          *)
(*                                                                         *)
(* Senders retry operations, incarnations of the recipient read, wait and  *)
(* take body-free nudges, and the attachment moves between incarnations.   *)
(* Delivery ids are positions of the inbox: SQLite lets one writer commit  *)
(* at a time.  A call that begins with a write is one step; the send of a  *)
(* human looks for the operation before its first write and inserts after. *)
(*                                                                         *)
(* A request is an operation key and a thread, which stands for everything *)
(* a replay is compared with.  Visibility of a message's Workspaces to the *)
(* reader, SMTP copies and authorization are left out.                     *)
(***************************************************************************)
EXTENDS Integers, Sequences, FiniteSets

CONSTANTS
    Incarnations, \* Sessions of the recipient, one after another
    Humans,      \* callers that send from an operator mailbox
    Requests,    \* records [op, thread]
    MaxAttempts, \* MAX_NOTIFICATION_ATTEMPTS
    MaxInbox,    \* bound: deliveries
    Nobody

ASSUME MailAssumption ==
    /\ Requests \subseteq [op : STRING, thread : STRING]
    /\ MaxAttempts \in Nat \ {0} /\ MaxInbox \in Nat
    /\ Nobody \notin Incarnations \cup Humans \cup Requests

VARIABLES
    inbox,   \* mail_deliveries by id: [op, thread, reader]
    slot,    \* the Session whose attachment has active_slot = 1
    reachable,    \* whether that Session can be reached
    cursor,  \* last_seen_delivery_id of each attachment, -1 before it exists
    mode,    \* notification_mode of the active attachment
    note,    \* mail_notification_attempts by delivery and attachment
    sending, \* what each human call is about to insert
    floor,   \* after_delivery_id the waiting client will pass next
    shown    \* deliveries the waiting client was given

mailVars == <<inbox, slot, reachable, cursor, mode, note, sending, floor, shown>>

Ids == 1 .. MaxInbox
Arrived == 1 .. Len(inbox)
Unread(d) == d \in Arrived /\ inbox[d].reader = Nobody
UnreadIds == {d \in Arrived : Unread(d)}
Holder(op) == {d \in Arrived : inbox[d].op = op}

\* An attempt; stale says that a claim is older than its lease.  How many tries a closed
\* attempt took is not kept.
Nudge ==
    [status : {"none", "queued", "claimed", "delivered", "failed"}, attempt : 0 .. MaxAttempts, stale : BOOLEAN]
NoAttempt == [status |-> "none", attempt |-> 0, stale |-> FALSE]
Queued == [status |-> "queued", attempt |-> 0, stale |-> FALSE]
Closed(outcome) == [status |-> outcome, attempt |-> 0, stale |-> FALSE]

\* _ensure_notification_in_transaction for the deliveries ds: the key of an attempt is
\* its delivery and attachment, so a closed attempt is never opened again.
WithQueued(n, ds, s) ==
    [d \in Ids |-> [o \in Incarnations |->
        IF d \in ds /\ o = s /\ n[d][o].status = "none" THEN Queued ELSE n[d][o]]]

\* _fail_attachment_notifications.
WithFailed(n, s, statuses) ==
    [d \in Ids |-> [o \in Incarnations |->
        IF o = s /\ n[d][o].status \in statuses THEN Closed("failed") ELSE n[d][o]]]

Notifies == slot # Nobody /\ mode = "notify"

-----------------------------------------------------------------------------
\* The unique operation_key.
New(r) == Holder(r.op) = {}

\* The inserting transaction of _send: the delivery and the attempt for the attachment
\* that is active now.
Insert(r) ==
    LET d == Len(inbox) + 1
    IN  /\ New(r) /\ d \in Ids
        /\ inbox' = Append(inbox, [op |-> r.op, thread |-> r.thread, reader |-> Nobody])
        /\ note' = IF Notifies THEN WithQueued(note, {d}, slot) ELSE note
        /\ UNCHANGED <<slot, reachable, cursor, mode, floor, shown>>

\* _send by an agent, whose proof starts the transaction.  A replay, or another message
\* under the same operation, changes nothing.
_send(r) == Insert(r) /\ UNCHANGED sending

\* _send by a human: the operation is not there when it is looked up ...
SendLookup(h, r) ==
    /\ sending[h] = Nobody /\ Holder(r.op) = {}
    /\ sending' = [sending EXCEPT ![h] = r]
    /\ UNCHANGED <<inbox, slot, reachable, cursor, mode, note, floor, shown>>

\* ... and is inserted later, unless the unique key sends the call back to the lookup.
SendInsert(h) ==
    /\ sending[h] # Nobody
    /\ sending' = [sending EXCEPT ![h] = Nobody]
    /\ \/ Insert(sending[h])
       \/ Holder(sending[h].op) # {} /\ UNCHANGED <<inbox, slot, reachable, cursor, mode, note, floor, shown>>

-----------------------------------------------------------------------------
\* require_current_agent_mailbox_in_transaction.
Current(s) == slot = s /\ reachable

\* _mark_deliveries_read: the first reader stays.
Marked(ds, who) ==
    [d \in Arrived |-> IF d \in ds /\ Unread(d) THEN [inbox[d] EXCEPT !.reader = who] ELSE inbox[d]]

\* _settle_read_notifications: queued attempts of every attachment.
SettledByRead(ds) ==
    [d \in Ids |-> [s \in Incarnations |->
        IF d \in ds /\ note[d][s].status = "queued" THEN Closed("failed") ELSE note[d][s]]]

Greatest(S) == CHOOSE n \in S : \A k \in S : k <= n

\* The lowest n members of ds, or all of them.
Lowest(ds, n) == {d \in ds : Cardinality({e \in ds : e < d}) < n}

\* Mistaken variants, named Bug..., stand before the definitions they replace in the
\* checks that a property can fail.
BugBatch(ds, n) == {d \in ds : Cardinality({e \in ds : e > d}) < n}

\* The scan of read_mailbox_inbox in ascending order up to its limit.
Batch(ds, n) == Lowest(ds, n)

Consume(ds, who) ==
    /\ inbox' = Marked(ds, who)
    /\ note' = SettledByRead(ds)
    /\ UNCHANGED <<slot, reachable, mode, sending, floor, shown>>

\* read_mailbox_inbox(mark_read) by the current incarnation.  Only a read that includes
\* read mail starts at the cursor.
read_mailbox_inbox(s, includeRead, limit) ==
    LET from == IF includeRead THEN {d \in Arrived : d > cursor[s]} ELSE UnreadIds
        ds == Batch(from, limit)
    IN  /\ Current(s)
        /\ Consume(ds, s)
        /\ cursor' = [cursor EXCEPT ![s] = Greatest(ds \cup {@})]

\* The same by a human with access, who has no attachment and no cursor.
BrowserRead(h, limit) ==
    /\ Consume(Batch(UnreadIds, limit), h)
    /\ UNCHANGED cursor

\* read_mailbox_thread(mark_read).
read_mailbox_thread(s, thread) ==
    LET ds == {d \in Arrived : inbox[d].thread = thread}
    IN  /\ Current(s) /\ ds # {}
        /\ Consume(ds, s)
        /\ cursor' = [cursor EXCEPT ![s] = Greatest(ds \cup {@})]

\* wait_mailbox, whose client continues from next_after_delivery_id.  Nothing is marked.
wait_mailbox(s, limit) ==
    LET ds == Batch({d \in UnreadIds : d > floor}, limit)
    IN  /\ Current(s) /\ ds # {}
        /\ floor' = Greatest(ds)
        /\ shown' = shown \cup ds
        /\ UNCHANGED <<inbox, slot, reachable, cursor, mode, note, sending>>

-----------------------------------------------------------------------------

\* take_mailbox_notification: unread mail gets its attempts, then a stale claim is taken
\* again, or given up, or a queued attempt is claimed.
Taken(n) ==
    CASE n.status = "queued" -> [status |-> "claimed", attempt |-> 1, stale |-> FALSE]
      [] n.status = "claimed" /\ n.attempt < MaxAttempts -> [n EXCEPT !.attempt = @ + 1, !.stale = FALSE]
      [] OTHER -> Closed("failed")

Takable(n) == n.status = "queued" \/ (n.status = "claimed" /\ n.stale)

take_mailbox_notification(s) ==
    LET n == WithQueued(note, UnreadIds, s)
        ds == {d \in Arrived : Takable(n[d][s])}
    IN  /\ Current(s) /\ Notifies
        /\ \/ \E d \in ds : note' = [n EXCEPT ![d][s] = Taken(@)]
           \/ ds = {} /\ note' = n
        /\ UNCHANGED <<inbox, slot, reachable, cursor, mode, sending, floor, shown>>

\* Only a claimed attempt is settled; a repeated report of the same outcome is answered.
Settles(n) == n.status = "claimed"

settle_mailbox_notification(s, d, outcome) ==
    /\ Current(s) /\ d \in Arrived /\ Settles(note[d][s])
    /\ note' = [note EXCEPT ![d][s] = Closed(outcome)]
    /\ UNCHANGED <<inbox, slot, reachable, cursor, mode, sending, floor, shown>>

\* NOTIFICATION_CLAIM_LEASE_SECONDS pass: the adapter that claimed it may be gone.
ClaimExpires(s, d) ==
    /\ note[d][s].status = "claimed" /\ ~note[d][s].stale
    /\ note' = [note EXCEPT ![d][s].stale = TRUE]
    /\ UNCHANGED <<inbox, slot, reachable, cursor, mode, sending, floor, shown>>

-----------------------------------------------------------------------------
\* _attach_current_session: a change of mode closes queued attempts, an unreachable
\* incarnation gives way (its attempts stay as they are), and a new attachment starts at
\* the furthest cursor.  Registration and resumption queue the unread mail, the
\* settlement of a rotated binding does not.
_attach_current_session(s, m, queues) ==
    LET changed == slot = s /\ mode # m
        closed == IF changed THEN WithFailed(note, s, {"queued"}) ELSE note
    IN  /\ slot \in {Nobody, s} \/ ~reachable
        /\ slot' = s /\ reachable' = TRUE /\ mode' = m
        /\ cursor' = [cursor EXCEPT ![s] = IF @ = -1 THEN Greatest({0} \cup {cursor[o] : o \in Incarnations}) ELSE @]
        /\ note' = IF queues /\ m = "notify" THEN WithQueued(closed, UnreadIds, s) ELSE closed
        /\ UNCHANGED <<inbox, sending, floor, shown>>

\* detach_session_mailbox_in_transaction, also with the end or dormancy of the Session.
detach_session_mailbox_in_transaction(s) ==
    /\ slot = s
    /\ slot' = Nobody /\ reachable' = FALSE /\ mode' = "pull"
    /\ note' = WithFailed(note, s, {"queued", "claimed"})
    /\ UNCHANGED <<inbox, cursor, sending, floor, shown>>

\* The lease of the attached Session runs out.
LeaseLapses ==
    /\ reachable /\ reachable' = FALSE
    /\ UNCHANGED <<inbox, slot, cursor, mode, note, sending, floor, shown>>

-----------------------------------------------------------------------------
Limits == {1, MaxInbox + 1}

MailInit ==
    /\ inbox = <<>> /\ slot = Nobody /\ reachable = FALSE
    /\ cursor = [s \in Incarnations |-> -1]
    /\ mode = "pull"
    /\ note = [d \in Ids |-> [s \in Incarnations |-> NoAttempt]]
    /\ sending = [h \in Humans |-> Nobody]
    /\ floor = 0 /\ shown = {}

MailNext ==
    \/ \E r \in Requests :
        \/ _send(r)
        \/ \E h \in Humans : SendLookup(h, r)
    \/ \E h \in Humans : SendInsert(h) \/ \E l \in Limits : BrowserRead(h, l)
    \/ \E s \in Incarnations :
        \/ \E l \in Limits, b \in BOOLEAN : read_mailbox_inbox(s, b, l)
        \/ \E t \in {r.thread : r \in Requests} : read_mailbox_thread(s, t)
        \/ \E l \in Limits : wait_mailbox(s, l)
        \/ take_mailbox_notification(s)
        \/ \E d \in Ids, o \in {"delivered", "failed"} : settle_mailbox_notification(s, d, o)
        \/ \E d \in Ids : ClaimExpires(s, d)
        \/ \E m \in {"pull", "notify"}, q \in BOOLEAN : _attach_current_session(s, m, q)
        \/ detach_session_mailbox_in_transaction(s)
    \/ LeaseLapses

-----------------------------------------------------------------------------
Reader == Incarnations \cup Humans \cup {Nobody}

MailTypeOK ==
    /\ inbox \in Seq([op : STRING, thread : STRING, reader : Reader]) /\ Len(inbox) <= MaxInbox
    /\ slot \in Incarnations \cup {Nobody} /\ reachable \in BOOLEAN
    /\ cursor \in [Incarnations -> -1 .. MaxInbox]
    /\ mode \in {"pull", "notify"}
    /\ note \in [Ids -> [Incarnations -> Nudge]]
    /\ sending \in [Humans -> Requests \cup {Nobody}]
    /\ floor \in 0 .. MaxInbox /\ shown \subseteq Ids

\* An operation is delivered at most once, whoever retries it, however the retries of an
\* agent and of a human call interleave.
AcceptedOnce == \A d, e \in Arrived : inbox[d].op = inbox[e].op => d = e

\* A client that follows next_after_delivery_id misses nothing: what lies at or below its
\* floor was given to it, or somebody had read it.
NothingBehindTheFloor == \A d \in 1 .. floor : d \in shown \/ ~Unread(d)

\* A queued nudge is about unread mail, for the attachments that lost their slot too:
\* a read by anyone closes the attempts of every incarnation.
QueuedIsUnread == \A d \in Ids, s \in Incarnations : note[d][s].status = "queued" => Unread(d)

\* Mail is accounted for: one delivery per operation however often it is retried, nothing
\* unread below the floor a client continues from, and no nudge about mail that was read.
MailIsAccounted == MailTypeOK /\ AcceptedOnce /\ NothingBehindTheFloor /\ QueuedIsUnread

\* Arrived mail is never lost or changed, and its first reader stays its reader.
FirstReadStands ==
    \A d \in Arrived : /\ d <= Len(inbox')
                       /\ inbox'[d].op = inbox[d].op /\ inbox'[d].thread = inbox[d].thread
                       /\ ~Unread(d) => inbox'[d].reader = inbox[d].reader

\* The outcome of a nudge is reported once: a late report or a reclaimed lease never
\* turns delivered into failed or the other way, nor opens the attempt again.
OutcomeStands ==
    \A d \in Ids, s \in Incarnations :
        note[d][s].status \in {"delivered", "failed"} => note'[d][s] = note[d][s]
=============================================================================
