----------------------------- MODULE SmtpCopies -----------------------------
(***************************************************************************)
(* One-way SMTP copies of an operator mailbox: control/durable_smtp.py and *)
(* the enqueueing in control/durable_mail.py.  Core does not schedule the  *)
(* processor; it can be called, also twice at once.                        *)
(*                                                                         *)
(* Claim and policy change hold the lock of the mailbox and are one step   *)
(* each.  A batch reads the clock once: the lease of a copy it claims late *)
(* has lapsed when it is given.  The code entered is right or wrong; whose *)
(* address it is does not matter here.                                     *)
(***************************************************************************)
EXTENDS Integers, FiniteSets

CONSTANTS
    Copies,           \* outbox rows, numbered by id
    Workers,          \* calls of process_smtp_outbox
    NoWorker,
    MAX_ATTEMPTS,
    MaxDestinations   \* bound: destinations requested

ASSUME SmtpAssumption ==
    Copies \subseteq Nat /\ NoWorker \notin Workers /\ MAX_ATTEMPTS \in Nat \ {0} /\ MaxDestinations \in Nat

VARIABLES
    outbox,   \* mail_smtp_outbox
    policy,   \* operator_mailbox_settings: destination (0 for none), verified, mode
    courier,  \* where each call of the processor is
    accepted, \* how often the mail server accepted each copy
    asked,    \* destinations requested so far
    challenge \* the destination whose verification email is on its way, or 0

smtpVars == <<outbox, policy, courier, accepted, asked, challenge>>

NoCopy == [status |-> "none", attempt |-> 0, owner |-> NoWorker, lapsed |-> FALSE, dest |-> 0, mode |-> "none"]
Unset == [dest |-> 0, verified |-> FALSE, mode |-> "disabled"]
AtRest == [at |-> "idle", copy |-> 0, late |-> FALSE, outcome |-> "none"]

Sending == {o \in Copies : outbox[o].status = "sending"}
Waiting == {o \in Copies : outbox[o].status \in {"queued", "retry"}}
Claimed(w) == outbox[courier[w].copy].status = "sending" /\ outbox[courier[w].copy].owner = w

\* Every settlement clears the lease.
As(q, status) == [q EXCEPT !.status = status, !.owner = NoWorker, !.lapsed = FALSE]
_cancel_open_outbox(box) == [o \in Copies |-> IF o \in Waiting THEN As(box[o], "cancelled") ELSE box[o]]

-----------------------------------------------------------------------------
\* _ensure_smtp_outbox_in_transaction
Enqueue(o) ==
    /\ outbox[o].status = "none" /\ policy.verified /\ policy.mode # "disabled"
    /\ \A c \in Copies : c < o => outbox[c].status # "none"
    /\ outbox' = [outbox EXCEPT ![o] = [NoCopy EXCEPT !.status = "queued", !.dest = policy.dest, !.mode = policy.mode]]
    /\ UNCHANGED <<policy, courier, accepted, asked, challenge>>

\* request_smtp_destination_verification; its email may fail, and takes the destination back
\* unless another one was asked for.
request_smtp_destination_verification ==
    /\ Sending = {} /\ asked < MaxDestinations
    /\ asked' = asked + 1 /\ challenge' = asked'
    /\ policy' = [Unset EXCEPT !.dest = asked']
    /\ outbox' = _cancel_open_outbox(outbox)
    /\ UNCHANGED <<courier, accepted>>

ChallengeEnds(sent) ==
    /\ challenge # 0 /\ challenge' = 0
    /\ policy' = IF ~sent /\ policy.dest = challenge THEN Unset ELSE policy
    /\ UNCHANGED <<outbox, courier, accepted, asked>>

\* verify_smtp_destination.  A wrong code takes verification away, and at last the
\* destination; it asks nothing about copies that are being sent.
verify_smtp_destination ==
    /\ policy.dest # 0
    /\ \/ policy' = [policy EXCEPT !.verified = TRUE, !.mode = "notification"]
       \/ policy' = [policy EXCEPT !.verified = FALSE, !.mode = "disabled"]
       \/ policy' = Unset
    /\ UNCHANGED <<outbox, courier, accepted, asked, challenge>>

set_smtp_copy_mode(mode) ==
    /\ mode # policy.mode /\ Sending = {}
    /\ mode # "disabled" => policy.verified
    /\ policy' = [policy EXCEPT !.mode = mode]
    /\ outbox' = _cancel_open_outbox(outbox)
    /\ UNCHANGED <<courier, accepted, asked, challenge>>

clear_smtp_destination ==
    /\ Sending = {} /\ policy # Unset
    /\ policy' = Unset
    /\ outbox' = _cancel_open_outbox(outbox)
    /\ UNCHANGED <<courier, accepted, asked, challenge>>

-----------------------------------------------------------------------------
Recovered(q) == As(q, "uncertain")

\* _claim_outbox: lapsed leases first, by the clock of the batch, then the oldest open copy.
\* When a copy that waits for its next attempt is due is left open.
_claim_outbox(w) ==
    /\ courier[w].at = "idle"
    /\ \E R \in SUBSET {o \in Sending : outbox[o].lapsed} :
          /\ ~courier[w].late => R = {o \in Sending : outbox[o].lapsed}
          /\ LET box == [o \in Copies |-> IF o \in R THEN Recovered(outbox[o]) ELSE outbox[o]]
             IN  \/ /\ R # {} /\ outbox' = box /\ UNCHANGED courier
                 \/ \E o \in Waiting :
                       /\ \A c \in Waiting : outbox[c].status = "queued" => o <= c
                       /\ outbox' = [box EXCEPT ![o] = [box[o] EXCEPT !.status = "sending", !.attempt = @ + 1, !.owner = w,
                                                                      !.lapsed = courier[w].late]]
                       /\ courier' = [courier EXCEPT ![w] = [@ EXCEPT !.at = "claimed", !.copy = o]]
    /\ UNCHANGED <<policy, accepted, asked, challenge>>

\* _render_claimed: the claim and the consent it was queued under are current, or the copy
\* is cancelled (_cancel_claimed).
Current(q) == policy.dest = q.dest /\ policy.verified /\ policy.mode = q.mode
_render_claimed(w) ==
    LET o == courier[w].copy
    IN  /\ courier[w].at = "claimed"
        /\ IF Claimed(w) /\ Current(outbox[o])
           THEN courier' = [courier EXCEPT ![w].at = "rendered"] /\ UNCHANGED outbox
           ELSE /\ courier' = [courier EXCEPT ![w] = [AtRest EXCEPT !.late = courier[w].late]]
                /\ outbox' = IF Claimed(w) THEN [outbox EXCEPT ![o] = As(@, "cancelled")] ELSE outbox
        /\ UNCHANGED <<policy, accepted, asked, challenge>>

\* What process_smtp_outbox makes of the send and of the record of its outcome.
Judged(told, recorded) ==
    IF told = "accepted" THEN IF recorded THEN "sent" ELSE "uncertain"
    ELSE IF told = "unknown" THEN "uncertain" ELSE "failed"

\* How many copies leave: _smtp_send hands the message over once and lets a broken connection raise.
HandOver(told, arrived) == IF arrived THEN 1 ELSE 0

\* The attempt is recorded or the copy is not sent; the server accepts, refuses, or the
\* connection breaks while the message is handed over.
SendCopy(w) ==
    /\ courier[w].at = "rendered"
    /\ \E told \in {"accepted", "unknown", "refused"}, arrived, recorded \in BOOLEAN :
          /\ told = "accepted" => arrived
          /\ told = "refused" => ~arrived
          /\ accepted' = [accepted EXCEPT ![courier[w].copy] = @ + HandOver(told, arrived)]
          /\ courier' = [courier EXCEPT ![w] = [@ EXCEPT !.at = "settling", !.outcome = Judged(told, recorded)]]
    /\ UNCHANGED <<outbox, policy, asked, challenge>>

\* _settle_claim: a claim that is gone is lost.
_settle_claim(w) ==
    LET o == courier[w].copy
        result == IF courier[w].outcome # "failed" THEN courier[w].outcome
                  ELSE IF outbox[o].attempt >= MAX_ATTEMPTS THEN "failed" ELSE "retry"
    IN  /\ courier[w].at = "settling"
        /\ outbox' = IF Claimed(w) THEN [outbox EXCEPT ![o] = As(@, result)] ELSE outbox
        /\ courier' = [courier EXCEPT ![w] = [AtRest EXCEPT !.late = courier[w].late]]
        /\ UNCHANGED <<policy, accepted, asked, challenge>>

\* The process dies.  A later call has another worker id.
CourierDies(w) ==
    /\ courier[w].at \notin {"idle", "gone"}
    /\ courier' = [courier EXCEPT ![w] = [AtRest EXCEPT !.at = "gone"]]
    /\ UNCHANGED <<outbox, policy, accepted, asked, challenge>>

LeaseLapses(o) ==
    /\ o \in Sending /\ ~outbox[o].lapsed
    /\ outbox' = [outbox EXCEPT ![o].lapsed = TRUE]
    /\ UNCHANGED <<policy, courier, accepted, asked, challenge>>

\* The batch has been running for longer than a lease.
BatchAges(w) ==
    /\ courier[w].at = "settling" /\ ~courier[w].late
    /\ courier' = [courier EXCEPT ![w].late = TRUE]
    /\ UNCHANGED <<outbox, policy, accepted, asked, challenge>>

-----------------------------------------------------------------------------
SmtpInit ==
    /\ outbox = [o \in Copies |-> NoCopy]
    /\ policy = Unset
    /\ courier = [w \in Workers |-> AtRest]
    /\ accepted = [o \in Copies |-> 0]
    /\ asked = 0 /\ challenge = 0

SmtpNext ==
    \/ \E o \in Copies : Enqueue(o) \/ LeaseLapses(o)
    \/ request_smtp_destination_verification \/ (\E sent \in BOOLEAN : ChallengeEnds(sent)) \/ verify_smtp_destination \/ clear_smtp_destination
    \/ \E mode \in {"disabled", "notification", "full_body"} : set_smtp_copy_mode(mode)
    \/ \E w \in Workers : _claim_outbox(w) \/ _render_claimed(w) \/ SendCopy(w) \/ _settle_claim(w)
                          \/ CourierDies(w) \/ BatchAges(w)

-----------------------------------------------------------------------------
\* No copy leaves twice, whatever dies or lapses while it is being sent.
CopiedOnce == \A o \in Copies : accepted[o] <= 1

\* What the outbox says of a copy is true: a sent one was accepted, and one that was given up,
\* cancelled or will be tried again was not.  Doubt is called uncertain.
CopyHonest ==
    \A o \in Copies :
       /\ outbox[o].status = "sent" => accepted[o] = 1
       /\ outbox[o].status \in {"queued", "retry", "failed", "cancelled"} => accepted[o] = 0
=============================================================================
