----------------------------- MODULE Deliveries -----------------------------
(* What comes in from outside and what goes out: one delivery key of an    *)
(* integration, claimed before its effect and settled after it             *)
(* (control/integration_deliveries.py; a GitHub pull request, a relayed    *)
(* reply, a message to a bridge), and the webhook of a recurring task,     *)
(* checked before it fires and recorded after it (control/webhooks.py,     *)
(* control/recurring.py).                                                  *)
EXTENDS Integers, FiniteSets, Sequences

CONSTANTS Handlers,     \* requests and sends that handle the key
          MaxTries      \* bound: attempts on one key, fires of one hook

ASSUME DeliveriesAssumption == MaxTries \in Nat \ {0}

VARIABLES kind,         \* what the key stands for
          delivery,     \* its integration_deliveries row
          world,        \* what the effect has done: the Issue, its comments, messages sent
          handler,      \* handler -> the call it is in
          release,      \* the attempt the bootstrap admin saw, 0 for none
          hasty,        \* an attempt was released while its handler was at it
          enabled,      \* the recurring task
          runs,         \* recurring_runs of the hook, each with its task
          hookTasks,    \* tasks minted
          accepted,     \* the webhook_deliveries row: its task, 0 before it is there
          hook,         \* handler -> the delivery of the webhook it is in
          excused       \* a fire ended without that row, or began beside another
deliveryVars == <<kind, delivery, world, handler, release, hasty, enabled, runs, hookTasks, accepted, hook, excused>>
hookVars == <<enabled, runs, hookTasks, accepted, hook, excused>>

Kinds == {"pull_request", "send", "other"}
Final == {"completed", "ignored"}
NoDelivery == [status |-> "none", attempts |-> 0]
Resting == [at |-> "rest", attempt |-> 0]
HookRest == [at |-> "rest", run |-> 0, task |-> 0]

DeliveryTypeOK ==
    /\ delivery.status \in {"none", "processing", "failed"} \cup Final /\ delivery.attempts \in 0..MaxTries
    /\ (delivery.status = "none") <=> (delivery.attempts = 0)
    /\ \A h \in Handlers : /\ handler[h].attempt \in 0..delivery.attempts
                           /\ handler[h].at \notin {"rest", "insert", "retry", "claimed"} => handler[h].attempt # 0
                           /\ {hook[h].run} \subseteq 0..Len(runs) /\ hook[h].task \in 0..hookTasks
    /\ hookTasks \in 0..MaxTries /\ accepted \in 0..hookTasks
    /\ \A i \in DOMAIN runs : runs[i] \in 0..hookTasks

DeliveryInit ==
    /\ kind \in Kinds /\ delivery = NoDelivery
    /\ world = [done |-> FALSE, comments |-> 0, sent |-> 0]
    /\ handler = [h \in Handlers |-> Resting] /\ release = 0 /\ hasty = FALSE
    /\ enabled = TRUE /\ runs = <<>> /\ hookTasks = 0 /\ accepted = 0
    /\ hook = [h \in Handlers |-> HookRest] /\ excused = FALSE

Handling(h, record) == handler' = [handler EXCEPT ![h] = record]
HandlerAt(h, at) == Handling(h, [handler[h] EXCEPT !.at = at])

----------------------------------------------------------------------------
(* claim.                                                                  *)

\* A row that is there and has not failed answers for the call: in progress, or a duplicate.
Lookup(h) ==
    /\ handler[h].at = "rest" /\ delivery.status \in {"none", "failed"}
    /\ HandlerAt(h, IF delivery.status = "none" THEN "insert" ELSE "retry")
    /\ UNCHANGED <<kind, delivery, world, release, hasty, hookVars>>
\* The UNIQUE constraint lets one insert through.
InsertDelivery(h) ==
    /\ handler[h].at = "insert"
    /\ IF delivery.status = "none"
       THEN delivery' = [status |-> "processing", attempts |-> 1] /\ HandlerAt(h, "claimed")
       ELSE UNCHANGED delivery /\ Handling(h, Resting)
    /\ UNCHANGED <<kind, world, release, hasty, hookVars>>
BugRetryable == delivery.status \in {"failed", "processing"}
Retryable == delivery.status = "failed"
retry_failed(h) ==
    /\ handler[h].at = "retry" /\ delivery.attempts < MaxTries
    /\ IF Retryable
       THEN delivery' = [status |-> "processing", attempts |-> delivery.attempts + 1] /\ HandlerAt(h, "claimed")
       ELSE UNCHANGED delivery /\ Handling(h, Resting)
    /\ UNCHANGED <<kind, world, release, hasty, hookVars>>
\* The attempt a handler holds is read back after the commit that claimed it.
ReadBack(h) ==
    /\ handler[h].at = "claimed"
    /\ Handling(h, [at |-> "effect", attempt |-> delivery.attempts])
    /\ UNCHANGED <<kind, delivery, world, release, hasty, hookVars>>

----------------------------------------------------------------------------
(* The effect, each part in a transaction of its own; any part may fail.   *)

Fails(h) ==
    /\ handler[h].at \in {"effect", "comment", "add"} /\ kind # "other"
    /\ HandlerAt(h, "failed")
    /\ UNCHANGED <<kind, delivery, world, release, hasty, hookVars>>
\* handle_pull_request_event: the Issue is done, then the comment is there.
Done(h) ==
    /\ handler[h].at = "effect" /\ kind = "pull_request"
    /\ world' = [world EXCEPT !.done = TRUE]
    /\ HandlerAt(h, "comment")
    /\ UNCHANGED <<kind, delivery, release, hasty, hookVars>>
comment_exists == world.comments > 0
Comment(h) ==
    /\ handler[h].at = "comment"
    /\ HandlerAt(h, IF comment_exists THEN "completed" ELSE "add")
    /\ UNCHANGED <<kind, delivery, world, release, hasty, hookVars>>
add_comment(h) ==
    /\ handler[h].at = "add"
    /\ world' = [world EXCEPT !.comments = @ + 1]
    /\ HandlerAt(h, "completed")
    /\ UNCHANGED <<kind, delivery, release, hasty, hookVars>>
\* A bridge may deliver a message and report a failure.
Send(h) ==
    /\ handler[h].at = "effect" /\ kind = "send"
    /\ world' = [world EXCEPT !.sent = @ + 1]
    /\ HandlerAt(h, "completed") \/ HandlerAt(h, "failed")
    /\ UNCHANGED <<kind, delivery, release, hasty, hookVars>>
Ignore(h) ==
    /\ handler[h].at = "effect" /\ kind = "other"
    /\ HandlerAt(h, "ignored")
    /\ UNCHANGED <<kind, delivery, world, release, hasty, hookVars>>

\* settle: the attempt is still processing and still this one, or the call is refused.
Owns(attempt) == delivery.status = "processing" /\ delivery.attempts = attempt
Settles(attempt, status) ==
    delivery' = IF Owns(attempt) THEN [delivery EXCEPT !.status = status] ELSE delivery
settle(h) ==
    /\ handler[h].at \in Final \cup {"failed"}
    /\ Settles(handler[h].attempt, handler[h].at)
    /\ Handling(h, Resting)
    /\ UNCHANGED <<kind, world, release, hasty, hookVars>>
\* The process dies; its attempt stays processing.
Die(h) ==
    /\ handler[h] # Resting
    /\ Handling(h, Resting)
    /\ UNCHANGED <<kind, delivery, world, release, hasty, hookVars>>

\* The bootstrap admin fails an attempt that is stuck, after a look at whose it is.
Inspect ==
    /\ release = 0 /\ delivery.status = "processing"
    /\ release' = delivery.attempts
    /\ UNCHANGED <<kind, delivery, world, handler, hasty, hookVars>>
release_integration_delivery ==
    /\ release # 0
    /\ Settles(release, "failed")
    /\ hasty' = (hasty \/ (Owns(release) /\ \E h \in Handlers : handler[h].at = "claimed" \/ handler[h].attempt = release))
    /\ release' = 0
    /\ UNCHANGED <<kind, world, handler, hookVars>>

----------------------------------------------------------------------------
(* deliver_webhook and the fire of its recurring task.                     *)

rowVars == <<kind, delivery, world, handler, release, hasty>>
Hooking(h, record) == hook' = [hook EXCEPT ![h] = record]
HookAt(h, at) == Hooking(h, [hook[h] EXCEPT !.at = at])
\* A fire that has begun and leaves no webhook_deliveries row behind.
Gone(h) == Hooking(h, HookRest) /\ excused' = TRUE

set_recurring_enabled ==
    /\ enabled' = ~enabled
    /\ UNCHANGED <<rowVars, runs, hookTasks, accepted, hook, excused>>
\* A duplicate is answered from the row; otherwise a fire begins, whoever else has begun one.
Unheard == accepted = 0
deliver_webhook(h) ==
    /\ hook[h].at = "rest" /\ Unheard
    /\ HookAt(h, "fire")
    /\ excused' = (excused \/ \E other \in Handlers : hook[other].at # "rest")
    /\ UNCHANGED <<rowVars, enabled, runs, hookTasks, accepted>>
\* fire_recurring_task reads the definition, and refuses one that is disabled.
ReadDefinition(h) ==
    /\ hook[h].at = "fire"
    /\ HookAt(h, IF enabled THEN "record" ELSE "rest")
    /\ UNCHANGED <<rowVars, enabled, runs, hookTasks, accepted, excused>>
\* The schedule, the run and its audit entry, or none of them and no fire.
_record_fire(h) ==
    /\ hook[h].at = "record" /\ Len(runs) < MaxTries
    /\ \/ runs' = Append(runs, 0) /\ Hooking(h, [hook[h] EXCEPT !.at = "task", !.run = Len(runs) + 1])
       \/ Hooking(h, HookRest) /\ UNCHANGED runs
    /\ UNCHANGED <<rowVars, enabled, hookTasks, accepted, excused>>
create_task(h) ==
    /\ hook[h].at = "task" /\ hookTasks < MaxTries
    /\ hookTasks' = hookTasks + 1
    /\ Hooking(h, [hook[h] EXCEPT !.at = "link", !.task = hookTasks + 1])
    /\ UNCHANGED <<rowVars, enabled, runs, accepted, excused>>
_link_run_task(h) ==
    /\ hook[h].at = "link"
    /\ runs' = [runs EXCEPT ![hook[h].run] = hook[h].task]
    /\ HookAt(h, "accept")
    /\ UNCHANGED <<rowVars, enabled, hookTasks, accepted, excused>>
\* The row of the webhook comes last; its UNIQUE constraint refuses the second.
Accept(h) ==
    /\ hook[h].at = "accept"
    /\ accepted' = IF accepted = 0 THEN hook[h].task ELSE accepted
    /\ Hooking(h, HookRest)
    /\ UNCHANGED <<rowVars, enabled, runs, hookTasks, excused>>
\* The process dies, or a step fails, with the fire under way.
DieFiring(h) ==
    /\ hook[h].at \in {"task", "link", "accept"}
    /\ Gone(h)
    /\ UNCHANGED <<rowVars, enabled, runs, hookTasks, accepted>>

DeliveryNext ==
    \/ \E h \in Handlers : \/ Lookup(h) \/ InsertDelivery(h) \/ retry_failed(h) \/ ReadBack(h) \/ Fails(h)
                           \/ Done(h) \/ Comment(h) \/ add_comment(h) \/ Send(h) \/ Ignore(h)
                           \/ settle(h) \/ Die(h)
                           \/ deliver_webhook(h) \/ ReadDefinition(h) \/ _record_fire(h) \/ create_task(h)
                           \/ _link_run_task(h) \/ Accept(h) \/ DieFiring(h)
    \/ Inspect \/ release_integration_delivery \/ set_recurring_enabled

----------------------------------------------------------------------------
\* "Reserve one delivery before its effect": two handlers are at the effect of one key only
\* if an attempt was released under its handler.
OneHandler == Cardinality({h \in Handlers : handler[h].at \in {"claimed", "effect", "comment", "add"}}) <= 1 \/ hasty

\* A pull request that was handled has closed its Issue and said so, exactly once over all the
\* attempts, whichever of them failed or died after which part (github.py, comment_exists).
HandledOnce ==
    /\ kind = "pull_request" /\ delivery.status = "completed" => world.done /\ world.comments >= 1
    /\ world.comments <= 1 \/ hasty

\* A message recorded as sent was sent, and a key that is final is final ("no longer owns settlement").
SentIsSent == kind = "send" /\ delivery.status = "completed" => world.sent >= 1
FinalKeyStands == delivery.status \in Final => delivery' = delivery

\* "a fire that cannot be recorded does not happen at all".
FireIsRecorded == hookTasks <= Len(runs)

\* "a redelivery carrying the same dedupe key ... does not fire the task twice": unless two came at
\* once, or the first died before its row was there.
FiresAgainOnlyIf == Len(runs) > 1 => excused

\* The task a duplicate is answered with is the one its run is linked to.
AnswerIsLinked == accepted # 0 => \E i \in DOMAIN runs : runs[i] = accepted

\* However often a delivery comes, is retried, released or dies halfway: one handler is at its
\* effect, the effect happened once and is what the rows say of it.
DeliveriesAreSound ==
    /\ DeliveryTypeOK /\ OneHandler /\ HandledOnce /\ SentIsSent
    /\ FireIsRecorded /\ FiresAgainOnlyIf /\ AnswerIsLinked
=============================================================================
