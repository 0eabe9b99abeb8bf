------------------------------ MODULE OpenCode ------------------------------
(***************************************************************************)
(* The lifecycle of one native OpenCode session (control/                  *)
(* opencode_lifecycle.py).  The plugin runs a short-lived process for      *)
(* every chat message, which attaches or renews a coordination Session,    *)
(* and for the deletion, which retires its identity.  The processes share  *)
(* a PID-file lock and the managed mailbox of DurableMailbox, whose        *)
(* operations they run; each may die between two steps, and leases expire  *)
(* and are swept at any time.                                              *)
(***************************************************************************)
EXTENDS Integers, FiniteSets

CONSTANTS
    Hooks,      \* processes that the plugin runs
    NoHook,
    Births,     \* bound: Sessions started, 1..n
    MaxSecret, Nothing,  \* of DurableMailbox
    MaxLost     \* bound: processes that die

VARIABLES
    mailbox, attach, trans, binding, life, work, keys,  \* of DurableMailbox
    hook,      \* per process: the event, its step and the Session it is about
    hookLock, hookAt, hookAlive,
    lost,      \* processes that died
    paired,    \* two processes have been inside the lock
    gone       \* the deletion was acknowledged
boxVars == <<mailbox, attach, trans, binding, life, work, keys>>
hookVars == <<boxVars, hook, hookLock, hookAt, hookAlive, lost, paired, gone>>

Box == INSTANCE DurableMailbox WITH Holders <- Births, Procs <- Hooks, file <- binding, minted <- keys
\* Sessions are numbered in the order of their birth; what stands for "nothing" is no number,
\* no step and no intent.
ASSUME OpenCodeAssumption ==
    /\ IsFiniteSet(Births) /\ Births = 1 .. Cardinality(Births)
    /\ MaxSecret \in Nat /\ Nothing \notin Nat \cup Box!Steps \cup Box!Intent

NativeLock == INSTANCE PidLock WITH Contenders <- Hooks, NoOwner <- NoHook, BlankIsStale <- TRUE,
                              lock <- hookLock, at <- hookAt, alive <- hookAlive

Unborn == {s \in Births : life[s] = "unborn"}
Born == Births \ Unborn
\* Whoever is not attached here has never been, or was and is detached.
_active_session_id == IF Box!Active = {} THEN 0 ELSE CHOOSE s \in Box!Active : TRUE
\* The Sessions of one mailbox are attached in the order of their birth.
_latest_session_id ==
    LET known == {s \in Births : attach[s] # "never"}
    IN  IF known = {} THEN 0 ELSE CHOOSE s \in known : \A o \in known : o <= s

Resting == [event |-> "none", step |-> "none", session |-> 0, secret |-> 0]
Handling(p, event, step) == hookAt[p] = "in" /\ hook[p].event = event /\ hook[p].step = step
Onward(p, step) == hook' = [hook EXCEPT ![p].step = step]
Finished(p) == Onward(p, "over")
Frame == UNCHANGED <<hookLock, hookAt, hookAlive, lost, paired>>
SameBox == UNCHANGED boxVars

-----------------------------------------------------------------------------
(* Both events begin with a reconciliation; a chat message then sweeps.    *)

Reconcile(p) ==
    /\ \E event \in {"message", "deleted"} :
          Handling(p, event, "reconcile") /\ Onward(p, IF event = "message" THEN "sweep" ELSE "look")
    /\ IF trans # Nothing /\ ~trans.alive /\ Box!Settleable
       THEN Box!reconcile_managed_mailbox_bindings
       ELSE SameBox
    /\ UNCHANGED gone /\ Frame

\* sweep_stale_session_leases, before the mailbox is looked at and again in start_session.
AfterSweep == [sweep |-> "look", register |-> "succeed", enroll |-> "start"]
Sweep(p) ==
    /\ \E step \in DOMAIN AfterSweep : Handling(p, "message", step) /\ Onward(p, AfterSweep[step])
    /\ life' = [s \in Births |-> IF life[s] = "lapsed" THEN "dormant" ELSE life[s]]
    /\ attach' = [s \in Births |-> IF life[s] = "lapsed" /\ attach[s] = "active" THEN "detached" ELSE attach[s]]
    /\ UNCHANGED <<mailbox, trans, binding, work, keys, gone>> /\ Frame

-----------------------------------------------------------------------------
(* attach_opencode_session                                                 *)

\* The mailbox row, and the secret of its binding file.
LookAtMessage(p) ==
    /\ Handling(p, "message", "look")
    /\ hook' = [hook EXCEPT ![p] = [@ EXCEPT !.secret = IF binding = Nothing THEN 0 ELSE binding,
                 !.step = IF mailbox = Box!Absent THEN "enroll"
                          ELSE IF mailbox.status # "active" \/ binding \notin Box!Secrets THEN "over" ELSE "current"]]
    /\ SameBox /\ UNCHANGED gone /\ Frame

ReadCurrent(p) ==
    /\ Handling(p, "message", "current")
    /\ hook' = [hook EXCEPT ![p] = [@ EXCEPT !.session = _active_session_id,
                                             !.step = IF Box!Active = {} THEN "register" ELSE "renew"]]
    /\ SameBox /\ UNCHANGED gone /\ Frame

\* heartbeat_session with the proof; whatever it raises leads to a successor.
Renew(p) ==
    /\ Handling(p, "message", "renew")
    /\ IF Box!Proves(hook[p].secret) /\ life[hook[p].session] # "ended" /\ Box!MayAttach(hook[p].session)
       THEN Box!resume_agent_mailbox(hook[p].session, hook[p].secret) /\ Finished(p)
       ELSE SameBox /\ Onward(p, "register")
    /\ UNCHANGED gone /\ Frame

\* The predecessor that start_session finds by itself: a live handle, else the last one.  All
\* handles of the workspace are this identity's; one with a successor is never the last.
LiveHandles == {s \in Born : life[s] = "live"}
Predecessor(p) ==
    IF hook[p].session # 0 THEN hook[p].session
    ELSE IF LiveHandles # {} THEN CHOOSE s \in LiveHandles : TRUE
    ELSE IF Born # {} THEN CHOOSE s \in Born : \A o \in Born : o <= s ELSE 0

\* Two live handles, a predecessor that needs a proof this call has not, or one that is still
\* reachable in the mailbox refuse the registration.
MayStart(p, secret) ==
    LET before == Predecessor(p)
    IN  /\ Cardinality(LiveHandles) <= 1 \/ hook[p].session # 0
        /\ before # 0 /\ attach[before] # "never" =>
              Box!Proves(secret) /\ ~(attach[before] = "active" /\ life[before] = "live")
        /\ secret # 0 => Box!Proves(secret)

\* _supersede_coordination_handle: the predecessor is dormant and detached.
Superseded(before) == [s \in Births |-> IF s = before /\ life[s] # "ended" THEN "dormant" ELSE life[s]]
Detached(before) == [s \in Births |-> IF s = before /\ attach[s] = "active" THEN "detached" ELSE attach[s]]

\* start_session with the proof: the successor is born attached, or not at all.
Succeed(p) ==
    /\ Handling(p, "message", "succeed")
    /\ IF MayStart(p, hook[p].secret) /\ \A o \in Box!Active \ {Predecessor(p)} : life[o] # "live"
       THEN \E s \in Unborn :
              /\ \A o \in Unborn : s <= o
              /\ life' = [Superseded(Predecessor(p)) EXCEPT ![s] = "live"]
              /\ attach' = [o \in Births |-> IF o = s THEN "active"
                                             ELSE IF attach[o] = "active" THEN "detached" ELSE attach[o]]
       ELSE UNCHANGED <<life, attach>>
    /\ Finished(p)
    /\ UNCHANGED <<mailbox, trans, binding, work, keys, gone>> /\ Frame

\* No mailbox yet: a Session is started first, without one.
Enroll(p) ==
    /\ Handling(p, "message", "start")
    /\ IF MayStart(p, 0)
       THEN \E s \in Unborn :
              /\ \A o \in Unborn : s <= o
              /\ life' = [Superseded(Predecessor(p)) EXCEPT ![s] = "live"]
              /\ attach' = Detached(Predecessor(p))
              /\ hook' = [hook EXCEPT ![p] = [@ EXCEPT !.session = s, !.step = "create"]]
       ELSE UNCHANGED <<life, attach>> /\ Finished(p)
    /\ UNCHANGED <<mailbox, trans, binding, work, keys, gone>> /\ Frame

\* create_managed_agent_mailbox, up to its commit
MayCreate(s) == life[s] = "live" /\ binding = Nothing /\ mailbox = Box!Absent /\ trans = Nothing
Create(p) ==
    /\ Handling(p, "message", "create")
    /\ IF MayCreate(hook[p].session)
       THEN keys < MaxSecret /\ Box!create_managed_agent_mailbox(p, hook[p].session) /\ Onward(p, "made")
       ELSE SameBox /\ Onward(p, "failed")
    /\ UNCHANGED gone /\ Frame

\* The file is written and the intent settled, as of Box; the identity is there, or it failed.
Operate(p) ==
    /\ hookAt[p] = "in" /\ work[p] # Nothing
    /\ Box!OpenBinding(p) \/ Box!_create_managed_binding(p) \/ Box!unlink(p) \/ Box!SettleOwn(p)
    /\ UNCHANGED <<hook, gone>> /\ Frame
Made(p) ==
    /\ Handling(p, "message", "made") /\ work[p] = Nothing
    /\ Onward(p, IF mailbox # Box!Absent /\ trans = Nothing THEN "over" ELSE "failed")
    /\ SameBox /\ UNCHANGED gone /\ Frame

\* finalize_session: the Session that could not be attached is ended.
Ended(s) == IF life[s] = "ended" THEN SameBox ELSE Box!end_session(s)
Failed(p) ==
    /\ Handling(p, "message", "failed") /\ Finished(p)
    /\ Ended(hook[p].session)
    /\ UNCHANGED gone /\ Frame

-----------------------------------------------------------------------------
(* delete_opencode_session                                                 *)

LookAtDeleted(p) ==
    /\ Handling(p, "deleted", "look")
    /\ hook' = [hook EXCEPT ![p] =
           IF mailbox = Box!Absent THEN [@ EXCEPT !.step = "over"]
           ELSE IF mailbox.status # "active" THEN [@ EXCEPT !.step = "repair", !.session = _latest_session_id]
           ELSE IF Box!Active = {} THEN [@ EXCEPT !.step = "over"]
           ELSE [@ EXCEPT !.step = "revoke", !.session = _active_session_id]]
    /\ SameBox /\ UNCHANGED gone /\ Frame

RevokeBinding(p) ==
    /\ Handling(p, "deleted", "revoke")
    /\ IF trans = Nothing /\ Box!Proves(binding)
       THEN Box!revoke_managed_agent_mailbox_binding(p, hook[p].session) /\ Onward(p, "revoked")
       ELSE SameBox /\ Finished(p)
    /\ UNCHANGED gone /\ Frame
Revoked(p) ==
    /\ Handling(p, "deleted", "revoked") /\ work[p] = Nothing
    /\ Onward(p, IF mailbox.status = "retired" THEN "finalize" ELSE "over")
    /\ SameBox /\ UNCHANGED gone /\ Frame

Finalize(p) ==
    /\ Handling(p, "deleted", "finalize") \/ Handling(p, "deleted", "repair")
    /\ Finished(p)
    /\ IF hook[p].session = 0 THEN SameBox ELSE Ended(hook[p].session)
    /\ gone' = TRUE
    /\ Frame

-----------------------------------------------------------------------------
\* The plugin runs a process: also two at once, and messages after the deletion.
Runs(p, event) ==
    /\ hookAlive[p] /\ hookAt[p] = "out"
    /\ hook' = [hook EXCEPT ![p] = [Resting EXCEPT !.event = event, !.step = "reconcile"]]
    /\ hookAt' = [hookAt EXCEPT ![p] = "waiting"]
    /\ SameBox /\ UNCHANGED <<hookLock, hookAlive, lost, paired, gone>>

TakesNativeLock(p) ==
    /\ NativeLock!Contends(p)
    /\ paired' = (paired \/ \E q, r \in Hooks : q # r /\ hookAt'[q] = "in" /\ hookAt'[r] = "in")
    /\ SameBox /\ UNCHANGED <<hook, hookAlive, lost, gone>>

\* With the process goes the claim of its intent to be somebody's.
Leaves(p) ==
    /\ \/ hook[p].step = "over" /\ NativeLock!Leaves(p)
       \/ NativeLock!GivesUp(p)
    /\ hook' = [hook EXCEPT ![p] = Resting]
    /\ Box!Crash(p)
    /\ UNCHANGED <<hookAlive, lost, paired, gone>>

HookDies(p) ==
    /\ hookAlive[p] /\ hookAt[p] # "out" /\ lost < MaxLost
    /\ lost' = lost + 1
    /\ hook' = [hook EXCEPT ![p] = Resting]
    /\ hookAt' = [hookAt EXCEPT ![p] = "out"] /\ hookAlive' = [hookAlive EXCEPT ![p] = FALSE]
    /\ Box!Crash(p)
    /\ UNCHANGED <<hookLock, paired, gone>>

\* Another process; its PID is not one that the lock file still names.
HookRestarts(p) ==
    /\ ~hookAlive[p] /\ hookLock.by # p
    /\ hookAlive' = [hookAlive EXCEPT ![p] = TRUE]
    /\ SameBox /\ UNCHANGED <<hook, hookLock, hookAt, lost, paired, gone>>

\* A lease runs out, and somebody sweeps.
Elsewhere ==
    /\ \E s \in Born : Box!Lapse(s) \/ Box!sweep_stale_session_leases(s)
    /\ UNCHANGED <<hook, gone>> /\ Frame

HookWorks(p) ==
    \/ Reconcile(p) \/ Sweep(p) \/ LookAtMessage(p) \/ ReadCurrent(p) \/ Renew(p) \/ Succeed(p) \/ Enroll(p)
    \/ Create(p) \/ Operate(p) \/ Made(p) \/ Failed(p)
    \/ LookAtDeleted(p) \/ RevokeBinding(p) \/ Revoked(p) \/ Finalize(p)

OpenCodeInit ==
    /\ mailbox = Box!Absent /\ attach = [s \in Births |-> "never"] /\ trans = Nothing /\ binding = Nothing
    /\ life = [s \in Births |-> "unborn"] /\ work = [p \in Hooks |-> Nothing] /\ keys = 0
    /\ hook = [p \in Hooks |-> Resting]
    /\ hookLock = NativeLock!Free /\ hookAt = [p \in Hooks |-> "out"] /\ hookAlive = [p \in Hooks |-> TRUE]
    /\ lost = 0 /\ paired = FALSE /\ gone = FALSE

OpenCodeNext ==
    \/ \E p \in Hooks : Runs(p, "message") \/ Runs(p, "deleted") \/ TakesNativeLock(p) \/ HookWorks(p)
                        \/ Leaves(p) \/ HookDies(p) \/ HookRestarts(p)
    \/ Elsewhere

-----------------------------------------------------------------------------
\* The process a hook has started but not finished is about this Session.
Held(s) == \E p \in Hooks : hook[p].session = s /\ hook[p].step \in {"create", "made", "failed", "revoked", "finalize", "repair"}

\* Whatever process dies where: one Session of the identity is reachable at most, because
\* every attachment supersedes or ends the others, also one whose hook died halfway; and a
\* reachable Session without the mailbox is in the hands of a hook, or of one that died.
NoStray ==
    paired \/ /\ Cardinality(LiveHandles) <= 1
              /\ \A s \in LiveHandles : attach[s] # "active" => Held(s) \/ lost > 0

\* An acknowledged deletion leaves no identity, and no Session of it that could be reached:
\* also when the process before died between the revocation and the end of the Session.
DeletionIsFinal ==
    gone /\ ~paired => /\ mailbox.status = "retired"
                       /\ \A s \in Births : attach[s] # "never" => life[s] \notin {"live", "lapsed"}

\* The mailbox does not rely on the lock of the hooks: two of them inside still leave one
\* incarnation, one writer of the file, and a file that proves the mailbox.
IdentityIsOne == NoStray /\ DeletionIsFinal /\ Box!OneIncarnation /\ Box!BindingAgrees /\ Box!SoleWriter
=============================================================================
