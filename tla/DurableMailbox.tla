--------------------------- MODULE DurableMailbox ---------------------------
(***************************************************************************)
(* One durable agent mailbox: control/durable_mailbox.py.                  *)
(*                                                                         *)
(* A mailbox is proved by a secret.  The database keeps its hash and the   *)
(* managed binding file keeps the secret, and the two cannot change in one *)
(* transaction.  A managed operation commits an intent row, changes the    *)
(* file, then settles the intent by what it finds in the file; a process   *)
(* may die between any two of those steps, and inside the creation of the  *)
(* file.  A later reconciliation settles the intents of dead processes.    *)
(*                                                                         *)
(* A secret and its hash are one number: minted numbers are never equal by *)
(* chance.  Holders are coordination handles of the mailbox's owner; a    *)
(* lapsed one has an expired lease that no sweep has turned dormant yet.   *)
(* Notifications and cursors belong to the mail component.                 *)
(***************************************************************************)
EXTENDS Integers, FiniteSets

CONSTANTS
    Holders,  \* Session incarnations of the mailbox's tool
    Procs,     \* processes that run managed operations
    MaxSecret, \* bound: secrets minted
    Nothing    \* no file, no transition, no operation

Secrets == 1 .. MaxSecret

\* A mailbox_binding_transitions row; alive says whether its owner_pid still runs.
Intent ==
    [op : {"create", "rotate", "recover", "revoke"}, from : Secrets, to : Secrets \cup {Nothing},
     version : 1 .. MaxSecret \cup {Nothing}, session : Holders, owner : Procs, alive : BOOLEAN]

Steps == {"prepared", "opened", "settle"}

ASSUME MailboxAssumption ==
    /\ MaxSecret \in Nat
    /\ Nothing \notin Nat \cup Steps \cup Intent

VARIABLES
    mailbox, \* the mailboxes row: [status, hash, version]
    attach,  \* each Session's mailbox_attachments row: never, active or detached
    trans,   \* the mailbox_binding_transitions row
    file,    \* the managed binding file's secret
    life,    \* each Session: live, lapsed, dormant or ended
    work,    \* the step of the managed operation each process is at
    minted   \* secrets minted so far

mailboxVars == <<mailbox, attach, trans, file, life, work, minted>>

Absent == [status |-> "absent", hash |-> 0, version |-> 0]

\* A file that was opened and not completely written: it holds no valid secret.
Partial == 0

Active == {s \in Holders : attach[s] = "active"}

\* _verify_existing_mailbox.
Proves(k) == mailbox.status = "active" /\ mailbox.hash = k

-----------------------------------------------------------------------------
\* Mistaken variants, named Bug..., stand before the definitions they replace in the
\* checks that a property can fail.
BugMayAttach(s) == TRUE

\* _attach_current_session and _require_attachment_transition_available: only an
\* attachment whose Session can no longer be reached gives way.
MayAttach(s) == \A o \in Active \ {s} : life[o] # "live"

Attached(s) ==
    [o \in Holders |-> IF o = s THEN "active" ELSE IF attach[o] = "active" THEN "detached" ELSE attach[o]]

\* detach_session_mailbox_in_transaction.
Detached(s) == [attach EXCEPT ![s] = IF @ = "active" THEN "detached" ELSE @]

\* register_agent_mailbox, and start_session with a mailbox: create or find the
\* mailbox and attach a live Session.  The caller brings its own secret.
register_agent_mailbox(s, k) ==
    /\ life[s] = "live"
    /\ mailbox = Absent \/ Proves(k)
    /\ MayAttach(s)
    /\ mailbox' = IF mailbox = Absent THEN [status |-> "active", hash |-> k, version |-> 1] ELSE mailbox
    /\ attach' = Attached(s)
    /\ minted' = IF k > minted THEN k ELSE minted
    /\ UNCHANGED <<trans, file, life, work>>

\* resume_agent_mailbox and a heartbeat with proof: the lease is renewed and the
\* Session attached, or neither.
resume_agent_mailbox(s, k) ==
    /\ life[s] # "ended"
    /\ Proves(k) /\ MayAttach(s)
    /\ life' = [life EXCEPT ![s] = "live"]
    /\ attach' = Attached(s)
    /\ UNCHANGED <<mailbox, trans, file, work, minted>>

\* renew_session_lease without proof: only a Session that never had a mailbox.
renew_session_lease(s) ==
    /\ life[s] \in {"lapsed", "dormant"} /\ attach[s] = "never"
    /\ life' = [life EXCEPT ![s] = "live"]
    /\ UNCHANGED <<mailbox, attach, trans, file, work, minted>>

detach_session_mailbox(s) ==
    /\ attach' = Detached(s)
    /\ UNCHANGED <<mailbox, trans, file, life, work, minted>>

-----------------------------------------------------------------------------

\* _prepare_binding_transition: one intent per mailbox, owned by a live process.
Prepare(p, op, s, to, version, from) ==
    /\ trans = Nothing /\ work[p] = Nothing
    /\ trans' = [op |-> op, from |-> from, to |-> to, version |-> version, session |-> s,
                 owner |-> p, alive |-> TRUE]
    /\ work' = [work EXCEPT ![p] = "prepared"]

\* create_managed_agent_mailbox up to its commit.
create_managed_agent_mailbox(p, s) ==
    LET k == minted + 1
    IN  /\ k \in Secrets /\ life[s] = "live"
        /\ file = Nothing /\ mailbox = Absent
        /\ Prepare(p, "create", s, k, 1, k)
        /\ mailbox' = [status |-> "active", hash |-> k, version |-> 1]
        /\ attach' = Attached(s)
        /\ minted' = k
        /\ UNCHANGED <<file, life>>

\* _rotate_or_recover_managed_binding up to its commit.
ReplaceSecret(p, op, s) ==
    LET k == minted + 1
    IN  /\ k \in Secrets /\ life[s] = "live"
        /\ mailbox.status = "active" /\ MayAttach(s)
        /\ Prepare(p, op, s, k, mailbox.version + 1, mailbox.hash)
        /\ minted' = k
        /\ UNCHANGED <<mailbox, attach, file, life>>

rotate_managed_agent_mailbox_binding(p, s) == Proves(file) /\ ReplaceSecret(p, "rotate", s)

recover_managed_agent_mailbox_binding(p, s) == file = Nothing /\ ReplaceSecret(p, "recover", s)

\* revoke_managed_agent_mailbox_binding up to its commit: the file's secret is checked
\* against the mailbox only for a Session that was attached before.
revoke_managed_agent_mailbox_binding(p, s) ==
    /\ file \in Secrets /\ mailbox # Absent
    /\ attach[s] # "never" => Proves(file)
    /\ Prepare(p, "revoke", s, Nothing, Nothing, mailbox.hash)
    /\ UNCHANGED <<mailbox, attach, file, life, minted>>

At(p, step) == work[p] = step
Step(p, step) == work' = [work EXCEPT ![p] = step]
Database == <<mailbox, attach, trans, life, minted>>

\* _create_managed_binding opens the file exclusively, then writes it or removes it.  No
\* process can have made the file since the intent was committed (SoleWriter).
OpenBinding(p) ==
    /\ At(p, "prepared") /\ trans.op \in {"create", "recover"}
    /\ file = Nothing /\ file' = Partial
    /\ Step(p, "opened")
    /\ UNCHANGED Database

_create_managed_binding(p) ==
    /\ At(p, "opened")
    /\ file' \in {trans.to, Nothing}
    /\ Step(p, "settle")
    /\ UNCHANGED Database

\* _replace_managed_binding: an atomic exchange, or a failure before or after it.
_replace_managed_binding(p) ==
    /\ At(p, "prepared") /\ trans.op = "rotate"
    /\ file' \in {trans.to, file}
    /\ Step(p, "settle")
    /\ UNCHANGED Database

\* The revocation's unlink is not guarded: its failure leaves the intent behind.
unlink(p) ==
    /\ At(p, "prepared") /\ trans.op = "revoke"
    /\ \/ file # Nothing /\ file' = Nothing /\ Step(p, "settle")
       \/ UNCHANGED file /\ Step(p, Nothing)
    /\ UNCHANGED Database

-----------------------------------------------------------------------------
\* What _reconcile_binding_transition reads in the file: the intended secret (none, for
\* a revocation) lets the operation go on, the earlier state undoes it, and anything
\* else is refused.
Done == file = trans.to
Undone == ~Done /\ (file = trans.from \/ (trans.op \in {"create", "recover"} /\ file = Nothing))

\* A refusal before the file is even compared: another live incarnation is attached.
MayGoOn == trans.op \in {"rotate", "recover"} => MayAttach(trans.session)

Settleable == (Done /\ MayGoOn) \/ Undone

\* An aborted creation deletes the mailbox and its attachments.
Aborted == mailbox' = Absent /\ attach' = [s \in Holders |-> "never"]

BugReplaced == UNCHANGED mailbox /\ attach' = Attached(trans.session)

Replaced ==
    /\ mailbox' = [mailbox EXCEPT !.hash = trans.to, !.version = trans.version]
    /\ attach' = Attached(trans.session)

Retired == mailbox' = [mailbox EXCEPT !.status = "retired"] /\ attach' = Detached(trans.session)

\* _reconcile_binding_transition.  The hash recorded by the intent is compared again.
Settle ==
    /\ Settleable
    /\ Done /\ trans.op # "create" => mailbox.hash = trans.from
    /\ CASE Done /\ trans.op \in {"rotate", "recover"} -> Replaced
         [] Done /\ trans.op = "revoke"               -> Retired
         [] Undone /\ trans.op = "create"             -> Aborted
         [] OTHER                                     -> UNCHANGED <<mailbox, attach>>
    /\ trans' = Nothing

\* The operation settles its own intent; a refusal ends it and leaves the intent.
SettleOwn(p) ==
    /\ At(p, "settle") /\ Step(p, Nothing)
    /\ \/ Settle
       \/ ~Settleable /\ UNCHANGED <<mailbox, attach, trans>>
    /\ UNCHANGED <<file, life, minted>>

\* reconcile_managed_mailbox_bindings: only the intent of a dead process is touched.
reconcile_managed_mailbox_bindings ==
    /\ trans # Nothing /\ ~trans.alive
    /\ Settle
    /\ UNCHANGED <<file, life, work, minted>>

\* The process dies; its successor is another process instance.
Crash(p) ==
    /\ work' = [work EXCEPT ![p] = Nothing]
    /\ trans' = IF trans # Nothing /\ trans.owner = p THEN [trans EXCEPT !.alive = FALSE] ELSE trans
    /\ UNCHANGED <<mailbox, attach, file, life, minted>>

\* The binding file is lost, at any time but while a process holds it open.
FileLost ==
    /\ file # Nothing /\ \A p \in Procs : ~At(p, "opened")
    /\ file' = Nothing
    /\ UNCHANGED <<mailbox, attach, trans, life, work, minted>>

-----------------------------------------------------------------------------
\* The Session component: a lease runs out, a sweep turns the Session dormant, a Session
\* ends; the two transitions detach in the same transaction.
Lapse(s) ==
    /\ life[s] = "live" /\ life' = [life EXCEPT ![s] = "lapsed"]
    /\ UNCHANGED <<mailbox, attach, trans, file, work, minted>>

sweep_stale_session_leases(s) ==
    /\ life[s] = "lapsed" /\ life' = [life EXCEPT ![s] = "dormant"]
    /\ attach' = Detached(s)
    /\ UNCHANGED <<mailbox, trans, file, work, minted>>

end_session(s) ==
    /\ life[s] # "ended" /\ life' = [life EXCEPT ![s] = "ended"]
    /\ attach' = Detached(s)
    /\ UNCHANGED <<mailbox, trans, file, work, minted>>

MailboxInit ==
    /\ mailbox = Absent
    /\ attach = [s \in Holders |-> "never"]
    /\ trans = Nothing /\ file = Nothing
    /\ life = [s \in Holders |-> "live"]
    /\ work = [p \in Procs |-> Nothing]
    /\ minted = 0

MailboxNext ==
    \/ \E s \in Holders :
        \/ \E k \in 1 .. minted + 1 :
            k \in Secrets /\ (register_agent_mailbox(s, k) \/ resume_agent_mailbox(s, k))
        \/ renew_session_lease(s) \/ detach_session_mailbox(s)
        \/ \E p \in Procs :
            \/ create_managed_agent_mailbox(p, s)
            \/ rotate_managed_agent_mailbox_binding(p, s)
            \/ recover_managed_agent_mailbox_binding(p, s)
            \/ revoke_managed_agent_mailbox_binding(p, s)
        \/ Lapse(s) \/ sweep_stale_session_leases(s) \/ end_session(s)
    \/ \E p \in Procs :
        \/ OpenBinding(p) \/ _create_managed_binding(p) \/ _replace_managed_binding(p) \/ unlink(p)
        \/ SettleOwn(p) \/ Crash(p)
    \/ reconcile_managed_mailbox_bindings
    \/ FileLost

MailboxSpec == MailboxInit /\ [][MailboxNext]_mailboxVars

-----------------------------------------------------------------------------
MailboxRow == [status : {"absent", "active", "retired"}, hash : Secrets \cup {0}, version : 0 .. MaxSecret]

\* Types, and referential integrity: nobody is attached to a mailbox that is not there.
MailboxTypeOK ==
    /\ mailbox \in MailboxRow
    /\ attach \in [Holders -> {"never", "active", "detached"}]
    /\ mailbox = Absent => \A s \in Holders : attach[s] = "never"
    /\ trans \in Intent \cup {Nothing}
    /\ file \in Secrets \cup {Partial, Nothing}
    /\ life \in [Holders -> {"live", "lapsed", "dormant", "ended"}]
    /\ work \in [Procs -> Steps \cup {Nothing}]
    /\ minted \in 0 .. MaxSecret

\* When no operation is open, the binding file proves the mailbox: a crash, a failed
\* write or a race between operations never leaves a file whose secret the database
\* refuses, nor the file of a mailbox that is gone or retired.
BindingAgrees == trans = Nothing /\ file # Nothing => Proves(file)

\* One intent admits one writer: a process between the commit of its intent and its
\* settlement owns the open intent, is alive, and creates only a file that is not there.
SoleWriter ==
    \A p \in Procs : work[p] # Nothing =>
        /\ trans # Nothing
        /\ trans.owner = p /\ trans.alive
        /\ At(p, "prepared") /\ trans.op \in {"create", "recover"} => file = Nothing
        /\ At(p, "opened") => file = Partial

\* At most one Session incarnation is attached.
OneIncarnation == \A s, o \in Active : s = o

\* Whatever process dies at whatever step: the file proves the mailbox, one process
\* writes it, and one incarnation holds the mailbox.
MailboxIsBound == MailboxTypeOK /\ BindingAgrees /\ SoleWriter /\ OneIncarnation

\* No step takes the mailbox from a reachable Session and gives it to another one, a
\* reconciliation on behalf of a Session that asked long ago included.
NoTakeover == \A s \in Active : life[s] = "live" /\ attach'[s] # "active" => Active' = {}

\* A version names one secret: an active mailbox changes its hash exactly when its
\* version grows by one, though the two were chosen when the intent was committed.
VersionNamesSecret ==
    mailbox.status = "active" /\ mailbox'.status # "absent" =>
        \/ mailbox'.hash = mailbox.hash /\ mailbox'.version = mailbox.version
        \/ mailbox'.hash # mailbox.hash /\ mailbox'.version = mailbox.version + 1

------------------------------------------------------------
(* What the repository says and the code does not do.                      *)

\* ARCHITECTURE.md: the end and the dormancy of a Session detach it in the same
\* transaction; a Session that is over is therefore not attached.
EndedIsDetached == \A s \in Active : life[s] \notin {"dormant", "ended"}

\* reconcile_managed_mailbox_bindings is said to converge the intents of interrupted
\* operations: one whose process is dead can be settled.
ReconcileConverges == trans # Nothing /\ ~trans.alive /\ Active \subseteq {trans.session} => Settleable
=============================================================================
