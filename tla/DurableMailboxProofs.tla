------------------------ MODULE DurableMailboxProofs ------------------------
(***************************************************************************)
(* Proofs about one durable mailbox and its inbox, for any Holders,        *)
(* processes, number of secrets, messages, attempts and size of the inbox. *)
(*                                                                         *)
(* BindingAgrees speaks of states without an open intent; the invariant    *)
(* has to say what an open intent guarantees: the database still holds the *)
(* secret the intent came from, and the file holds that secret, the        *)
(* intended one, nothing, or (inside a creation) nothing readable.         *)
(* What the inbox promises needs one fact more: a client's floor never     *)
(* passes the end of the inbox.                                            *)
(***************************************************************************)
EXTENDS MCCoordination, FiniteSetTheorems, SequenceTheorems, WellFoundedInduction, TLAPS

\* The row of a mailbox that exists holds a minted secret and a version no later than it.
RowOK ==
    /\ mailbox.status = "absent" => mailbox = Absent
    /\ mailbox.status # "absent" => mailbox.hash \in 1 .. minted /\ mailbox.version \in 1 .. minted

\* What an open intent guarantees.
IntentOK ==
    trans # Nothing =>
        /\ mailbox.status = "active" /\ mailbox.hash = trans.from
        /\ trans.op = "revoke" <=> trans.to = Nothing
        /\ trans.op = "create" => trans.to = trans.from
        /\ trans.op \in {"rotate", "recover"} =>
            /\ trans.to # trans.from /\ trans.to <= minted
            /\ trans.version = mailbox.version + 1 /\ trans.version <= minted
        /\ file \in {Nothing, Partial, trans.from, trans.to}
        /\ file = Partial => trans.op \in {"create", "recover"}

\* The inductive invariant.
IInv == MailboxTypeOK /\ RowOK /\ IntentOK /\ BindingAgrees /\ SoleWriter /\ OneIncarnation

\* Attaching or detaching leaves at most one active attachment.
LEMMA Attachments ==
    ASSUME MailboxTypeOK, OneIncarnation, NEW s \in Holders
    PROVE  /\ Attached(s) \in [Holders -> {"never", "active", "detached"}]
           /\ Detached(s) \in [Holders -> {"never", "active", "detached"}]
           /\ \A a, b \in Holders : Attached(s)[a] = "active" /\ Attached(s)[b] = "active" => a = b
           /\ \A a, b \in Holders : Detached(s)[a] = "active" /\ Detached(s)[b] = "active" => a = b
           /\ \A a \in Holders : attach[a] = "never" => Detached(s)[a] = "never"
  BY DEF MailboxTypeOK, OneIncarnation, Active, Attached, Detached

\* Committing an intent makes its process the sole writer.
LEMMA Preparing ==
    ASSUME IInv, NEW p \in Procs, trans = Nothing, work' = [work EXCEPT ![p] = "prepared"],
           trans' \in Intent, trans'.owner = p, trans'.alive,
           trans'.op \in {"create", "recover"} => file' = Nothing
    PROVE  SoleWriter' /\ work' \in [Procs -> Steps \cup {Nothing}] /\ trans' # Nothing
  <1>1. \A q \in Procs : work[q] = Nothing
    BY DEF IInv, SoleWriter
  <1>2. trans' # Nothing
    BY MailboxAssumption
  <1>3. \A q \in Procs : work'[q] # Nothing => q = p /\ work'[q] = "prepared"
    BY <1>1 DEF IInv, MailboxTypeOK
  <1>4. work' \in [Procs -> Steps \cup {Nothing}]
    BY DEF IInv, MailboxTypeOK, Steps
  <1> QED
    BY <1>2, <1>3, <1>4 DEF SoleWriter, At

\* Nothing is known of the mailbox at first.
LEMMA InitEstablishes == MailboxInit => IInv
  BY MailboxAssumption DEF MailboxInit, IInv, MailboxTypeOK, RowOK, IntentOK, BindingAgrees, SoleWriter, OneIncarnation, Absent, MailboxRow, Secrets, Partial, Active

\* Settling an intent, by its owner or by a reconciliation, keeps the invariant but for
\* the settling process, whose step is the caller's.
LEMMA Settling ==
    ASSUME IInv, trans # Nothing, Settle, UNCHANGED <<file, life, minted>>
    PROVE  /\ mailbox' \in MailboxRow /\ trans' = Nothing
           /\ attach' \in [Holders -> {"never", "active", "detached"}]
           /\ (mailbox = Absent => \A s \in Holders : attach[s] = "never")'
           /\ RowOK' /\ BindingAgrees' /\ OneIncarnation'
  <1> USE MailboxAssumption
  <1>1. trans \in Intent /\ mailbox \in MailboxRow /\ trans.session \in Holders /\ trans' = Nothing
    BY DEF IInv, MailboxTypeOK, Intent, Settle
  <1>2. CASE Done /\ trans.op \in {"rotate", "recover"}
    <2>1. Replaced
      BY <1>2 DEF Settle
    <2>2. mailbox.status = "active" /\ trans.to \in Secrets /\ trans.version \in 1 .. MaxSecret
          /\ trans.to \in 1 .. minted /\ trans.version \in 1 .. minted
      <3>1. mailbox.status = "active" /\ mailbox.version \in Nat /\ minted \in 0 .. MaxSecret
        BY <1>1 DEF IInv, IntentOK, MailboxTypeOK, MailboxRow
      <3>2. trans.to \in Secrets /\ trans.to <= minted /\ trans.version = mailbox.version + 1 /\ trans.version <= minted
        BY <1>1, <1>2 DEF IInv, IntentOK, Intent
      <3>3. trans.version \in 1 .. MaxSecret
        BY <1>1, <3>1, <3>2 DEF Intent
      <3> QED
        BY <3>1, <3>2, <3>3 DEF Secrets
    <2>3. mailbox' \in MailboxRow /\ mailbox'.status = "active" /\ mailbox'.hash = trans.to
          /\ mailbox'.version = trans.version /\ mailbox' # Absent
      <3>1. mailbox' = [status |-> "active", hash |-> trans.to, version |-> trans.version]
        BY <1>1, <2>1, <2>2 DEF Replaced, MailboxRow
      <3> QED
        BY <2>2, <3>1 DEF MailboxRow, Absent, Secrets
    <2>4. RowOK' /\ BindingAgrees'
      BY <1>2, <2>2, <2>3 DEF RowOK, BindingAgrees, Proves, Done
    <2> QED
      BY <1>1, <2>1, <2>3, <2>4, Attachments DEF IInv, Replaced, OneIncarnation, Active
  <1>3. CASE Done /\ trans.op = "revoke"
    <2>1. Retired
      BY <1>3 DEF Settle
    <2> QED
      BY <1>1, <1>3, <2>1, Attachments
      DEF IInv, Retired, MailboxRow, RowOK, IntentOK, BindingAgrees, OneIncarnation, Active, Proves, Done, Absent, Secrets
  <1>4. CASE Undone /\ trans.op = "create"
    <2>1. Aborted
      BY <1>4 DEF Settle, Undone
    <2>2. file = Nothing
      BY <1>4 DEF IInv, IntentOK, Undone, Done
    <2> QED
      BY <1>1, <2>1, <2>2 DEF Aborted, Absent, MailboxRow, RowOK, BindingAgrees, OneIncarnation, Active, Secrets
  <1>5. CASE (Done /\ trans.op = "create") \/ (Undone /\ trans.op # "create")
    <2>1. UNCHANGED <<mailbox, attach>>
      BY <1>5 DEF Settle, Undone
    <2>2. file = Nothing \/ file = mailbox.hash
      BY <1>1, <1>5 DEF IInv, IntentOK, Done, Undone
    <2> QED
      BY <1>1, <2>1, <2>2
      DEF IInv, MailboxTypeOK, RowOK, IntentOK, BindingAgrees, OneIncarnation, Active, Proves
  <1>6. Done \/ Undone
    BY DEF Settle, Settleable
  <1> QED
    BY <1>1, <1>2, <1>3, <1>4, <1>5, <1>6 DEF Intent

\* Every step preserves the invariant.
LEMMA StepPreserves == IInv /\ [MailboxNext]_mailboxVars => IInv'
  <1> SUFFICES ASSUME IInv, [MailboxNext]_mailboxVars PROVE IInv'
    OBVIOUS
  <1> USE MailboxAssumption
  <1>a. MailboxTypeOK /\ RowOK /\ IntentOK /\ BindingAgrees /\ SoleWriter /\ OneIncarnation
    BY DEF IInv
  <1>1. ASSUME NEW s \in Holders, NEW k \in Secrets, k <= minted + 1, register_agent_mailbox(s, k) PROVE IInv'
    <2>1. minted' \in 0 .. MaxSecret /\ minted' >= minted /\ mailbox' \in MailboxRow /\ mailbox' # Absent /\ RowOK'
          /\ (mailbox.status = "active" => mailbox' = mailbox /\ minted' = minted)
      BY <1>a, <1>1 DEF register_agent_mailbox, Absent, MailboxRow, RowOK, Secrets, MailboxTypeOK, Proves
    <2>2. MailboxTypeOK' /\ OneIncarnation'
      BY <1>a, <1>1, <2>1, Attachments DEF register_agent_mailbox, MailboxTypeOK, OneIncarnation, Active
    <2>3. IntentOK'
      BY <1>a, <1>1, <2>1 DEF register_agent_mailbox, IntentOK
    <2>4. BindingAgrees' /\ SoleWriter'
      BY <1>a, <1>1, <2>1 DEF register_agent_mailbox, BindingAgrees, SoleWriter, Proves, At
    <2> QED
      BY <2>1, <2>2, <2>3, <2>4 DEF IInv
  <1>2. ASSUME NEW s \in Holders,
               \/ \E k \in Secrets : resume_agent_mailbox(s, k)
               \/ renew_session_lease(s) \/ detach_session_mailbox(s)
               \/ Lapse(s) \/ sweep_stale_session_leases(s) \/ end_session(s)
        PROVE  IInv'
    <2>1. /\ UNCHANGED <<mailbox, trans, file, work, minted>>
          /\ life' \in [Holders -> {"live", "lapsed", "dormant", "ended"}]
          /\ \/ UNCHANGED attach \/ attach' = Detached(s)
             \/ attach' = Attached(s) /\ mailbox.status = "active"
      BY <1>a, <1>2 DEF resume_agent_mailbox, renew_session_lease, detach_session_mailbox, Lapse,
         sweep_stale_session_leases, end_session, MailboxTypeOK, Proves
    <2>2. MailboxTypeOK' /\ OneIncarnation'
      BY <1>a, <2>1, Attachments DEF MailboxTypeOK, OneIncarnation, Active, Absent
    <2> QED
      BY <1>a, <2>1, <2>2 DEF IInv, RowOK, IntentOK, BindingAgrees, SoleWriter, Proves, At
  <1>3. ASSUME NEW p \in Procs, NEW s \in Holders, create_managed_agent_mailbox(p, s) PROVE IInv'
    <2>1. /\ minted' = minted + 1 /\ minted' \in Secrets /\ minted \in Nat
          /\ mailbox' = [status |-> "active", hash |-> minted', version |-> 1]
          /\ file = Nothing /\ file' = file /\ trans = Nothing /\ work[p] = Nothing /\ life' = life
          /\ trans' = [op |-> "create", from |-> minted', to |-> minted', version |-> 1, session |-> s,
                       owner |-> p, alive |-> TRUE]
          /\ work' = [work EXCEPT ![p] = "prepared"] /\ attach' = Attached(s)
      BY <1>a, <1>3 DEF create_managed_agent_mailbox, Prepare, MailboxTypeOK
    <2>i. trans' \in Intent
      BY <2>1 DEF Intent, Secrets
    <2>4. SoleWriter' /\ work' \in [Procs -> Steps \cup {Nothing}] /\ trans' # Nothing
      BY <2>1, <2>i, Preparing
    <2>m. mailbox' \in MailboxRow /\ mailbox' # Absent /\ minted' \in 0 .. MaxSecret
      BY <2>1 DEF MailboxRow, Secrets, Absent
    <2>2. MailboxTypeOK' /\ OneIncarnation'
      BY <1>a, <2>1, <2>i, <2>m, <2>4, Attachments DEF MailboxTypeOK, OneIncarnation, Active
    <2>3. RowOK' /\ IntentOK' /\ BindingAgrees'
      BY <2>1, <2>4 DEF RowOK, IntentOK, BindingAgrees, Secrets, Absent, Partial
    <2> QED
      BY <2>2, <2>3, <2>4 DEF IInv
  <1>4. ASSUME NEW p \in Procs, NEW s \in Holders, NEW op \in {"rotate", "recover"}, ReplaceSecret(p, op, s),
               op = "rotate" => Proves(file), op = "recover" => file = Nothing
        PROVE  IInv'
    <2>1. /\ minted' = minted + 1 /\ minted' \in Secrets /\ minted \in Nat /\ mailbox.status = "active"
          /\ UNCHANGED <<mailbox, attach, file, life>> /\ trans = Nothing /\ work[p] = Nothing
          /\ trans' = [op |-> op, from |-> mailbox.hash, to |-> minted', version |-> mailbox.version + 1,
                       session |-> s, owner |-> p, alive |-> TRUE]
          /\ work' = [work EXCEPT ![p] = "prepared"]
      BY <1>a, <1>4 DEF ReplaceSecret, Prepare, MailboxTypeOK
    <2>2. mailbox.hash \in 1 .. minted /\ mailbox.version \in 1 .. minted
      BY <1>a, <2>1 DEF RowOK
    <2>i. trans' \in Intent
      BY <2>1, <2>2 DEF Intent, Secrets
    <2>5. SoleWriter' /\ work' \in [Procs -> Steps \cup {Nothing}] /\ trans' # Nothing
      BY <1>4, <2>1, <2>i, Preparing
    <2>3. MailboxTypeOK' /\ OneIncarnation' /\ RowOK'
      BY <1>a, <2>1, <2>2, <2>i, <2>5 DEF MailboxTypeOK, OneIncarnation, Active, Secrets, RowOK
    <2>4. IntentOK' /\ BindingAgrees'
      BY <1>4, <2>1, <2>2, <2>5 DEF IntentOK, BindingAgrees, Secrets, Proves, Partial
    <2> QED
      BY <2>3, <2>4, <2>5 DEF IInv
  <1>5. ASSUME NEW p \in Procs, NEW s \in Holders, revoke_managed_agent_mailbox_binding(p, s) PROVE IInv'
    <2>1. /\ UNCHANGED <<mailbox, attach, file, life, minted>> /\ trans = Nothing /\ work[p] = Nothing
          /\ trans' = [op |-> "revoke", from |-> mailbox.hash, to |-> Nothing, version |-> Nothing,
                       session |-> s, owner |-> p, alive |-> TRUE]
          /\ work' = [work EXCEPT ![p] = "prepared"] /\ file \in Secrets
      BY <1>5 DEF revoke_managed_agent_mailbox_binding, Prepare
    <2>2. mailbox.status = "active" /\ mailbox.hash = file
      BY <1>a, <2>1 DEF BindingAgrees, Proves, Secrets
    <2>i. trans' \in Intent
      BY <2>1, <2>2 DEF Intent, Secrets
    <2>5. SoleWriter' /\ work' \in [Procs -> Steps \cup {Nothing}] /\ trans' # Nothing
      BY <2>1, <2>i, Preparing
    <2>3. MailboxTypeOK' /\ OneIncarnation' /\ RowOK'
      BY <1>a, <2>1, <2>i, <2>5 DEF MailboxTypeOK, OneIncarnation, Active, RowOK
    <2>4. IntentOK' /\ BindingAgrees'
      BY <2>1, <2>2, <2>5 DEF IntentOK, BindingAgrees, Secrets, Partial
    <2> QED
      BY <2>3, <2>4, <2>5 DEF IInv
  <1>6. ASSUME NEW p \in Procs,
               \/ OpenBinding(p) \/ _create_managed_binding(p) \/ _replace_managed_binding(p) \/ unlink(p)
        PROVE  IInv'
    <2>1. /\ UNCHANGED Database /\ trans # Nothing /\ work[p] \in {"prepared", "opened"}
          /\ trans.owner = p /\ trans \in Intent
      BY <1>a, <1>6 DEF OpenBinding, _create_managed_binding, _replace_managed_binding, unlink, At, SoleWriter, MailboxTypeOK, Steps
    <2>2. \E v \in {Nothing, "opened", "settle"} :
            work' = [work EXCEPT ![p] = v] /\ (v = "opened" => file' = Partial)
      <3>1. CASE OpenBinding(p)
        BY <3>1 DEF OpenBinding, Step
      <3>2. CASE _create_managed_binding(p) \/ _replace_managed_binding(p)
        BY <3>2 DEF _create_managed_binding, _replace_managed_binding, Step
      <3>3. CASE unlink(p)
        BY <3>3 DEF unlink, Step, Steps
      <3> QED
        BY <1>6, <3>1, <3>2, <3>3
    <2>3. file' \in {Nothing, Partial, trans.from, trans.to}
          /\ (file' = Partial => trans.op \in {"create", "recover"})
      BY <1>a, <1>6, <2>1 DEF OpenBinding, _create_managed_binding, _replace_managed_binding, unlink, IntentOK,
         Intent, Secrets, Partial
    <2>4. MailboxTypeOK' /\ OneIncarnation' /\ RowOK'
      BY <1>a, <2>1, <2>2, <2>3 DEF MailboxTypeOK, OneIncarnation, Active, Intent, Secrets, RowOK, Database, Steps
    <2>5. IntentOK' /\ BindingAgrees'
      BY <1>a, <2>1, <2>3 DEF IntentOK, BindingAgrees, Database
    <2>6. SoleWriter'
      BY <1>a, <2>1, <2>2 DEF SoleWriter, At, MailboxTypeOK, Steps, Intent, Database
    <2> QED
      BY <2>4, <2>5, <2>6 DEF IInv
  <1>7. ASSUME NEW p \in Procs, SettleOwn(p) PROVE IInv'
    <2>1. /\ UNCHANGED <<file, life, minted>> /\ trans # Nothing /\ trans.owner = p /\ work[p] # Nothing
          /\ work' = [work EXCEPT ![p] = Nothing]
      BY <1>a, <1>7 DEF SettleOwn, At, Step, SoleWriter, Steps
    <2>2. CASE Settle
      <3>1. MailboxTypeOK' /\ RowOK' /\ BindingAgrees' /\ OneIncarnation' /\ trans' = Nothing
        BY <1>a, <2>1, <2>2, Settling DEF IInv, MailboxTypeOK
      <3>2. IntentOK' /\ SoleWriter'
        BY <1>a, <2>1, <3>1 DEF IntentOK, SoleWriter, MailboxTypeOK
      <3> QED
        BY <3>1, <3>2 DEF IInv
    <2>3. CASE UNCHANGED <<mailbox, attach, trans>>
      <3>1. MailboxTypeOK' /\ RowOK' /\ BindingAgrees' /\ OneIncarnation' /\ IntentOK'
        BY <1>a, <2>1, <2>3 DEF MailboxTypeOK, RowOK, BindingAgrees, OneIncarnation, IntentOK, Active
      <3>2. SoleWriter'
        BY <1>a, <2>1, <2>3 DEF SoleWriter, MailboxTypeOK, At
      <3> QED
        BY <3>1, <3>2 DEF IInv
    <2> QED
      BY <1>7, <2>2, <2>3 DEF SettleOwn
  <1>8. ASSUME reconcile_managed_mailbox_bindings PROVE IInv'
    <2>1. UNCHANGED <<file, life, work, minted>> /\ trans # Nothing /\ ~trans.alive /\ Settle
      BY <1>8 DEF reconcile_managed_mailbox_bindings
    <2>2. MailboxTypeOK' /\ RowOK' /\ BindingAgrees' /\ OneIncarnation' /\ trans' = Nothing
      BY <1>a, <2>1, Settling DEF IInv, MailboxTypeOK
    <2>3. IntentOK' /\ SoleWriter'
      BY <1>a, <2>1, <2>2 DEF IntentOK, SoleWriter
    <2> QED
      BY <2>2, <2>3 DEF IInv
  <1>9. ASSUME NEW p \in Procs, Crash(p) PROVE IInv'
    <2>1. /\ UNCHANGED <<mailbox, attach, file, life, minted>> /\ work' = [work EXCEPT ![p] = Nothing]
          /\ \/ trans' = trans /\ (trans # Nothing => trans.owner # p)
             \/ trans # Nothing /\ trans.owner = p /\ trans' = [trans EXCEPT !.alive = FALSE]
      BY <1>9 DEF Crash
    <2>2. MailboxTypeOK' /\ RowOK' /\ OneIncarnation'
      BY <1>a, <2>1 DEF MailboxTypeOK, RowOK, OneIncarnation, Active, Intent
    <2>i. trans # Nothing => trans \in Intent /\ trans' \in Intent /\ trans' # Nothing
      <3>1. trans # Nothing => trans \in Intent /\ trans' \in Intent
        BY <1>a, <2>1 DEF MailboxTypeOK, Intent
      <3> QED
        BY <3>1
    <2>3. IntentOK' /\ BindingAgrees'
      BY <1>a, <2>1, <2>i DEF IntentOK, BindingAgrees, Proves, Intent
    <2>4. SoleWriter'
      BY <1>a, <2>1 DEF SoleWriter, MailboxTypeOK, At
    <2> QED
      BY <2>2, <2>3, <2>4 DEF IInv
  <1>10. CASE FileLost
    <2>1. file' = Nothing /\ UNCHANGED <<mailbox, attach, trans, life, work, minted>>
          /\ \A p \in Procs : work[p] # "opened"
      BY <1>10 DEF FileLost, At
    <2>2. MailboxTypeOK' /\ RowOK' /\ OneIncarnation' /\ BindingAgrees' /\ SoleWriter'
      BY <1>a, <2>1 DEF MailboxTypeOK, RowOK, OneIncarnation, Active, BindingAgrees, SoleWriter, At
    <2>3. IntentOK'
      BY <1>a, <2>1 DEF IntentOK, Partial
    <2> QED
      BY <2>2, <2>3 DEF IInv
  <1>11. CASE UNCHANGED mailboxVars
    BY <1>a, <1>11 DEF mailboxVars, IInv, MailboxTypeOK, RowOK, IntentOK, BindingAgrees, SoleWriter, OneIncarnation, Active, Proves, At
  <1>12. CASE MailboxNext
    <2>1. ASSUME NEW s \in Holders, NEW k \in 1 .. minted + 1, k \in Secrets,
                 register_agent_mailbox(s, k) \/ resume_agent_mailbox(s, k)
          PROVE  IInv'
      <3>1. k <= minted + 1
        BY <1>a DEF MailboxTypeOK
      <3> QED
        BY <1>1, <1>2, <2>1, <3>1
    <2>2. ASSUME NEW p \in Procs, NEW s \in Holders,
                 \/ create_managed_agent_mailbox(p, s) \/ rotate_managed_agent_mailbox_binding(p, s)
                 \/ recover_managed_agent_mailbox_binding(p, s) \/ revoke_managed_agent_mailbox_binding(p, s)
          PROVE  IInv'
      BY <1>3, <1>4, <1>5, <2>2 DEF rotate_managed_agent_mailbox_binding, recover_managed_agent_mailbox_binding
    <2> QED
      BY <1>2, <1>6, <1>7, <1>8, <1>9, <1>10, <1>12, <2>1, <2>2 DEF MailboxNext
  <1> QED
    BY <1>11, <1>12

\* The invariant holds in every reachable state.
THEOREM Invariance == MailboxSpec => []IInv
  BY InitEstablishes, StepPreserves, PTL DEF MailboxSpec

\* An active mailbox gets another secret exactly with its next version, though both were
\* chosen when the intent was committed.
LEMMA VersionedSteps ==
    ASSUME IInv, [MailboxNext]_mailboxVars
    PROVE  VersionNamesSecret
  <1> DEFINE Same == mailbox'.hash = mailbox.hash /\ mailbox'.version = mailbox.version
             Versioned == mailbox.status = "active" /\ mailbox'.status # "absent" =>
                Same \/ (mailbox'.hash # mailbox.hash /\ mailbox'.version = mailbox.version + 1)
  <1>1. ASSUME IInv, Settle, trans # Nothing PROVE Versioned
    <2>1. trans \in Intent /\ mailbox \in MailboxRow
      BY <1>1 DEF IInv, MailboxTypeOK
    <2>2. CASE Done /\ trans.op \in {"rotate", "recover"}
      <3>1. mailbox' = [mailbox EXCEPT !.hash = trans.to, !.version = trans.version]
        BY <1>1, <2>2 DEF Settle, Replaced
      <3>2. trans.to # mailbox.hash /\ trans.version = mailbox.version + 1
        BY <1>1, <2>2 DEF IInv, IntentOK
      <3> QED
        BY <2>1, <3>1, <3>2 DEF MailboxRow
    <2>3. CASE Done /\ trans.op = "revoke"
      BY <1>1, <2>1, <2>3 DEF Settle, Retired, MailboxRow
    <2>4. CASE Undone /\ trans.op = "create"
      BY <1>1, <2>4 DEF Settle, Undone, Aborted, Absent
    <2>5. CASE (Done /\ trans.op = "create") \/ (Undone /\ trans.op # "create")
      BY <1>1, <2>5 DEF Settle, Undone
    <2> QED
      BY <1>1, <2>1, <2>2, <2>3, <2>4, <2>5 DEF Settle, Settleable, Intent
  <1>2. CASE UNCHANGED mailboxVars
    BY <1>2 DEF mailboxVars, VersionNamesSecret
  <1>3. ASSUME MailboxNext PROVE Versioned
    <2>1. ASSUME NEW p \in Procs, SettleOwn(p) PROVE Versioned
      <3>1. trans # Nothing
        BY <2>1, MailboxAssumption DEF SettleOwn, IInv, SoleWriter, At, Steps
      <3> QED
        BY <1>1, <2>1, <3>1 DEF SettleOwn
    <2>2. ASSUME reconcile_managed_mailbox_bindings PROVE Versioned
      BY <1>1, <2>2 DEF reconcile_managed_mailbox_bindings
    <2>3. ASSUME NEW s \in Holders, NEW k, register_agent_mailbox(s, k) PROVE Versioned
      BY <2>3 DEF register_agent_mailbox, Absent
    <2>4. ASSUME NEW p \in Procs, NEW s \in Holders, create_managed_agent_mailbox(p, s) PROVE Versioned
      BY <2>4 DEF create_managed_agent_mailbox, Absent
    <2>5. ASSUME UNCHANGED mailbox PROVE Versioned
      BY <2>5
    <2> HIDE DEF Versioned
    <2> QED
      BY <1>3, <2>1, <2>2, <2>3, <2>4, <2>5
      DEF MailboxNext, resume_agent_mailbox, renew_session_lease, detach_session_mailbox, Lapse, sweep_stale_session_leases,
          end_session, rotate_managed_agent_mailbox_binding, recover_managed_agent_mailbox_binding, ReplaceSecret,
          revoke_managed_agent_mailbox_binding, OpenBinding, _create_managed_binding, _replace_managed_binding,
          unlink, Crash, FileLost, Database
  <1> QED
    BY <1>2, <1>3 DEF VersionNamesSecret

\* The same of every behaviour.
THEOREM VersionsNameSecrets == MailboxSpec => [][VersionNamesSecret]_mailboxVars
  <1>1. IInv /\ [MailboxNext]_mailboxVars => [VersionNamesSecret]_mailboxVars
    BY VersionedSteps
  <1> QED
    BY <1>1, Invariance, PTL DEF MailboxSpec

\* The rows, the intent and the file keep their types, and no attachment outlives its
\* mailbox.
THEOREM TypeCorrect == MailboxSpec => []MailboxTypeOK
  BY Invariance, PTL DEF IInv

\* Whenever no operation is open the binding file proves the mailbox, whatever process
\* died at whatever step.
THEOREM FileProvesMailbox == MailboxSpec => []BindingAgrees
  BY Invariance, PTL DEF IInv

\* Only the process that committed the open intent writes the file.
THEOREM OneWriter == MailboxSpec => []SoleWriter
  BY Invariance, PTL DEF IInv

\* At most one Session incarnation is attached.
THEOREM OneAttachment == MailboxSpec => []OneIncarnation
  BY Invariance, PTL DEF IInv

\* File, intent and attachments agree, wherever a process died.
THEOREM MailboxBound == MailboxSpec => []MailboxIsBound
  BY Invariance, PTL DEF IInv, MailboxIsBound
\* _require_attachment_transition_available: no reachable Session loses the mailbox to
\* another one.
LEMMA NobodyTakesOver ==
    ASSUME IInv, [MailboxNext]_mailboxVars
    PROVE  NoTakeover
  <1>a. MailboxTypeOK /\ OneIncarnation /\ SoleWriter
    BY DEF IInv
  <1>1. ASSUME UNCHANGED attach PROVE NoTakeover
    BY <1>1 DEF NoTakeover, Active
  <1>2. ASSUME NEW s \in Holders, attach' = Attached(s), MayAttach(s) \/ mailbox = Absent PROVE NoTakeover
    BY <1>a, <1>2 DEF NoTakeover, Active, Attached, MayAttach, MailboxTypeOK
  <1>3. ASSUME NEW s \in Holders, attach' = Detached(s) PROVE NoTakeover
    <2>1. ASSUME NEW x \in Active, attach'[x] # "active" PROVE Active' = {}
      <3>1. x = s /\ \A o \in Holders : attach[o] = "active" => o = s
        BY <1>3, <1>a, <2>1 DEF Active, Detached, MailboxTypeOK, OneIncarnation
      <3>2. \A o \in Holders : attach'[o] # "active"
        BY <1>3, <1>a, <3>1 DEF Detached, MailboxTypeOK
      <3> QED BY <3>2 DEF Active
    <2> QED BY <2>1 DEF NoTakeover
  <1>4. ASSUME Settle, trans # Nothing PROVE NoTakeover
    <2>1. trans \in Intent
      BY <1>a, <1>4 DEF MailboxTypeOK
    <2>2. trans.session \in Holders
      BY <2>1 DEF Intent
    <2>3. CASE Done /\ trans.op \in {"rotate", "recover"}
      <3>1. MayAttach(trans.session) /\ attach' = Attached(trans.session)
        BY <1>4, <2>3 DEF Settle, Settleable, MayGoOn, Undone, Replaced
      <3> QED BY <1>2, <2>2, <3>1
    <2>4. CASE Done /\ trans.op = "revoke"
      BY <1>3, <1>4, <2>2, <2>4 DEF Settle, Retired
    <2>5. CASE Undone /\ trans.op = "create"
      BY <1>4, <2>5 DEF Settle, Undone, Aborted, NoTakeover, Active
    <2>6. CASE (Done /\ trans.op = "create") \/ (Undone /\ trans.op # "create")
      BY <1>1, <1>4, <2>6 DEF Settle, Undone
    <2> QED
      BY <1>4, <2>1, <2>3, <2>4, <2>5, <2>6 DEF Settle, Settleable, Intent
  <1>5. ASSUME NEW p \in Procs, SettleOwn(p) PROVE NoTakeover
    <2>1. trans # Nothing
      BY <1>a, <1>5, MailboxAssumption DEF SettleOwn, SoleWriter, At, Steps
    <2> QED
      BY <1>1, <1>4, <1>5, <2>1 DEF SettleOwn
  <1>6. ASSUME NEW s \in Holders, NEW k, register_agent_mailbox(s, k) \/ resume_agent_mailbox(s, k) PROVE NoTakeover
    BY <1>2, <1>6 DEF register_agent_mailbox, resume_agent_mailbox
  <1>7. ASSUME NEW p \in Procs, NEW s \in Holders,
               \/ create_managed_agent_mailbox(p, s) \/ rotate_managed_agent_mailbox_binding(p, s)
               \/ recover_managed_agent_mailbox_binding(p, s) \/ revoke_managed_agent_mailbox_binding(p, s)
        PROVE  NoTakeover
    BY <1>1, <1>2, <1>7
    DEF create_managed_agent_mailbox, rotate_managed_agent_mailbox_binding, recover_managed_agent_mailbox_binding,
        ReplaceSecret, revoke_managed_agent_mailbox_binding
  <1>8. ASSUME NEW s \in Holders,
               detach_session_mailbox(s) \/ sweep_stale_session_leases(s) \/ end_session(s) \/ renew_session_lease(s) \/ Lapse(s)
        PROVE  NoTakeover
    BY <1>1, <1>3, <1>8 DEF detach_session_mailbox, sweep_stale_session_leases, end_session, renew_session_lease, Lapse
  <1>9. ASSUME NEW p \in Procs,
               OpenBinding(p) \/ _create_managed_binding(p) \/ _replace_managed_binding(p) \/ unlink(p) \/ Crash(p)
        PROVE  NoTakeover
    BY <1>1, <1>9 DEF OpenBinding, _create_managed_binding, _replace_managed_binding, unlink, Crash, Database
  <1>10. CASE FileLost \/ UNCHANGED mailboxVars
    BY <1>1, <1>10 DEF FileLost, mailboxVars
  <1>11. CASE reconcile_managed_mailbox_bindings
    BY <1>4, <1>11 DEF reconcile_managed_mailbox_bindings
  <1> QED
    BY <1>5, <1>6, <1>7, <1>8, <1>9, <1>10, <1>11 DEF MailboxNext

\* Whoever registers, resumes, rotates or recovers, and whichever reconciliation settles for a
\* Session that asked long ago: a reachable incarnation keeps its mailbox.
THEOREM ReachableKeepsMailbox == MailboxSpec => [][NoTakeover]_mailboxVars
  <1>1. IInv /\ [MailboxNext]_mailboxVars => [NoTakeover]_mailboxVars
    BY NobodyTakesOver
  <1> QED
    BY <1>1, Invariance, PTL DEF MailboxSpec

-----------------------------------------------------------------------------
(* The inbox.  A client's floor never passes the inbox, and what is queued  *)
(* or below the floor follows from who has read it.                         *)

NatLess == OpToRel(<, Nat)

\* Any non-empty set of numbers has a least member.
LEMMA LeastIsOne ==
    ASSUME NEW T, T \subseteq Nat, T # {}
    PROVE  \E x \in T : \A y \in T : x <= y
<1>1. IsWellFoundedOn(NatLess, Nat)
  BY NatLessThanWellFounded DEF NatLess
<1>2. NatLess = {ss \in Nat \X Nat : ss[1] < ss[2]}
  BY DEF NatLess, OpToRel
<1>3. PICK x \in T : \A y \in T : ~(<<y, x>> \in NatLess)
  BY <1>1, WFMin
<1>4. \A y \in T : ~(y < x)
  BY <1>2, <1>3
<1> QED BY <1>4

\* A bounded set of integers has a greatest one.
LEMMA GreatestIsOne ==
    ASSUME NEW S, S # {}, NEW b \in Int, S \subseteq -1 .. b
    PROVE  Greatest(S) \in S /\ \A k \in S : k <= Greatest(S)
<1> DEFINE T == {b - n : n \in S}
<1>1. \A n \in S : n \in Int /\ b - n \in Nat
  OBVIOUS
<1>2. T \subseteq Nat
  BY <1>1
<1>3. T # {}
  OBVIOUS
<1>4. \A n \in S : b - n \in T
  OBVIOUS
<1>5. PICK x \in T : \A y \in T : x <= y
  <2> HIDE DEF T
  <2> QED BY <1>2, <1>3, LeastIsOne
<1>6. PICK m \in S : x = b - m
  OBVIOUS
<1>7. ASSUME NEW k \in S PROVE k <= m
  <2>1. x <= b - k
    BY <1>4, <1>5
  <2> QED BY <1>1, <1>6, <2>1
<1> QED BY <1>7 DEF Greatest

MailInv == MailIsAccounted /\ floor <= Len(inbox)

Mail == [op : STRING, thread : STRING, reader : Reader]

\* Names of what the invariant says of the inbox.
LEMMA InboxFacts ==
    ASSUME MailInv
    PROVE  /\ inbox \in Seq(Mail) /\ Len(inbox) \in Nat /\ Len(inbox) <= MaxInbox /\ MaxInbox \in Nat
           /\ DOMAIN inbox = 1 .. Len(inbox) /\ Arrived \subseteq Ids /\ Arrived = DOMAIN inbox
           /\ \A d \in Arrived : inbox[d] \in Mail /\ d \in Nat
<1>1. inbox \in Seq(Mail) /\ Len(inbox) <= MaxInbox /\ MaxInbox \in Nat
  BY MailAssumption DEF MailInv, MailIsAccounted, MailTypeOK, Mail
<1>2. Len(inbox) \in Nat /\ DOMAIN inbox = 1 .. Len(inbox) /\ \A d \in 1 .. Len(inbox) : inbox[d] \in Mail
  BY <1>1
<1>3. Arrived = DOMAIN inbox /\ Arrived \subseteq Ids
  BY <1>1, <1>2 DEF Arrived, Ids
<1> QED BY <1>1, <1>2, <1>3 DEF Arrived

\* What a step keeps and may not do.
MailStep == MailInv' /\ FirstReadStands /\ OutcomeStands

Nudges == [Ids -> [Incarnations -> Nudge]]
Final(n) == n.status \in {"delivered", "failed"}

\* A change of the attempts opens none that is closed, and none for mail that was read.
NudgesMove(n, n2) ==
    \A d \in Ids, s \in Incarnations :
       n2[d][s] = n[d][s] \/ (~Final(n[d][s]) /\ (n2[d][s].status = "queued" => Unread(d)))

\* Attempts that are queued, failed or settled keep their type.
LEMMA NudgesTyped ==
    /\ NoAttempt \in Nudge /\ Queued \in Nudge /\ Queued.status = "queued"
    /\ \A o \in {"delivered", "failed"} : Closed(o) \in Nudge /\ Closed(o).status = o
BY MailAssumption DEF Nudge, NoAttempt, Queued, Closed

\* The attempts that unread mail gets.
LEMMA QueueingMoves ==
    ASSUME NEW n \in Nudges, NEW ds, NEW s \in Incarnations, \A d \in ds : Unread(d)
    PROVE  WithQueued(n, ds, s) \in Nudges /\ NudgesMove(n, WithQueued(n, ds, s))
<1> DEFINE n2 == WithQueued(n, ds, s)
<1>1. \A d \in Ids, o \in Incarnations : n[d][o] \in Nudge
  BY DEF Nudges
<1>2. \A d \in Ids, o \in Incarnations :
         n2[d][o] = IF d \in ds /\ o = s /\ n[d][o].status = "none" THEN Queued ELSE n[d][o]
  BY DEF WithQueued
<1>3. n2 = [d \in Ids |-> [o \in Incarnations |-> n2[d][o]]]
  BY DEF WithQueued
<1> HIDE DEF n2
<1>4. \A d \in Ids, o \in Incarnations : n2[d][o] \in Nudge
  BY <1>1, <1>2, NudgesTyped
<1>5. n2 \in Nudges
  BY <1>3, <1>4 DEF Nudges
<1>6. NudgesMove(n, n2)
  BY <1>2 DEF NudgesMove, Final
<1> QED BY <1>5, <1>6 DEF n2

\* The attempts of an attachment that gives its slot up.
LEMMA FailingMoves ==
    ASSUME NEW n \in Nudges, NEW s \in Incarnations, NEW sts, sts \subseteq {"queued", "claimed"}
    PROVE  WithFailed(n, s, sts) \in Nudges /\ NudgesMove(n, WithFailed(n, s, sts))
<1> DEFINE n2 == WithFailed(n, s, sts)
<1>1. \A d \in Ids, o \in Incarnations : n[d][o] \in Nudge
  BY DEF Nudges
<1>2. \A d \in Ids, o \in Incarnations :
         n2[d][o] = IF o = s /\ n[d][o].status \in sts THEN Closed("failed") ELSE n[d][o]
  BY DEF WithFailed
<1>3. n2 = [d \in Ids |-> [o \in Incarnations |-> n2[d][o]]]
  BY DEF WithFailed
<1> HIDE DEF n2
<1>4. \A d \in Ids, o \in Incarnations : n2[d][o] \in Nudge
  BY <1>1, <1>2, NudgesTyped
<1>5. n2 \in Nudges
  BY <1>3, <1>4 DEF Nudges
<1>6. NudgesMove(n, n2)
  BY <1>2, NudgesTyped DEF NudgesMove, Final
<1> QED BY <1>5, <1>6 DEF n2

\* One change of the attempts after another.
LEMMA MovesCompose ==
    ASSUME NEW n, NEW n2, NEW n3, NudgesMove(n, n2), NudgesMove(n2, n3)
    PROVE  NudgesMove(n, n3)
BY DEF NudgesMove

\* A step that leaves the mail itself alone.
LEMMA NudgesKeep ==
    ASSUME MailInv, note' \in Nudges, NudgesMove(note, note'), UNCHANGED <<inbox, floor, shown>>,
           slot' \in Incarnations \cup {Nobody}, reachable' \in BOOLEAN, mode' \in {"pull", "notify"},
           cursor' \in [Incarnations -> -1 .. MaxInbox], sending' \in [Humans -> Requests \cup {Nobody}]
    PROVE  MailStep
<1>1. MailTypeOK'
  BY DEF MailInv, MailIsAccounted, MailTypeOK, Nudges
<1>2. UNCHANGED Arrived /\ \A d \in Ids : Unread(d)' = Unread(d)
  BY DEF Arrived, Unread
<1>3. AcceptedOnce' /\ NothingBehindTheFloor' /\ FirstReadStands
  BY <1>2 DEF MailInv, MailIsAccounted, AcceptedOnce, NothingBehindTheFloor, FirstReadStands, Arrived, Unread
<1>4. QueuedIsUnread'
  BY <1>2 DEF MailInv, MailIsAccounted, QueuedIsUnread, NudgesMove
<1>5. OutcomeStands
  BY DEF NudgesMove, OutcomeStands, Final
<1> QED BY <1>1, <1>3, <1>4, <1>5 DEF MailStep, MailInv, MailIsAccounted

\* A delivery that is inserted.
LEMMA InsertKeeps ==
    ASSUME MailInv, NEW r \in Requests, Insert(r), sending' \in [Humans -> Requests \cup {Nobody}]
    PROVE  MailStep
<1>e. PICK e : e = Len(inbox) + 1
  OBVIOUS
<1> DEFINE new == [op |-> r.op, thread |-> r.thread, reader |-> Nobody]
<1>1. /\ inbox \in Seq(Mail) /\ Len(inbox) \in Nat /\ DOMAIN inbox = 1 .. Len(inbox) /\ Arrived = DOMAIN inbox
      /\ MaxInbox \in Nat
  BY InboxFacts
<1>2. /\ e \in Ids /\ inbox' = Append(inbox, new) /\ \A d \in Arrived : inbox[d].op # r.op
      /\ UNCHANGED <<slot, reachable, cursor, mode, floor, shown>>
  BY <1>e DEF Insert, New, Holder
<1>3. note' = IF Notifies THEN WithQueued(note, {e}, slot) ELSE note
  BY <1>e DEF Insert
<1>4. r \in [op : STRING, thread : STRING] /\ new \in Mail /\ new.op = r.op /\ new.reader = Nobody
  BY MailAssumption DEF Mail, Reader
<1> HIDE DEF new
<1>5. /\ inbox' \in Seq(Mail) /\ Len(inbox') = e /\ DOMAIN inbox' = 1 .. e /\ inbox'[e] = new
      /\ \A d \in 1 .. Len(inbox) : inbox'[d] = inbox[d]
  BY <1>1, <1>2, <1>4, <1>e, AppendProperties
<1>6. Arrived' = 1 .. e /\ Arrived = 1 .. Len(inbox) /\ Arrived' = Arrived \cup {e} /\ e \notin Arrived
  BY <1>1, <1>5, <1>e DEF Arrived
<1>7. \A d \in Arrived : inbox'[d] = inbox[d]
  BY <1>5, <1>6
<1>8. Unread(e)' /\ \A d \in Arrived : Unread(d)' <=> Unread(d)
  <2>1. Unread(e)'
    BY <1>4, <1>5, <1>6 DEF Unread
  <2>2. ASSUME NEW d \in Arrived PROVE Unread(d)' <=> Unread(d)
    BY <1>6, <1>7 DEF Unread
  <2> QED BY <2>1, <2>2
<1>9. note \in Nudges
  BY DEF MailInv, MailIsAccounted, MailTypeOK, Nudges
<1>10. \A d \in Ids, s \in Incarnations :
          note'[d][s] = note[d][s] \/ (note[d][s].status = "none" /\ d = e /\ note'[d][s] = Queued)
  BY <1>3 DEF WithQueued
<1>11. note' \in Nudges
  <2>1. CASE Notifies
    <3>1. \A d \in Ids, s \in Incarnations : note'[d][s] \in Nudge
      BY <1>9, <1>10, NudgesTyped DEF Nudges
    <3>2. note' = [d \in Ids |-> [s \in Incarnations |-> note'[d][s]]]
      BY <1>3, <2>1 DEF WithQueued
    <3> QED BY <3>1, <3>2 DEF Nudges
  <2> QED BY <1>3, <1>9, <2>1
<1>12. MailTypeOK'
  BY <1>1, <1>2, <1>5, <1>11 DEF MailInv, MailIsAccounted, MailTypeOK, Nudges, Mail, Ids
<1>13. AcceptedOnce'
  BY <1>2, <1>4, <1>5, <1>6, <1>7 DEF MailInv, MailIsAccounted, AcceptedOnce
<1>14. NothingBehindTheFloor' /\ floor' <= Len(inbox')
  <2>1. floor \in Nat /\ floor <= Len(inbox) /\ floor' = floor /\ shown' = shown
    BY <1>2 DEF MailInv, MailIsAccounted, MailTypeOK
  <2>2. \A d \in 1 .. floor : d \in Arrived /\ (d \in shown \/ ~Unread(d))
    BY <1>1, <1>6, <2>1 DEF MailInv, MailIsAccounted, NothingBehindTheFloor
  <2>3. \A d \in 1 .. floor : d \in shown \/ ~Unread(d)'
    BY <1>8, <2>2
  <2>4. floor' <= Len(inbox')
    BY <1>1, <1>5, <1>e, <2>1
  <2> QED BY <2>1, <2>3, <2>4 DEF NothingBehindTheFloor
<1>15. QueuedIsUnread'
  <2>1. ASSUME NEW d \in Ids, NEW s \in Incarnations, note'[d][s].status = "queued" PROVE Unread(d)'
    <3>1. CASE d = e
      BY <1>8, <3>1
    <3>2. CASE d # e
      <4>1. note[d][s].status = "queued"
        BY <1>10, <2>1, <3>2
      <4>2. Unread(d) /\ d \in Arrived
        BY <4>1 DEF MailInv, MailIsAccounted, QueuedIsUnread, Unread
      <4> QED BY <1>8, <4>2
    <3> QED BY <3>1, <3>2
  <2> QED BY <2>1 DEF QueuedIsUnread
<1>16. FirstReadStands
  BY <1>1, <1>5, <1>6, <1>7 DEF FirstReadStands
<1>17. OutcomeStands
  BY <1>10 DEF OutcomeStands
<1> QED BY <1>12, <1>13, <1>14, <1>15, <1>16, <1>17 DEF MailStep, MailInv, MailIsAccounted

\* A read by anyone.
LEMMA ConsumeKeeps ==
    ASSUME MailInv, NEW ds, ds \subseteq Arrived, NEW who \in Incarnations \cup Humans, Consume(ds, who),
           cursor' \in [Incarnations -> -1 .. MaxInbox]
    PROVE  MailStep
<1>1. /\ inbox \in Seq(Mail) /\ Len(inbox) \in Nat /\ Len(inbox) <= MaxInbox /\ Arrived = 1 .. Len(inbox)
      /\ Arrived \subseteq Ids /\ \A d \in Arrived : inbox[d] \in Mail
  BY InboxFacts
<1>2. who # Nobody /\ who \in Reader
  BY MailAssumption DEF Reader
<1>3. \A d \in Arrived : inbox'[d] = IF d \in ds /\ Unread(d) THEN [inbox[d] EXCEPT !.reader = who] ELSE inbox[d]
  BY DEF Consume, Marked
<1>4. inbox' \in Seq(Mail) /\ Len(inbox') = Len(inbox) /\ Arrived' = Arrived
  <2>1. \A d \in 1 .. Len(inbox) : inbox'[d] \in Mail
    BY <1>1, <1>2, <1>3 DEF Mail
  <2>2. inbox' = [d \in 1 .. Len(inbox) |-> inbox'[d]]
    BY <1>1 DEF Consume, Marked
  <2>3. inbox' \in Seq(Mail) /\ Len(inbox') = Len(inbox)
    BY <1>1, <2>1, <2>2
  <2> QED BY <2>3 DEF Arrived
<1>5. \A d \in Arrived : /\ inbox'[d].op = inbox[d].op /\ inbox'[d].thread = inbox[d].thread
                         /\ ~Unread(d) => inbox'[d] = inbox[d]
  BY <1>1, <1>3 DEF Mail
<1>6. \A d \in Arrived : Unread(d)' <=> Unread(d) /\ d \notin ds
  BY <1>1, <1>2, <1>3, <1>4 DEF Unread, Mail
<1>7. note \in Nudges
  BY DEF MailInv, MailIsAccounted, MailTypeOK, Nudges
<1>8. \A d \in Ids, s \in Incarnations :
         note'[d][s] = IF d \in ds /\ note[d][s].status = "queued" THEN Closed("failed") ELSE note[d][s]
  BY DEF Consume, SettledByRead
<1>9. note' \in Nudges
  <2>1. \A d \in Ids, s \in Incarnations : note'[d][s] \in Nudge
    BY <1>7, <1>8, NudgesTyped DEF Nudges
  <2>2. note' = [d \in Ids |-> [s \in Incarnations |-> note'[d][s]]]
    BY DEF Consume, SettledByRead
  <2> QED BY <2>1, <2>2 DEF Nudges
<1>10. UNCHANGED <<slot, reachable, mode, sending, floor, shown>>
  BY DEF Consume
<1>11. MailTypeOK'
  BY <1>1, <1>4, <1>9, <1>10 DEF MailInv, MailIsAccounted, MailTypeOK, Nudges, Mail
<1>12. AcceptedOnce'
  BY <1>4, <1>5 DEF MailInv, MailIsAccounted, AcceptedOnce
<1>13. NothingBehindTheFloor' /\ floor' <= Len(inbox')
  <2>1. floor \in Nat /\ floor <= Len(inbox) /\ floor' = floor /\ shown' = shown
    BY <1>10 DEF MailInv, MailIsAccounted, MailTypeOK
  <2>2. \A d \in 1 .. floor : d \in Arrived /\ (d \in shown \/ ~Unread(d))
    BY <1>1, <2>1 DEF MailInv, MailIsAccounted, NothingBehindTheFloor
  <2> QED BY <1>4, <1>6, <1>10, <2>1, <2>2 DEF NothingBehindTheFloor
<1>14. QueuedIsUnread'
  <2>1. ASSUME NEW d \in Ids, NEW s \in Incarnations, note'[d][s].status = "queued" PROVE Unread(d)'
    <3>1. ~(d \in ds /\ note[d][s].status = "queued") /\ note'[d][s] = note[d][s]
      BY <1>8, <2>1, NudgesTyped
    <3>2. Unread(d) /\ d \in Arrived
      BY <2>1, <3>1 DEF MailInv, MailIsAccounted, QueuedIsUnread, Unread
    <3> QED BY <1>6, <2>1, <3>1, <3>2
  <2> QED BY <2>1 DEF QueuedIsUnread
<1>15. FirstReadStands
  BY <1>1, <1>4, <1>5 DEF FirstReadStands
<1>16. OutcomeStands
  BY <1>8 DEF OutcomeStands
<1> QED BY <1>11, <1>12, <1>13, <1>14, <1>15, <1>16 DEF MailStep, MailInv, MailIsAccounted

\* What was unread and lies below a page's newest is on the page.
LEMMA BatchIsClosed ==
    ASSUME NEW ds, ds \subseteq 1 .. Len(inbox), Len(inbox) \in Nat, NEW n \in Nat,
           NEW f \in Batch(ds, n), NEW d \in ds, d <= f
    PROVE  d \in Batch(ds, n)
<1> DEFINE Below(k) == {e \in ds : e < k}
<1>1. IsFiniteSet(1 .. Len(inbox))
  BY FS_Interval
<1>2. f \in ds /\ Cardinality(Below(f)) < n
  BY DEF Batch, Lowest
<1>3. Below(f) \subseteq 1 .. Len(inbox) /\ Below(d) \subseteq Below(f)
  <2>1. f \in Int /\ d \in Int /\ \A e \in ds : e \in Int
    BY <1>2
  <2>2. \A e \in ds : e < d => e < f
    BY <2>1
  <2> QED BY <2>1, <2>2
<1> HIDE DEF Below
<1>4. IsFiniteSet(Below(f))
  BY <1>1, <1>3, FS_Subset
<1>5. Cardinality(Below(d)) <= Cardinality(Below(f)) /\ IsFiniteSet(Below(d))
  BY <1>3, <1>4, FS_Subset
<1>6. Cardinality(Below(d)) \in Nat /\ Cardinality(Below(f)) \in Nat
  BY <1>4, <1>5, FS_CardinalityType
<1>7. Cardinality(Below(d)) < n
  BY <1>2, <1>5, <1>6
<1> QED BY <1>7 DEF Batch, Lowest, Below

\* A wait moves the client's floor to the newest it was given, and leaves none out below it.
LEMMA WaitKeeps ==
    ASSUME MailInv, NEW s \in Incarnations, NEW limit \in Limits, wait_mailbox(s, limit)
    PROVE  MailStep
<1> DEFINE new == {d \in UnreadIds : d > floor}
           ds == Batch(new, limit)
<1>1. /\ Len(inbox) \in Nat /\ Len(inbox) <= MaxInbox /\ MaxInbox \in Nat /\ Arrived = 1 .. Len(inbox) /\ Arrived \subseteq Ids
  BY InboxFacts DEF Arrived
<1>2. /\ ds # {} /\ floor' = Greatest(ds) /\ shown' = shown \cup ds
      /\ UNCHANGED <<inbox, slot, reachable, cursor, mode, note, sending>>
  BY DEF wait_mailbox
<1>3. new \subseteq 1 .. Len(inbox) /\ ds \subseteq new
  BY <1>1 DEF UnreadIds, Batch, Lowest
<1>b. ds \subseteq -1 .. Len(inbox) /\ Len(inbox) \in Int
  <2> HIDE DEF ds, new
  <2>1. \A d \in 1 .. Len(inbox) : d \in -1 .. Len(inbox)
    BY <1>1
  <2> QED BY <1>1, <1>3, <2>1
<1>g. Greatest(ds) \in ds
  <2> HIDE DEF ds
  <2> QED BY <1>2, <1>b, GreatestIsOne
<1>4. limit \in Nat
  BY <1>1 DEF Limits
<1>5. floor \in Nat /\ floor <= Len(inbox) /\ shown \subseteq Ids
  BY DEF MailInv, MailIsAccounted, MailTypeOK
<1> HIDE DEF new
<1>6. \A d \in new : d <= floor' => d \in ds
  BY <1>1, <1>2, <1>3, <1>4, <1>g, BatchIsClosed
<1>7. floor' \in ds
  BY <1>2, <1>g
<1> HIDE DEF ds
<1>8. floor' \in 0 .. MaxInbox /\ floor' <= Len(inbox) /\ shown' \subseteq Ids
  BY <1>1, <1>2, <1>3, <1>5, <1>7
<1>9. UNCHANGED Arrived /\ \A d \in 1 .. Len(inbox) : Unread(d)' <=> Unread(d)
  BY <1>2 DEF Arrived, Unread
<1>10. ASSUME NEW d \in 1 .. floor' PROVE d \in shown' \/ ~Unread(d)'
  <2>1. d \in 1 .. Len(inbox)
    BY <1>1, <1>8
  <2>2. CASE d <= floor
    <3>1. d \in shown \/ ~Unread(d)
      BY <1>5, <2>1, <2>2 DEF MailInv, MailIsAccounted, NothingBehindTheFloor
    <3> QED BY <1>2, <1>9, <2>1, <3>1
  <2>3. CASE d > floor /\ Unread(d)
    <3>1. d \in new
      BY <1>1, <2>1, <2>3 DEF new, UnreadIds
    <3> QED BY <1>2, <1>6, <1>8, <3>1
  <2>4. CASE ~Unread(d)
    BY <1>9, <2>1, <2>4
  <2> QED BY <1>5, <2>1, <2>2, <2>3, <2>4
<1>11. NothingBehindTheFloor'
  BY <1>10 DEF NothingBehindTheFloor
<1>12. MailTypeOK' /\ AcceptedOnce' /\ QueuedIsUnread'
  <2>1. MailTypeOK'
    BY <1>2, <1>8 DEF MailInv, MailIsAccounted, MailTypeOK
  <2>2. AcceptedOnce'
    BY <1>2, <1>9 DEF MailInv, MailIsAccounted, AcceptedOnce
  <2>3. QueuedIsUnread'
    BY <1>2 DEF MailInv, MailIsAccounted, QueuedIsUnread, Unread, Arrived
  <2> QED BY <2>1, <2>2, <2>3
<1>13. FirstReadStands /\ OutcomeStands
  BY <1>1, <1>2 DEF FirstReadStands, OutcomeStands
<1> QED BY <1>2, <1>8, <1>11, <1>12, <1>13 DEF MailStep, MailInv, MailIsAccounted

\* A nudge that is taken was not final and is not queued afterwards.
LEMMA TakenMoves ==
    ASSUME NEW m \in Nudge, Takable(m)
    PROVE  Taken(m) \in Nudge /\ Taken(m).status # "queued" /\ ~Final(m)
<1>1. m.status \in {"queued", "claimed"}
  BY DEF Takable
<1>2. ~Final(m)
  BY <1>1 DEF Final
<1>3. CASE m.status = "queued"
  <2>1. Taken(m) = [status |-> "claimed", attempt |-> 1, stale |-> FALSE]
    BY <1>3 DEF Taken
  <2>2. 1 \in 0 .. MaxAttempts
    BY MailAssumption
  <2> QED BY <1>2, <2>1, <2>2 DEF Nudge
<1>4. CASE m.status = "claimed" /\ m.attempt < MaxAttempts
  <2>1. m.attempt + 1 \in 0 .. MaxAttempts
    BY <1>4, MailAssumption DEF Nudge
  <2>2. Taken(m) = [m EXCEPT !.attempt = m.attempt + 1, !.stale = FALSE]
    BY <1>4 DEF Taken
  <2> QED BY <1>2, <1>4, <2>1, <2>2 DEF Nudge
<1>5. CASE m.status = "claimed" /\ ~(m.attempt < MaxAttempts)
  BY <1>2, <1>5, NudgesTyped DEF Taken
<1> QED BY <1>1, <1>3, <1>4, <1>5

\* Nudges that are taken and settled, and claims that expire.
LEMMA NudgeKeeps ==
    ASSUME MailInv, NEW s \in Incarnations,
           \/ take_mailbox_notification(s)
           \/ \E d \in Ids, o \in {"delivered", "failed"} : settle_mailbox_notification(s, d, o)
           \/ \E d \in Ids : ClaimExpires(s, d)
    PROVE  MailStep
<1>1. note \in Nudges /\ \A d \in Ids, o \in Incarnations : note[d][o] \in Nudge
  BY DEF MailInv, MailIsAccounted, MailTypeOK, Nudges
<1>2. UNCHANGED <<inbox, slot, reachable, cursor, mode, sending, floor, shown>>
  BY DEF take_mailbox_notification, settle_mailbox_notification, ClaimExpires
<1>3. /\ slot' \in Incarnations \cup {Nobody} /\ reachable' \in BOOLEAN /\ mode' \in {"pull", "notify"}
      /\ cursor' \in [Incarnations -> -1 .. MaxInbox] /\ sending' \in [Humans -> Requests \cup {Nobody}]
  BY <1>2 DEF MailInv, MailIsAccounted, MailTypeOK
<1>4. ASSUME NEW n \in Nudges, NEW d \in Ids, NEW x \in Nudge, ~Final(n[d][s]), x.status # "queued",
             note' = [n EXCEPT ![d][s] = x], NudgesMove(note, n)
      PROVE  MailStep
  <2>1. note' \in Nudges
    BY <1>4 DEF Nudges
  <2>2. NudgesMove(n, note')
    BY <1>4 DEF NudgesMove, Nudges
  <2> QED BY <1>2, <1>3, <1>4, <2>1, <2>2, MovesCompose, NudgesKeep
<1>5. CASE take_mailbox_notification(s)
  <2> DEFINE n == WithQueued(note, UnreadIds, s)
  <2>1. n \in Nudges /\ NudgesMove(note, n)
    BY <1>1, QueueingMoves DEF UnreadIds
  <2>2. \/ \E d \in Arrived : Takable(n[d][s]) /\ note' = [n EXCEPT ![d][s] = Taken(@)]
        \/ note' = n
    BY <1>5 DEF take_mailbox_notification
  <2> HIDE DEF n
  <2>3. CASE note' = n
    BY <1>2, <1>3, <2>1, <2>3, MailInv, NudgesKeep
  <2>4. ASSUME NEW d \in Arrived, Takable(n[d][s]), note' = [n EXCEPT ![d][s] = Taken(@)] PROVE MailStep
    <3>1. d \in Ids /\ n[d][s] \in Nudge
      BY <2>1, InboxFacts DEF Nudges
    <3>2. note' = [n EXCEPT ![d][s] = Taken(n[d][s])]
      BY <2>1, <2>4, <3>1 DEF Nudges
    <3>3. Taken(n[d][s]) \in Nudge /\ Taken(n[d][s]).status # "queued" /\ ~Final(n[d][s])
      BY <2>4, <3>1, TakenMoves
    <3> QED BY <1>4, <2>1, <3>1, <3>2, <3>3
  <2> QED BY <2>2, <2>3, <2>4
<1>6. ASSUME NEW d \in Ids, NEW o \in {"delivered", "failed"}, settle_mailbox_notification(s, d, o) PROVE MailStep
  <2>1. Settles(note[d][s]) /\ note' = [note EXCEPT ![d][s] = Closed(o)]
    BY <1>6 DEF settle_mailbox_notification
  <2>2. ~Final(note[d][s]) /\ Closed(o) \in Nudge /\ Closed(o).status # "queued" /\ NudgesMove(note, note)
    BY <2>1, NudgesTyped DEF Settles, Final, NudgesMove
  <2> QED BY <1>1, <1>4, <2>1, <2>2
<1>7. ASSUME NEW d \in Ids, ClaimExpires(s, d) PROVE MailStep
  <2> DEFINE x == [note[d][s] EXCEPT !.stale = TRUE]
  <2>1. note[d][s].status = "claimed" /\ note' = [note EXCEPT ![d][s] = x]
    BY <1>1, <1>7 DEF ClaimExpires, Nudges
  <2>2. x \in Nudge /\ x.status # "queued" /\ ~Final(note[d][s]) /\ NudgesMove(note, note)
    BY <1>1, <2>1 DEF Nudge, Final, NudgesMove
  <2> HIDE DEF x
  <2> QED BY <1>1, <1>4, <2>1, <2>2
<1> QED BY <1>5, <1>6, <1>7

\* The attachment that comes, goes or can no longer be reached.
LEMMA AttachmentKeeps ==
    ASSUME MailInv,
           \/ LeaseLapses
           \/ \E s \in Incarnations : \/ detach_session_mailbox_in_transaction(s)
                                      \/ \E m \in {"pull", "notify"}, q \in BOOLEAN : _attach_current_session(s, m, q)
    PROVE  MailStep
<1>1. /\ note \in Nudges /\ cursor \in [Incarnations -> -1 .. MaxInbox] /\ MaxInbox \in Nat
      /\ sending \in [Humans -> Requests \cup {Nobody}] /\ slot \in Incarnations \cup {Nobody}
      /\ mode \in {"pull", "notify"} /\ NudgesMove(note, note)
  BY MailAssumption DEF MailInv, MailIsAccounted, MailTypeOK, Nudges, NudgesMove
<1>2. CASE LeaseLapses
  BY <1>1, <1>2, NudgesKeep DEF LeaseLapses
<1>3. ASSUME NEW s \in Incarnations, detach_session_mailbox_in_transaction(s) PROVE MailStep
  BY <1>1, <1>3, FailingMoves, NudgesKeep DEF detach_session_mailbox_in_transaction
<1>4. ASSUME NEW s \in Incarnations, NEW m \in {"pull", "notify"}, NEW q \in BOOLEAN, _attach_current_session(s, m, q)
      PROVE  MailStep
  <2> DEFINE closed == IF slot = s /\ mode # m THEN WithFailed(note, s, {"queued"}) ELSE note
             all == {0} \cup {cursor[o] : o \in Incarnations}
  <2>1. /\ slot' = s /\ reachable' = TRUE /\ mode' = m /\ UNCHANGED <<inbox, sending, floor, shown>>
        /\ cursor' = [cursor EXCEPT ![s] = IF @ = -1 THEN Greatest(all) ELSE @]
        /\ note' = IF q /\ m = "notify" THEN WithQueued(closed, UnreadIds, s) ELSE closed
    BY <1>4 DEF _attach_current_session
  <2>2. closed \in Nudges /\ NudgesMove(note, closed)
    BY <1>1, FailingMoves
  <2> HIDE DEF closed
  <2>3. WithQueued(closed, UnreadIds, s) \in Nudges /\ NudgesMove(closed, WithQueued(closed, UnreadIds, s))
    BY <2>2, QueueingMoves DEF UnreadIds
  <2>4. note' \in Nudges /\ NudgesMove(note, note')
    <3>1. CASE q /\ m = "notify"
      BY <2>1, <2>2, <2>3, <3>1, MovesCompose
    <3>2. CASE ~(q /\ m = "notify")
      BY <2>1, <2>2, <3>2
    <3> QED BY <3>1, <3>2
  <2>5. Greatest(all) \in -1 .. MaxInbox
    <3>1. all # {} /\ all \subseteq -1 .. MaxInbox
      BY <1>1
    <3> HIDE DEF all
    <3>2. MaxInbox \in Int
      BY <1>1
    <3>3. Greatest(all) \in all
      BY <3>1, <3>2, GreatestIsOne
    <3> QED BY <3>1, <3>3
  <2> HIDE DEF all
  <2>6. cursor' \in [Incarnations -> -1 .. MaxInbox]
    BY <1>1, <2>1, <2>5
  <2> QED BY <1>1, <2>1, <2>4, <2>6, NudgesKeep
<1> QED BY <1>2, <1>3, <1>4

\* Sends and reads.
LEMMA TrafficKeeps ==
    ASSUME MailInv,
           \/ \E r \in Requests : _send(r) \/ \E h \in Humans : SendLookup(h, r)
           \/ \E h \in Humans : SendInsert(h) \/ \E l \in Limits : BrowserRead(h, l)
           \/ \E s \in Incarnations :
                 \/ \E l \in Limits, b \in BOOLEAN : read_mailbox_inbox(s, b, l)
                 \/ \E t \in {r.thread : r \in Requests} : read_mailbox_thread(s, t)
    PROVE  MailStep
<1>1. /\ note \in Nudges /\ cursor \in [Incarnations -> -1 .. MaxInbox] /\ MaxInbox \in Nat /\ reachable \in BOOLEAN
      /\ sending \in [Humans -> Requests \cup {Nobody}] /\ slot \in Incarnations \cup {Nobody}
      /\ mode \in {"pull", "notify"} /\ NudgesMove(note, note)
  BY MailAssumption DEF MailInv, MailIsAccounted, MailTypeOK, Nudges, NudgesMove
<1>2. Arrived \subseteq 1 .. MaxInbox
  BY InboxFacts DEF Ids
<1>3. ASSUME NEW ds, ds \subseteq Arrived, NEW s \in Incarnations, cursor' = [cursor EXCEPT ![s] = Greatest(ds \cup {@})]
      PROVE  cursor' \in [Incarnations -> -1 .. MaxInbox]
  <2> DEFINE all == ds \cup {cursor[s]}
  <2>1. all # {} /\ all \subseteq -1 .. MaxInbox
    <3>1. cursor[s] \in -1 .. MaxInbox /\ \A d \in ds : d \in -1 .. MaxInbox
      BY <1>1, <1>2, <1>3
    <3> QED BY <3>1
  <2>2. cursor' = [cursor EXCEPT ![s] = Greatest(all)]
    BY <1>3
  <2> HIDE DEF all
  <2>3. MaxInbox \in Int
    BY <1>1
  <2>4. Greatest(all) \in all
    BY <2>1, <2>3, GreatestIsOne
  <2> QED BY <1>1, <2>1, <2>2, <2>4
<1>4. ASSUME NEW r \in Requests, _send(r) PROVE MailStep
  BY <1>1, <1>4, InsertKeeps DEF _send
<1>5. ASSUME NEW r \in Requests, NEW h \in Humans, SendLookup(h, r) PROVE MailStep
  BY <1>1, <1>5, NudgesKeep DEF SendLookup
<1>6. ASSUME NEW h \in Humans, SendInsert(h) PROVE MailStep
  <2>1. sending[h] \in Requests /\ sending' \in [Humans -> Requests \cup {Nobody}]
    BY <1>1, <1>6 DEF SendInsert
  <2>2. CASE Insert(sending[h])
    BY <2>1, <2>2, InsertKeeps
  <2>3. CASE UNCHANGED <<inbox, slot, reachable, cursor, mode, note, floor, shown>>
    BY <1>1, <2>1, <2>3, NudgesKeep
  <2> QED BY <1>6, <2>2, <2>3 DEF SendInsert
<1>7. ASSUME NEW h \in Humans, NEW l \in Limits, BrowserRead(h, l) PROVE MailStep
  <2> DEFINE ds == Batch(UnreadIds, l)
  <2>1. ds \subseteq Arrived /\ Consume(ds, h) /\ cursor' \in [Incarnations -> -1 .. MaxInbox]
    BY <1>1, <1>7 DEF BrowserRead, Batch, Lowest, UnreadIds
  <2> HIDE DEF ds
  <2> QED BY <2>1, ConsumeKeeps
<1>8. ASSUME NEW s \in Incarnations, NEW l \in Limits, NEW b \in BOOLEAN, read_mailbox_inbox(s, b, l) PROVE MailStep
  <2> DEFINE from == IF b THEN {d \in Arrived : d > cursor[s]} ELSE UnreadIds
             ds == Batch(from, l)
  <2>1. Consume(ds, s) /\ cursor' = [cursor EXCEPT ![s] = Greatest(ds \cup {@})]
    BY <1>8 DEF read_mailbox_inbox
  <2>2. ds \subseteq Arrived
    BY DEF Batch, Lowest, UnreadIds
  <2> HIDE DEF ds
  <2> QED BY <1>3, <2>1, <2>2, ConsumeKeeps
<1>9. ASSUME NEW s \in Incarnations, NEW t, read_mailbox_thread(s, t) PROVE MailStep
  <2> DEFINE ds == {d \in Arrived : inbox[d].thread = t}
  <2>1. Consume(ds, s) /\ cursor' = [cursor EXCEPT ![s] = Greatest(ds \cup {@})]
    BY <1>9 DEF read_mailbox_thread
  <2>2. ds \subseteq Arrived
    OBVIOUS
  <2> HIDE DEF ds
  <2> QED BY <1>3, <2>1, <2>2, ConsumeKeeps
<1> QED BY <1>4, <1>5, <1>6, <1>7, <1>8, <1>9

\* Every step of the inbox.
LEMMA MailSteps ==
    ASSUME MailInv, [MailNext]_mailVars
    PROVE  MailStep
<1>1. CASE UNCHANGED mailVars
  <2>1. NudgesMove(note, note') /\ UNCHANGED <<inbox, floor, shown, note, slot, reachable, mode, cursor, sending>>
    BY <1>1 DEF mailVars, NudgesMove
  <2> QED BY <2>1, NudgesKeep DEF MailInv, MailIsAccounted, MailTypeOK, Nudges
<1> QED BY <1>1, TrafficKeeps, WaitKeeps, NudgeKeeps, AttachmentKeeps DEF MailNext

\* An inbox begins empty.
LEMMA MailBegins ==
    ASSUME MailInit
    PROVE  MailInv
<1>1. Len(inbox) = 0 /\ Arrived = {} /\ inbox \in Seq(Mail)
  BY DEF MailInit, Arrived
<1>2. note \in Nudges /\ \A d \in Ids, s \in Incarnations : note[d][s].status = "none"
  BY NudgesTyped DEF MailInit, Nudges, NoAttempt
<1>3. MailTypeOK
  <2>1. -1 \in -1 .. MaxInbox /\ 0 \in 0 .. MaxInbox /\ 0 <= MaxInbox
    BY MailAssumption
  <2>2. cursor \in [Incarnations -> -1 .. MaxInbox] /\ floor \in 0 .. MaxInbox /\ Len(inbox) <= MaxInbox
    BY <1>1, <2>1 DEF MailInit
  <2>3. sending \in [Humans -> Requests \cup {Nobody}] /\ slot \in Incarnations \cup {Nobody} /\ reachable \in BOOLEAN
        /\ mode \in {"pull", "notify"} /\ shown \subseteq Ids
    BY DEF MailInit
  <2> QED BY <1>1, <1>2, <2>2, <2>3 DEF MailTypeOK, Nudges, Mail
<1> QED BY <1>1, <1>2, <1>3
    DEF MailInit, MailInv, MailIsAccounted, AcceptedOnce, NothingBehindTheFloor, QueuedIsUnread

\* control/durable_mail.py: an operation is delivered once however its retries interleave,
\* nothing unread lies below the floor a client continues from, and no nudge is open about
\* mail that somebody has read.
THEOREM MailAccounted == MailInit /\ [][MailNext]_mailVars => []MailIsAccounted
<1>1. MailInv /\ [MailNext]_mailVars => MailInv'
  BY MailSteps DEF MailStep
<1>2. MailInv => MailIsAccounted
  BY DEF MailInv
<1> QED BY <1>1, <1>2, MailBegins, PTL

\* _mark_deliveries_read and settle_mailbox_notification: who read a delivery first and how
\* a nudge ended are written once.
THEOREM MailStands == MailInit /\ [][MailNext]_mailVars => [][FirstReadStands /\ OutcomeStands]_mailVars
<1>1. MailInv /\ [MailNext]_mailVars => MailInv' /\ [FirstReadStands /\ OutcomeStands]_mailVars
  BY MailSteps DEF MailStep
<1> QED BY <1>1, MailBegins, PTL

\* The mailbox and its inbox together, as the run has them: what each promises is kept
\* whichever of them moves.
THEOREM MessagingKept == MessagingSpec => [](MailboxIsBound /\ MailIsAccounted) /\ MailboxStands
<1> DEFINE Held == IInv /\ MailInv
           Messaging == \/ MailboxInit /\ MailInit /\ Next /\ UNCHANGED <<mailboxVars, mailVars>>
                        \/ Init /\ MailInit /\ MailboxNext /\ UNCHANGED <<vars, mailVars>>
                        \/ Init /\ MailboxInit /\ MailNext /\ UNCHANGED <<vars, mailboxVars>>
           Stands == NoTakeover /\ VersionNamesSecret /\ FirstReadStands /\ OutcomeStands
<1>1. MessagingInit => Held
  BY InitEstablishes, MailBegins DEF MessagingInit
<1>2. Held /\ [Messaging]_<<vars, mailboxVars, mailVars>> => Held' /\ [Stands]_<<mailboxVars, mailVars>>
  <2> SUFFICES ASSUME Held, [Messaging]_<<vars, mailboxVars, mailVars>> PROVE Held' /\ Stands
    OBVIOUS
  <2>1. [MailboxNext]_mailboxVars /\ [MailNext]_mailVars
    OBVIOUS
  <2>2. IInv' /\ NoTakeover /\ VersionNamesSecret
    BY <2>1, StepPreserves, NobodyTakesOver, VersionedSteps
  <2>3. MailInv' /\ FirstReadStands /\ OutcomeStands
    BY <2>1, MailSteps DEF MailStep
  <2> QED BY <2>2, <2>3
<1>3. Held => MailboxIsBound /\ MailIsAccounted
  BY DEF IInv, MailboxIsBound, MailInv
<1> QED BY <1>1, <1>2, <1>3, PTL DEF MessagingSpec, MailboxStands
=============================================================================
