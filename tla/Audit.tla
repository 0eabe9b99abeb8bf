------------------------------- MODULE Audit -------------------------------
(***************************************************************************)
(* The audit chain: audit/__init__.py, with several processes appending to *)
(* one log, one of them around an effect outside the database, a verifier  *)
(* reading, an operator adopting a legacy chain, and damage done to the    *)
(* tables by something other than Brains.                                  *)
(*                                                                         *)
(* A hash is the sequence of actions it commits to, so that a hash of its  *)
(* own is what each prefix has; a signature is the triple it signs, which  *)
(* only the holder of the key makes.  An append holds the write lock of    *)
(* the store from its claim of the head to its commit or rollback.         *)
(***************************************************************************)
EXTENDS Integers, Sequences, FiniteSets

CONSTANTS
    Appenders,   \* processes that record
    Nobody,
    MaxEntries   \* bound: entries of the log, and a legacy one may have two

ASSUME AuditAssumption == Nobody \notin Appenders /\ MaxEntries \in Nat /\ MaxEntries >= 2

VARIABLES
    rows,      \* audit_log, oldest first
    head,      \* audit_chain_head, or NoHead
    lock,      \* who holds the write lock
    appender,  \* each process: what it is about, and what it read under the lock
    effect,    \* each process's effect: none, taken or raised
    verifier,  \* what a verification has read, and its last verdict
    damaged    \* what happened to the tables behind Brains' back: none, lost or changed

auditVars == <<rows, head, lock, appender, effect, verifier, damaged>>

GENESIS_HASH == << >>
Unsigned == [seq |-> -1]
NoHead == [seq |-> -1]

\* _compute_hash, _head_mac
_compute_hash(prev, action) == Append(prev, action)
_head_mac(seq, hash, id) == [seq |-> seq, hash |-> hash, id |-> id]

INIT_ACTION == <<"initialized", Nobody>>
ADOPTION_ACTION == <<"adopted", Nobody>>
SIGNED_ORIGIN_ACTIONS == {INIT_ACTION, ADOPTION_ACTION}
Actions == SIGNED_ORIGIN_ACTIONS \cup {<<"legacy", Nobody>>}
           \cup ({"attempted", "done", "failed"} \X Appenders)

Row(id, action, prev) == [id |-> id, action |-> action, prev |-> prev, hash |-> _compute_hash(prev, action)]
NewestId(log) == IF log = << >> THEN 0 ELSE log[Len(log)].id
NewestHash(log) == IF log = << >> THEN GENESIS_HASH ELSE log[Len(log)].hash

-----------------------------------------------------------------------------
BugSeeded(log) == [seq |-> Len(log), hash |-> NewestHash(log), id |-> NewestId(log),
                   mac |-> _head_mac(Len(log), NewestHash(log), NewestId(log)), adopted |-> TRUE]

\* _ensure_head_row: a missing head is seeded from the log, unsigned.
Seeded(log) == [seq |-> Len(log), hash |-> NewestHash(log), id |-> NewestId(log), mac |-> Unsigned, adopted |-> FALSE]
HeadOrSeed == IF head = NoHead THEN Seeded(rows) ELSE head

Empty(h) == rows = << >> /\ h.seq = 0 /\ h.hash = GENESIS_HASH /\ h.id = 0
Signed(h) == h.mac = _head_mac(h.seq, h.hash, h.id)

BugClaimable(h) == IF h.mac = Unsigned THEN ~h.adopted /\ Empty(h) ELSE Signed(h)

\* _claim_head and the comparison after it: the head is signed, or is that of an empty log,
\* and points at the newest row.
Claimable(h) ==
    /\ IF h.mac = Unsigned THEN ~h.adopted /\ Empty(h) ELSE Signed(h)
    /\ h.hash = NewestHash(rows) /\ h.id = NewestId(rows)

Free == lock = Nobody

\* _lock_head: the write lock, then the head and the newest row.
_lock_head(p) ==
    /\ Free /\ appender[p].at \in {"attempting", "recording"}
    /\ lock' = p
    /\ appender' = [appender EXCEPT ![p] = [@ EXCEPT !.claimed = TRUE, !.head = HeadOrSeed,
                                                      !.ok = Claimable(HeadOrSeed)]]
    /\ UNCHANGED <<rows, head, effect, verifier, damaged>>

\* _write_entry: one row, and the head that names it, signed.
Written(log, h, action) ==
    LET new == Row(NewestId(log) + 1, action, h.hash)
    IN  [log |-> Append(log, new),
         head |-> [seq |-> h.seq + 1, hash |-> new.hash, id |-> new.id,
                   mac |-> _head_mac(h.seq + 1, new.hash, new.id), adopted |-> TRUE]]

\* append_in_session writes the genesis marker before the first entry of an empty log.
Opening(log, h) == IF h.mac = Unsigned THEN Written(log, h, INIT_ACTION) ELSE [log |-> log, head |-> h]

Idle == [at |-> "idle", claimed |-> FALSE, head |-> NoHead, ok |-> FALSE, action |-> ADOPTION_ACTION]
Step(p, at, kind) == [Idle EXCEPT !.at = at, !.action = <<kind, p>>]

\* Only a recorded attempt is followed by the effect.
After(p, recorded) == IF appender[p].at = "attempting" /\ recorded THEN Step(p, "acting", "attempted") ELSE Idle

\* record_required: both rows and the head are committed with the lock, or the chain is
\* refused.
append_in_session(p) ==
    LET a == appender[p]
        opened == Opening(rows, a.head)
        done == Written(opened.log, opened.head, a.action)
    IN  /\ a.claimed /\ Len(rows) + 2 <= MaxEntries
        /\ IF a.ok THEN rows' = done.log /\ head' = done.head ELSE UNCHANGED <<rows, head>>
        /\ appender' = [appender EXCEPT ![p] = After(p, a.ok)]
        /\ lock' = Nobody
        /\ UNCHANGED <<effect, verifier, damaged>>

\* The store refuses or the process dies: the transaction is rolled back.
Rollback(p) ==
    /\ appender[p] # Idle
    /\ lock' = IF lock = p THEN Nobody ELSE lock
    /\ appender' = [appender EXCEPT ![p] = Idle]
    /\ UNCHANGED <<rows, head, effect, verifier, damaged>>

\* record_required tries again: the loser of a race has written nothing.
Retry(p) ==
    /\ appender[p].claimed /\ appender[p].ok
    /\ lock' = Nobody
    /\ appender' = [appender EXCEPT ![p] = [@ EXCEPT !.claimed = FALSE, !.head = NoHead, !.ok = FALSE]]
    /\ UNCHANGED <<rows, head, effect, verifier, damaged>>

-----------------------------------------------------------------------------
\* required_effect: the attempt is committed before the effect, its outcome after it.
required_effect(p) ==
    /\ appender[p] = Idle /\ effect[p] = "none"
    /\ appender' = [appender EXCEPT ![p] = Step(p, "attempting", "attempted")]
    /\ UNCHANGED <<rows, head, lock, effect, verifier, damaged>>

Effect(p) ==
    /\ appender[p].at = "acting"
    /\ \E outcome \in {"taken", "raised"} :
          /\ effect' = [effect EXCEPT ![p] = outcome]
          /\ appender' = [appender EXCEPT ![p] = Step(p, "recording", IF outcome = "taken" THEN "done" ELSE "failed")]
    /\ UNCHANGED <<rows, head, lock, verifier, damaged>>

-----------------------------------------------------------------------------
\* _scan_entries and _check_head
_scan_entries(log) ==
    \A i \in DOMAIN log : /\ log[i].prev = IF i = 1 THEN GENESIS_HASH ELSE log[i - 1].hash
                          /\ log[i].hash = _compute_hash(log[i].prev, log[i].action)
Agrees(log, h) == h.hash = NewestHash(log) /\ h.id = NewestId(log) /\ h.seq = Len(log)
_check_head(log, h) ==
    IF h = NoHead THEN log = << >>
    ELSE /\ IF h.mac = Unsigned THEN ~h.adopted /\ log = << >> ELSE Signed(h)
         /\ Agrees(log, h)
Verifies(log, h) == _scan_entries(log) /\ _check_head(log, h)

\* verify_chain reads the log and the head in one snapshot.
VerifyReads ==
    /\ verifier.at = "idle"
    /\ verifier' = [at |-> "read", log |-> rows, head |-> head, verdict |-> verifier.verdict]
    /\ UNCHANGED <<rows, head, lock, appender, effect, damaged>>

BugSnapshotHead == head
SnapshotHead == verifier.head

verify_chain ==
    /\ verifier.at = "read"
    /\ verifier' = [at |-> "idle", log |-> << >>, head |-> NoHead,
                    verdict |-> IF Verifies(verifier.log, SnapshotHead) THEN "intact" ELSE "broken"]
    /\ UNCHANGED <<rows, head, lock, appender, effect, damaged>>

\* _adopt_in_session refuses unless the unsigned chain verifies in full and was never signed.
Adoptable(h) ==
    /\ h.mac = Unsigned /\ ~h.adopted
    /\ \A i \in DOMAIN rows : rows[i].action \notin SIGNED_ORIGIN_ACTIONS
    /\ _scan_entries(rows) /\ Agrees(rows, h)

\* adopt_legacy_chain: signature and adoption entry in one transaction.  A log that lost its
\* head is refused, and one that is signed needs nothing.
adopt_legacy_chain ==
    /\ lock = Nobody /\ Len(rows) < MaxEntries
    /\ (head # NoHead \/ rows = << >>) /\ Adoptable(HeadOrSeed)
    /\ LET h == HeadOrSeed
           signed == [h EXCEPT !.mac = _head_mac(h.seq, h.hash, h.id), !.adopted = TRUE]
           done == Written(rows, signed, ADOPTION_ACTION)
       IN  rows' = done.log /\ head' = done.head
    /\ UNCHANGED <<lock, appender, effect, verifier, damaged>>

-----------------------------------------------------------------------------
\* Something else damages the tables, once: the last rows are lost, a row is changed, or
\* the signed head is lost.
LosesRows ==
    /\ damaged = "none" /\ lock = Nobody /\ rows # << >>
    /\ \E n \in 0 .. Len(rows) - 1 : rows' = SubSeq(rows, 1, n)
    /\ damaged' = "lost"
    /\ UNCHANGED <<head, lock, appender, effect, verifier>>

ChangesRow ==
    /\ damaged = "none" /\ lock = Nobody
    /\ \E i \in DOMAIN rows : \E a \in {<<"legacy", Nobody>>, INIT_ACTION} :
          a # rows[i].action /\ rows' = [rows EXCEPT ![i].action = a]
    /\ damaged' = "changed"
    /\ UNCHANGED <<head, lock, appender, effect, verifier>>

LosesHead ==
    /\ damaged = "none" /\ lock = Nobody /\ head # NoHead /\ head.mac # Unsigned
    /\ head' = NoHead /\ damaged' = "lost"
    /\ UNCHANGED <<rows, lock, appender, effect, verifier>>

-----------------------------------------------------------------------------
Legacy(n) == [i \in 1 .. n |-> Row(i, <<"legacy", Nobody>>, [j \in 1 .. i - 1 |-> <<"legacy", Nobody>>])]

\* A fresh store, with or without its seeded head, or one written before heads were signed.
AuditInit ==
    /\ \E n \in 0 .. 2 : rows = Legacy(n) /\ head \in {Seeded(Legacy(n))} \cup (IF n = 0 THEN {NoHead} ELSE {})
    /\ lock = Nobody
    /\ appender = [p \in Appenders |-> Idle]
    /\ effect = [p \in Appenders |-> "none"]
    /\ verifier = [at |-> "idle", log |-> << >>, head |-> NoHead, verdict |-> "none"]
    /\ damaged = "none"

AuditNext ==
    \/ \E p \in Appenders : _lock_head(p) \/ append_in_session(p) \/ Rollback(p) \/ Retry(p) \/ required_effect(p) \/ Effect(p)
    \/ VerifyReads \/ verify_chain \/ adopt_legacy_chain
    \/ LosesRows \/ ChangesRow \/ LosesHead

AuditSpec == AuditInit /\ [][AuditNext]_auditVars

-----------------------------------------------------------------------------
\* Rows, head, lock and verdict keep their types, and ids grow.
AuditTypeOK ==
    /\ \A i \in DOMAIN rows : rows[i].action \in Actions /\ (i > 1 => rows[i - 1].id < rows[i].id)
    /\ Len(rows) <= MaxEntries
    /\ head = NoHead \/ (head.seq \in 0 .. MaxEntries /\ head.adopted \in BOOLEAN /\ Len(head.hash) <= MaxEntries)
    /\ lock \in Appenders \cup {Nobody}
    /\ verifier.verdict \in {"none", "intact", "broken"}
    /\ effect \in [Appenders -> {"none", "taken", "raised"}]

\* Two processes that append at once do not fork the chain: it is linear, and the head names
\* its newest row and counts its rows.
ChainIsLinear == damaged = "none" => _scan_entries(rows) /\ (head = NoHead \/ Agrees(rows, head))

\* A verification that runs beside appends never reports an intact, signed chain as broken.
NoFalseAlarm ==
    verifier.at = "read" /\ verifier'.verdict = "broken" /\ verifier'.at = "idle"
        => damaged # "none" \/ (verifier.head # NoHead /\ verifier.head.mac = Unsigned)

\* After rows were lost or changed, or the head was lost, no sequence of appends, refusals
\* and adoptions makes the store verify again.
DamageShows == damaged # "none" => ~Verifies(rows, head)

\* required_effect: an effect is never without its attempt in the log, nor an outcome in the
\* log without the effect it names, whoever dies or is refused in between.
EffectHasEvidence ==
    damaged = "none" => \A p \in Appenders :
        LET Logged(kind) == \E i \in DOMAIN rows : rows[i].action = <<kind, p>>
        IN  /\ effect[p] # "none" => Logged("attempted")
            /\ Logged("done") => effect[p] = "taken"
            /\ Logged("failed") => effect[p] = "raised"

\* Whatever processes append, die, verify or lose: an undamaged store has one linear chain
\* with evidence of every effect, and a damaged one never passes for sound.
ChainIsSound == AuditTypeOK /\ ChainIsLinear /\ DamageShows /\ EffectHasEvidence

\* What the head has committed to is the history of an append-only ledger that stops growing
\* when rows or the head are lost.  (A changed row keeps its hash, which is all that
\* _lock_head compares: appends go on, and verify_chain reports it.)
TheLedger == INSTANCE Ledger WITH history <- IF head = NoHead THEN NewestHash(rows) ELSE head.hash,
                                  lost <- (damaged = "lost")
AppendOnly == TheLedger!LedgerSpec
=============================================================================
