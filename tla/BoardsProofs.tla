---------------------------- MODULE BoardsProofs ----------------------------
(***************************************************************************)
(* The safety of the audit chain and of what Sessions leave for each       *)
(* other: peer help, handoffs, topic boards and SMTP copies, each for any  *)
(* number of participants, and of the composition that is checked.         *)
(***************************************************************************)
EXTENDS MCBoards, FiniteSetTheorems, SequenceTheorems, WellFoundedInduction, TLAPS

-----------------------------------------------------------------------------
(* The audit chain, and that it implements Ledger.  Whoever has claimed    *)
(* the head holds the lock, so what it read is still true when it writes;  *)
(* the head names the newest row until rows or head are lost, and from     *)
(* then on it can be neither claimed nor adopted: nothing is written.      *)

Entry == [id: Nat, action: Actions, prev: Seq(Actions), hash: Seq(Actions)]
Mac == [seq: Nat, hash: Seq(Actions), id: Nat]
HeadRow == [seq: 0 .. MaxEntries, hash: Seq(Actions), id: Nat, mac: {Unsigned} \cup Mac, adopted: BOOLEAN]
Appender == [at: {"idle", "attempting", "acting", "recording"}, claimed: BOOLEAN, head: HeadRow \cup {NoHead},
             ok: BOOLEAN, action: Actions]

\* Entries are numbered in order, and a hash commits to every action up to its own.
LogInOrder(log) ==
    /\ log \in Seq(Entry)
    /\ \A i \in DOMAIN log : log[i].id = i /\ Len(log[i].prev) = i - 1 /\ Len(log[i].hash) = i

\* A head is unsigned or signed by the holder of the key.
HeadInOrder(h) ==
    h # NoHead => h \in HeadRow /\ Len(h.hash) <= MaxEntries /\ (h.mac = Unsigned \/ Signed(h))

\* What a snapshot of log and head must show for a verification to find it intact.
Untouched(log, h) == _scan_entries(log) /\ (IF h = NoHead THEN log = << >> ELSE Agrees(log, h))

Typed ==
    /\ LogInOrder(rows) /\ Len(rows) <= MaxEntries
    /\ HeadInOrder(head)
    /\ lock \in Appenders \cup {Nobody}
    /\ appender \in [Appenders -> Appender]
    /\ effect \in [Appenders -> {"none", "taken", "raised"}]
    /\ verifier.at \in {"idle", "read"} /\ verifier.verdict \in {"none", "intact", "broken"}
    /\ damaged \in {"none", "lost", "changed"}

\* The head names the newest row and counts the rows, until rows or head are lost; only a
\* head with rows is signed.
HeadLeads == damaged # "lost" => /\ IF head = NoHead THEN rows = << >> ELSE Agrees(rows, head)
                                 /\ head # NoHead /\ head.mac # Unsigned => rows # << >>

\* What was lost or changed stays visible.
LossShows == damaged = "lost" => IF head = NoHead THEN rows # << >> ELSE head.id # NewestId(rows)
ChangeShows == damaged = "changed" => \E i \in DOMAIN rows : rows[i].hash # _compute_hash(rows[i].prev, rows[i].action)
ScanIsClean == damaged = "none" => _scan_entries(rows)

\* What a process read of the head under the lock is still so.
ClaimIsFresh ==
    \A p \in Appenders : appender[p].claimed =>
        /\ lock = p /\ appender[p].at \in {"attempting", "recording"}
        /\ appender[p].head = HeadOrSeed /\ appender[p].ok = Claimable(HeadOrSeed)

\* A process knows what became of its effect, and records that.
Recorded(log, kind, p) == \E i \in DOMAIN log : log[i].action = <<kind, p>>
CallerKnows(p) ==
    /\ appender[p].at \in {"attempting", "acting"} => effect[p] = "none"
    /\ appender[p].at = "attempting" => appender[p].action = <<"attempted", p>>
    /\ appender[p].at = "recording" =>
          /\ effect[p] # "none"
          /\ appender[p].action = IF effect[p] = "taken" THEN <<"done", p>> ELSE <<"failed", p>>
AttemptIsLogged(p) == appender[p].at \in {"acting", "recording"} => Recorded(rows, "attempted", p)
EvidenceOf(p) == /\ effect[p] # "none" => Recorded(rows, "attempted", p)
                 /\ Recorded(rows, "done", p) => effect[p] = "taken"
                 /\ Recorded(rows, "failed", p) => effect[p] = "raised"
CallersKnow == /\ \A p \in Appenders : CallerKnows(p)
               /\ damaged = "none" => \A p \in Appenders : AttemptIsLogged(p) /\ EvidenceOf(p)

\* A snapshot taken of an undamaged store was of an undamaged chain.
SnapshotIsWhole == verifier.at = "read" /\ damaged = "none" =>
                      HeadInOrder(verifier.head) /\ Untouched(verifier.log, verifier.head)

IInv == /\ Typed /\ HeadLeads /\ LossShows /\ ChangeShows /\ ScanIsClean
        /\ ClaimIsFresh /\ CallersKnow /\ SnapshotIsWhole

-----------------------------------------------------------------------------
(* The log, the head and what one entry does to them.                      *)

\* The newest row of a log in order.
LEMMA NewestRow ==
    ASSUME NEW log, LogInOrder(log)
    PROVE  /\ Len(log) \in Nat /\ DOMAIN log = 1 .. Len(log)
           /\ \A i \in 1 .. Len(log) : log[i] \in Entry /\ log[i].id = i
           /\ NewestId(log) = Len(log)
           /\ NewestHash(log) \in Seq(Actions) /\ Len(NewestHash(log)) = Len(log)
<1>1. log \in Seq(Entry) /\ Len(log) \in Nat /\ DOMAIN log = 1 .. Len(log)
  BY LenProperties DEF LogInOrder
<1>2. \A i \in 1 .. Len(log) : log[i] \in Entry /\ log[i].id = i /\ Len(log[i].hash) = i
  BY <1>1, ElementOfSeq DEF LogInOrder
<1>3. CASE log = << >>
  BY <1>1, <1>3 DEF NewestId, NewestHash, GENESIS_HASH
<1>4. CASE log # << >>
  <2>1. Len(log) \in 1 .. Len(log)
    BY <1>1, <1>4, EmptySeq
  <2> QED BY <1>1, <1>2, <1>4, <2>1 DEF NewestId, NewestHash, Entry
<1> QED BY <1>1, <1>2, <1>3, <1>4

\* Actions that are recorded.
LEMMA TheActions ==
    /\ INIT_ACTION \in Actions /\ ADOPTION_ACTION \in Actions
    /\ \A p \in Appenders : <<"attempted", p>> \in Actions /\ <<"done", p>> \in Actions /\ <<"failed", p>> \in Actions
    /\ \A p \in Appenders, kind \in {"attempted", "done", "failed"} :
          <<kind, p>> # INIT_ACTION /\ <<kind, p>> # ADOPTION_ACTION
BY DEF Actions, SIGNED_ORIGIN_ACTIONS, INIT_ACTION, ADOPTION_ACTION

\* An entry written under a head that agrees with its log extends the chain by itself.
LEMMA WrittenExtends ==
    ASSUME NEW log, LogInOrder(log), NEW h \in HeadRow, Agrees(log, h), Len(log) < MaxEntries, NEW action \in Actions,
           NEW w, w = Written(log, h, action)
    PROVE  /\ LogInOrder(w.log) /\ Len(w.log) = Len(log) + 1
           /\ w.head \in HeadRow /\ Signed(w.head) /\ w.head.mac # Unsigned /\ Agrees(w.log, w.head)
           /\ w.head.hash = Append(h.hash, action)
           /\ \A i \in 1 .. Len(log) : w.log[i] = log[i]
           /\ w.log[Len(log) + 1].action = action
           /\ _scan_entries(log) => _scan_entries(w.log)
<1> DEFINE hash == Append(h.hash, action)
           new == [id |-> Len(log) + 1, action |-> action, prev |-> h.hash, hash |-> hash]
           mac == [seq |-> h.seq + 1, hash |-> hash, id |-> Len(log) + 1]
           led == [seq |-> h.seq + 1, hash |-> hash, id |-> Len(log) + 1, mac |-> mac, adopted |-> TRUE]
<1>1. /\ Len(log) \in Nat /\ DOMAIN log = 1 .. Len(log) /\ NewestId(log) = Len(log)
      /\ \A i \in 1 .. Len(log) : log[i] \in Entry /\ log[i].id = i
      /\ NewestHash(log) \in Seq(Actions) /\ Len(NewestHash(log)) = Len(log)
  BY NewestRow
<1>2. h.hash = NewestHash(log) /\ h.id = Len(log) /\ h.seq = Len(log)
  BY <1>1 DEF Agrees
<1>3. hash \in Seq(Actions) /\ Len(hash) = Len(log) + 1
  BY <1>1, <1>2, AppendProperties
<1>4. new \in Entry
  BY <1>1, <1>2, <1>3 DEF Entry
<1>5. w.log = Append(log, new) /\ w.head = led
  BY <1>1 DEF Written, Row, _compute_hash, _head_mac
<1>6. log \in Seq(Entry)
  BY DEF LogInOrder
<1>7. /\ w.log \in Seq(Entry) /\ Len(w.log) = Len(log) + 1 /\ \A i \in 1 .. Len(log) : w.log[i] = log[i]
      /\ w.log[Len(log) + 1] = new /\ w.log # << >>
  BY <1>4, <1>5, <1>6, AppendProperties
<1>8. DOMAIN w.log = 1 .. Len(log) + 1
  BY <1>7, LenProperties
<1>9. LogInOrder(w.log)
  BY <1>1, <1>2, <1>3, <1>7, <1>8 DEF LogInOrder
<1>10. w.head \in HeadRow /\ Signed(w.head) /\ w.head.mac # Unsigned
  <2>1. mac \in Mac /\ mac.seq # -1
    BY <1>1, <1>2, <1>3 DEF Mac
  <2>2. led \in HeadRow /\ led.mac # Unsigned
    BY <1>1, <1>2, <1>3, <2>1, AuditAssumption DEF HeadRow, Unsigned
  <2> QED BY <1>5, <2>2 DEF Signed, _head_mac
<1>11. Agrees(w.log, w.head)
  <2>1. NewestId(w.log) = Len(log) + 1
    BY <1>7, <1>9, NewestRow
  <2>2. NewestHash(w.log) = new.hash
    <3>1. w.log[Len(w.log)] = new
      BY <1>7
    <3>2. NewestHash(w.log) = w.log[Len(w.log)].hash
      BY <1>7, Zenon DEF NewestHash
    <3> QED BY <3>1, <3>2, Zenon
  <2>3. w.head.hash = new.hash /\ w.head.id = Len(log) + 1 /\ w.head.seq = Len(w.log)
    BY <1>2, <1>5, <1>7
  <2> HIDE DEF new
  <2> QED BY <2>1, <2>2, <2>3 DEF Agrees
<1>12. ASSUME _scan_entries(log) PROVE _scan_entries(w.log)
  <2>1. ASSUME NEW i \in 1 .. Len(log)
        PROVE  /\ w.log[i].prev = IF i = 1 THEN GENESIS_HASH ELSE w.log[i - 1].hash
               /\ w.log[i].hash = _compute_hash(w.log[i].prev, w.log[i].action)
    <3>1. w.log[i] = log[i] /\ (i # 1 => w.log[i - 1] = log[i - 1])
      BY <1>1, <1>7
    <3> QED BY <1>1, <1>12, <3>1 DEF _scan_entries
  <2>2. h.hash = IF Len(log) + 1 = 1 THEN GENESIS_HASH ELSE w.log[Len(log)].hash
    <3>1. CASE Len(log) = 0
      BY <1>2, <1>6, <3>1, EmptySeq DEF NewestHash
    <3>2. CASE Len(log) # 0
      BY <1>1, <1>2, <1>6, <1>7, <3>2, EmptySeq DEF NewestHash
    <3> QED BY <3>1, <3>2
  <2>3. new.hash = _compute_hash(new.prev, new.action)
    BY DEF _compute_hash
  <2>4. \A i \in 1 .. Len(log) + 1 : i \in 1 .. Len(log) \/ i = Len(log) + 1
    BY <1>1
  <2>5. w.log[Len(log) + 1].prev = IF Len(log) + 1 = 1 THEN GENESIS_HASH ELSE w.log[Len(log) + 1 - 1].hash
    BY <1>1, <1>7, <2>2
  <2>6. w.log[Len(log) + 1].hash = _compute_hash(w.log[Len(log) + 1].prev, w.log[Len(log) + 1].action)
    BY <1>7, <2>3
  <2> HIDE DEF new, hash
  <2>7. ASSUME NEW i \in 1 .. Len(log) + 1
        PROVE  /\ w.log[i].prev = IF i = 1 THEN GENESIS_HASH ELSE w.log[i - 1].hash
               /\ w.log[i].hash = _compute_hash(w.log[i].prev, w.log[i].action)
    BY <2>1, <2>4, <2>5, <2>6
  <2> QED BY <1>8, <2>7 DEF _scan_entries
<1> QED BY <1>5, <1>7, <1>9, <1>10, <1>11, <1>12

\* A head row is there.
LEMMA HeadRowExists ==
    /\ NoHead \notin HeadRow
    /\ \A h \in HeadRow : h.seq \in Int /\ h.seq >= 0
BY AuditAssumption DEF HeadRow, NoHead

\* The head that a writer finds is well formed; if it may be claimed or adopted it names the
\* newest row, and it is unsigned only on a log without entries, or with legacy ones only.
LEMMA HeadFound ==
    ASSUME Typed, HeadLeads, LossShows
    PROVE  /\ HeadOrSeed \in HeadRow /\ HeadInOrder(HeadOrSeed)
           /\ Claimable(HeadOrSeed) => /\ damaged # "lost" /\ Agrees(rows, HeadOrSeed)
                                       /\ HeadOrSeed.mac = Unsigned => rows = << >>
           /\ Adoptable(HeadOrSeed) /\ (head # NoHead \/ rows = << >>)
                 => damaged # "lost" /\ Agrees(rows, HeadOrSeed)
<1>1. /\ LogInOrder(rows) /\ Len(rows) \in 0 .. MaxEntries /\ NewestId(rows) = Len(rows)
      /\ NewestHash(rows) \in Seq(Actions) /\ Len(NewestHash(rows)) = Len(rows)
  BY NewestRow, AuditAssumption DEF Typed
<1>2. CASE head = NoHead
  <2>1. HeadOrSeed = Seeded(rows)
    BY <1>2 DEF HeadOrSeed
  <2>2. Seeded(rows) \in HeadRow /\ Seeded(rows).mac = Unsigned /\ Agrees(rows, Seeded(rows))
        /\ Len(Seeded(rows).hash) <= MaxEntries
    BY <1>1, AuditAssumption DEF Seeded, HeadRow, Agrees
  <2>3. Claimable(Seeded(rows)) => rows = << >>
    BY <2>2 DEF Claimable, Empty
  <2> QED BY <1>2, <2>1, <2>2, <2>3 DEF HeadInOrder, LossShows
<1>3. CASE head # NoHead
  <2>1. HeadOrSeed = head /\ head \in HeadRow /\ HeadInOrder(head)
    BY <1>3 DEF HeadOrSeed, Typed, HeadInOrder
  <2>2. Claimable(head) => head.id = NewestId(rows) /\ (head.mac = Unsigned => rows = << >>)
    BY DEF Claimable, Empty
  <2>3. Adoptable(head) => head.id = NewestId(rows)
    BY DEF Adoptable, Agrees
  <2> QED BY <1>3, <2>1, <2>2, <2>3 DEF LossShows, HeadLeads
<1> QED BY <1>2, <1>3

\* What is left by a step that writes entries: the log as it was, then the actions given.
Extends(written) ==
    /\ damaged # "lost" /\ UNCHANGED damaged
    /\ LogInOrder(rows') /\ Len(rows') > Len(rows) /\ Len(rows') <= MaxEntries
    /\ \A i \in 1 .. Len(rows) : rows'[i] = rows[i]
    /\ \A i \in Len(rows) + 1 .. Len(rows') : rows'[i].action \in written
    /\ _scan_entries(rows) => _scan_entries(rows')
    /\ head' \in HeadRow /\ Signed(head') /\ Agrees(rows', head')
    /\ Len(head'.hash) > Len(HeadOrSeed.hash)
    /\ \A i \in 1 .. Len(HeadOrSeed.hash) : head'.hash[i] = HeadOrSeed.hash[i]

\* An append extends the chain by its entry, after the genesis marker of an empty log.
LEMMA AppendExtends ==
    ASSUME IInv, NEW p \in Appenders, append_in_session(p), appender[p].ok
    PROVE  /\ Extends({INIT_ACTION, appender[p].action})
           /\ rows'[Len(rows')].action = appender[p].action
<1> DEFINE h == appender[p].head
           action == appender[p].action
<1>1. h = HeadOrSeed /\ Claimable(h)
  BY DEF IInv, ClaimIsFresh, append_in_session
<1>2. /\ h \in HeadRow /\ damaged # "lost" /\ Agrees(rows, h) /\ (h.mac = Unsigned => rows = << >>)
      /\ LogInOrder(rows) /\ Len(rows) \in Nat /\ h.hash \in Seq(Actions) /\ action \in Actions
  BY <1>1, HeadFound, NewestRow DEF IInv, Typed, Appender, HeadRow
<1>3. Len(rows) + 2 <= MaxEntries /\ UNCHANGED damaged
  BY DEF append_in_session
<1> DEFINE opened == Opening(rows, h)
           done == Written(opened.log, opened.head, action)
<1>4. rows' = done.log /\ head' = done.head
  BY DEF append_in_session
<1>5. h.hash = NewestHash(rows) /\ Len(h.hash) = Len(rows)
  BY <1>2, NewestRow DEF Agrees
<1>6. CASE h.mac # Unsigned
  <2>1. opened.log = rows /\ opened.head = h
    BY <1>6 DEF Opening
  <2>2. done = Written(rows, h, action)
    BY <2>1
  <2> HIDE DEF done, opened, h, action
  <2>3. /\ LogInOrder(done.log) /\ Len(done.log) = Len(rows) + 1
        /\ done.head \in HeadRow /\ Signed(done.head) /\ Agrees(done.log, done.head)
        /\ done.head.hash = Append(h.hash, action)
        /\ \A i \in 1 .. Len(rows) : done.log[i] = rows[i]
        /\ done.log[Len(rows) + 1].action = action
        /\ _scan_entries(rows) => _scan_entries(done.log)
    BY <1>2, <1>3, <2>2, WrittenExtends, AuditAssumption
  <2>4. /\ Len(done.head.hash) = Len(h.hash) + 1
        /\ \A i \in 1 .. Len(h.hash) : done.head.hash[i] = h.hash[i]
    BY <1>2, <2>3, AppendProperties
  <2>5. \A i \in Len(rows) + 1 .. Len(done.log) : i = Len(rows) + 1
    BY <1>2, <2>3
  <2> QED BY <1>1, <1>2, <1>3, <1>4, <1>5, <2>3, <2>4, <2>5, AuditAssumption DEF Extends, action
<1>7. CASE h.mac = Unsigned
  <2>0. rows = << >>
    BY <1>2, <1>7
  <2>1. opened = Written(rows, h, INIT_ACTION)
    BY <1>7 DEF Opening
  <2>a. Len(rows) = 0
    BY <2>0
  <2>b. Len(rows) < MaxEntries /\ 1 < MaxEntries /\ 2 <= MaxEntries
    BY <1>3, <2>a, AuditAssumption
  <2> HIDE DEF opened, h, action
  <2>2. /\ LogInOrder(opened.log) /\ Len(opened.log) = 1
        /\ opened.head \in HeadRow /\ Agrees(opened.log, opened.head)
        /\ opened.log[1].action = INIT_ACTION
        /\ _scan_entries(rows) => _scan_entries(opened.log)
    <3>1. /\ LogInOrder(opened.log) /\ Len(opened.log) = Len(rows) + 1
          /\ opened.head \in HeadRow /\ Agrees(opened.log, opened.head)
          /\ opened.log[Len(rows) + 1].action = INIT_ACTION
          /\ _scan_entries(rows) => _scan_entries(opened.log)
      BY <1>2, <2>1, <2>b, TheActions, WrittenExtends
    <3> QED BY <2>a, <3>1
  <2>3. /\ LogInOrder(done.log) /\ Len(done.log) = 2
        /\ done.head \in HeadRow /\ Signed(done.head) /\ Agrees(done.log, done.head)
        /\ done.log[1] = opened.log[1] /\ done.log[2].action = action
        /\ _scan_entries(opened.log) => _scan_entries(done.log)
    <3>1. /\ LogInOrder(done.log) /\ Len(done.log) = Len(opened.log) + 1
          /\ done.head \in HeadRow /\ Signed(done.head) /\ Agrees(done.log, done.head)
          /\ \A i \in 1 .. Len(opened.log) : done.log[i] = opened.log[i]
          /\ done.log[Len(opened.log) + 1].action = action
          /\ _scan_entries(opened.log) => _scan_entries(done.log)
      <4>1. Len(opened.log) < MaxEntries /\ done = Written(opened.log, opened.head, action)
        BY <2>2, <2>b
      <4> HIDE DEF done
      <4>2. PICK log, led : log = opened.log /\ led = opened.head
        OBVIOUS
      <4>3. /\ LogInOrder(log) /\ led \in HeadRow /\ Agrees(log, led) /\ Len(log) < MaxEntries
            /\ action \in Actions /\ done = Written(log, led, action)
        BY <1>2, <2>2, <4>1, <4>2
      <4>4. /\ LogInOrder(done.log) /\ Len(done.log) = Len(log) + 1
            /\ done.head \in HeadRow /\ Signed(done.head) /\ Agrees(done.log, done.head)
            /\ \A i \in 1 .. Len(log) : done.log[i] = log[i]
            /\ done.log[Len(log) + 1].action = action
            /\ _scan_entries(log) => _scan_entries(done.log)
        BY <4>3, WrittenExtends
      <4> QED BY <4>2, <4>4
    <3> HIDE DEF done
    <3> QED BY <2>2, <3>1
  <2>4. Len(done.head.hash) = 2
    BY <2>3, NewestRow DEF Agrees
  <2>5. \A i \in Len(rows) + 1 .. Len(done.log) : i = 1 \/ i = 2
    BY <2>a, <2>3
  <2> HIDE DEF done
  <2> QED BY <1>1, <1>2, <1>3, <1>4, <1>5, <2>a, <2>b, <2>2, <2>3, <2>4, <2>5 DEF Extends, action
<1> QED BY <1>6, <1>7

\* The adoption of a legacy chain extends it by the adoption entry.
LEMMA AdoptionExtends ==
    ASSUME IInv, adopt_legacy_chain
    PROVE  Extends({ADOPTION_ACTION})
<1>1. PICK h : h = HeadOrSeed
  OBVIOUS
<1> DEFINE signed == [h EXCEPT !.mac = _head_mac(h.seq, h.hash, h.id), !.adopted = TRUE]
           done == Written(rows, signed, ADOPTION_ACTION)
<1>2. /\ h \in HeadRow /\ damaged # "lost" /\ Agrees(rows, h)
      /\ LogInOrder(rows) /\ Len(rows) \in Nat /\ h.hash \in Seq(Actions) /\ Len(h.hash) = Len(rows)
  BY <1>1, HeadFound, NewestRow DEF IInv, Typed, HeadRow, adopt_legacy_chain, Agrees
<1>3. Len(rows) < MaxEntries /\ UNCHANGED damaged /\ rows' = done.log /\ head' = done.head
  BY <1>1 DEF adopt_legacy_chain
<1>4. signed \in HeadRow /\ signed.hash = h.hash /\ Agrees(rows, signed)
  BY <1>2 DEF HeadRow, Mac, _head_mac, Agrees
<1> HIDE DEF signed, done
<1>5. /\ LogInOrder(done.log) /\ Len(done.log) = Len(rows) + 1
      /\ done.head \in HeadRow /\ Signed(done.head) /\ Agrees(done.log, done.head)
      /\ done.head.hash = Append(h.hash, ADOPTION_ACTION)
      /\ \A i \in 1 .. Len(rows) : done.log[i] = rows[i]
      /\ done.log[Len(rows) + 1].action = ADOPTION_ACTION
      /\ _scan_entries(rows) => _scan_entries(done.log)
  BY <1>2, <1>3, <1>4, TheActions, WrittenExtends DEF done
<1>6. /\ Len(done.head.hash) = Len(h.hash) + 1
      /\ \A i \in 1 .. Len(h.hash) : done.head.hash[i] = h.hash[i]
  BY <1>2, <1>5, TheActions, AppendProperties
<1>7. \A i \in Len(rows) + 1 .. Len(done.log) : i = Len(rows) + 1
  BY <1>2, <1>5
<1> QED BY <1>1, <1>2, <1>3, <1>5, <1>6, <1>7, AuditAssumption DEF Extends

-----------------------------------------------------------------------------
(* Every step keeps the invariant.                                         *)

StoreIsSound ==
    /\ LogInOrder(rows) /\ Len(rows) <= MaxEntries /\ HeadInOrder(head) /\ damaged \in {"none", "lost", "changed"}
    /\ HeadLeads /\ LossShows /\ ChangeShows /\ ScanIsClean

\* Writing entries keeps the log and the head in order, and every entry that was there.
LEMMA ExtensionKeeps ==
    ASSUME IInv, NEW written, Extends(written)
    PROVE  /\ StoreIsSound'
           /\ \A kind, p : Recorded(rows, kind, p) => Recorded(rows', kind, p)
           /\ \A kind, p : Recorded(rows', kind, p) => Recorded(rows, kind, p) \/ <<kind, p>> \in written
<1>1. /\ LogInOrder(rows) /\ Len(rows) \in Nat /\ DOMAIN rows = 1 .. Len(rows)
      /\ LogInOrder(rows') /\ Len(rows') \in Nat /\ DOMAIN rows' = 1 .. Len(rows') /\ Len(NewestHash(rows')) = Len(rows')
      /\ NewestId(rows') = Len(rows')
  BY NewestRow DEF IInv, Typed, Extends
<1>2. /\ damaged' = damaged /\ damaged # "lost" /\ Len(rows') > Len(rows) /\ Len(rows') <= MaxEntries
      /\ \A i \in 1 .. Len(rows) : i \in 1 .. Len(rows') /\ rows'[i] = rows[i]
  BY <1>1 DEF Extends
<1>3. head' # NoHead /\ HeadInOrder(head')
  BY <1>1, <1>2, HeadRowExists DEF Extends, HeadInOrder, Agrees
<1>4. HeadLeads' /\ LossShows'
  <2>1. rows' # << >>
    BY <1>1, <1>2
  <2> QED BY <1>2, <1>3, <2>1 DEF Extends, HeadLeads, LossShows
<1>5. ChangeShows'
  BY <1>1, <1>2 DEF IInv, ChangeShows
<1>6. ScanIsClean'
  BY <1>2 DEF IInv, ScanIsClean, Extends
<1>7. \A kind, p : Recorded(rows, kind, p) => Recorded(rows', kind, p)
  BY <1>1, <1>2 DEF Recorded
<1>8. ASSUME NEW kind, NEW p, Recorded(rows', kind, p) PROVE Recorded(rows, kind, p) \/ <<kind, p>> \in written
  <2>1. PICK i \in 1 .. Len(rows') : rows'[i].action = <<kind, p>>
    BY <1>1, <1>8 DEF Recorded
  <2>2. CASE i \in 1 .. Len(rows)
    BY <1>1, <1>2, <2>1, <2>2 DEF Recorded
  <2>3. CASE i \in Len(rows) + 1 .. Len(rows')
    BY <2>1, <2>3 DEF Extends
  <2> QED BY <1>1, <1>2, <2>2, <2>3
<1> QED BY <1>1, <1>2, <1>3, <1>4, <1>5, <1>6, <1>7, <1>8 DEF StoreIsSound, IInv, Typed

\* A step that touches neither log nor head keeps them, and what may be claimed.
LEMMA StoreKept ==
    ASSUME IInv, UNCHANGED <<rows, head, damaged>>
    PROVE  StoreIsSound' /\ HeadOrSeed' = HeadOrSeed /\ Claimable(HeadOrSeed)' = Claimable(HeadOrSeed)
BY DEF IInv, Typed, StoreIsSound, HeadInOrder, LogInOrder, HeadLeads, LossShows, ChangeShows, ScanIsClean,
       HeadOrSeed, Claimable, Empty, Signed

\* The parts of the invariant about the processes and the verifier.
CallersSound == /\ lock \in Appenders \cup {Nobody} /\ appender \in [Appenders -> Appender]
                /\ effect \in [Appenders -> {"none", "taken", "raised"}] /\ ClaimIsFresh /\ CallersKnow
ReaderSound == /\ verifier.at \in {"idle", "read"} /\ verifier.verdict \in {"none", "intact", "broken"}
               /\ SnapshotIsWhole

\* Together they are the invariant.
LEMMA Parts ==
    ASSUME StoreIsSound', CallersSound', ReaderSound'
    PROVE  IInv'
BY DEF IInv, Typed, StoreIsSound, CallersSound, ReaderSound

\* Types of a process that moves on.
LEMMA AppenderTypes ==
    /\ Idle \in Appender /\ ~Idle.claimed /\ Idle.at = "idle"
    /\ \A p \in Appenders, at \in {"attempting", "acting", "recording"}, kind \in {"attempted", "done", "failed"} :
          /\ Step(p, at, kind) \in Appender /\ Step(p, at, kind).at = at /\ ~Step(p, at, kind).claimed
          /\ Step(p, at, kind).action = <<kind, p>>
BY TheActions DEF Idle, Step, Appender, NoHead

\* A process that claims the head reads what is so.
LEMMA LockKeeps ==
    ASSUME IInv, NEW p \in Appenders, _lock_head(p)
    PROVE  IInv'
<1> DEFINE new == [appender[p] EXCEPT !.claimed = TRUE, !.head = HeadOrSeed, !.ok = Claimable(HeadOrSeed)]
<1>1. UNCHANGED <<rows, head, effect, verifier, damaged>> /\ lock = Nobody /\ lock' = p
  BY DEF _lock_head, Free
<1>2. HeadOrSeed \in HeadRow /\ Claimable(HeadOrSeed) \in BOOLEAN
  BY HeadFound DEF IInv, Claimable
<1>3. appender[p] \in Appender
  BY DEF IInv, Typed
<1>4. new \in Appender /\ new.claimed /\ new.at = appender[p].at /\ new.action = appender[p].action
      /\ new.head = HeadOrSeed /\ new.ok = Claimable(HeadOrSeed)
  BY <1>2, <1>3 DEF Appender
<1> HIDE DEF new
<1>5. appender' = [appender EXCEPT ![p] = new] /\ appender[p].at \in {"attempting", "recording"}
  BY DEF _lock_head, new
<1>6. appender' \in [Appenders -> Appender] /\ appender'[p] = new /\ \A q \in Appenders \ {p} : appender'[q] = appender[q]
  BY <1>4, <1>5 DEF IInv, Typed
<1>7. ClaimIsFresh'
  BY <1>1, <1>4, <1>5, <1>6, StoreKept, AuditAssumption DEF IInv, ClaimIsFresh
<1>8. CallersKnow'
  BY <1>1, <1>4, <1>6 DEF IInv, CallersKnow, CallerKnows, AttemptIsLogged, EvidenceOf
<1>9. CallersSound' /\ ReaderSound'
  BY <1>1, <1>6, <1>7, <1>8 DEF IInv, Typed, CallersSound, ReaderSound, SnapshotIsWhole
<1> QED BY <1>1, <1>9, StoreKept, Parts

\* A process that lets go of the lock, or never held it, and starts over or stops.
LEMMA LettingGo ==
    ASSUME IInv, NEW p \in Appenders, NEW new \in Appender, ~new.claimed,
           appender' = [appender EXCEPT ![p] = new],
           lock' = IF lock = p THEN Nobody ELSE lock,
           UNCHANGED <<rows, head, effect, verifier, damaged>>,
           new.at = "idle" \/ (new.at = appender[p].at /\ new.action = appender[p].action)
    PROVE  IInv'
<1>1. appender' \in [Appenders -> Appender] /\ appender'[p] = new /\ \A q \in Appenders \ {p} : appender'[q] = appender[q]
  BY DEF IInv, Typed
<1>2. ClaimIsFresh'
  BY <1>1, StoreKept DEF IInv, ClaimIsFresh
<1>3. CallersKnow'
  BY <1>1 DEF IInv, CallersKnow, CallerKnows, AttemptIsLogged, EvidenceOf
<1>4. CallersSound' /\ ReaderSound'
  BY <1>1, <1>2, <1>3 DEF IInv, Typed, CallersSound, ReaderSound, SnapshotIsWhole
<1> QED BY <1>4, StoreKept, Parts

\* Rolling back and trying again.
LEMMA RollbackKeeps ==
    ASSUME IInv, NEW p \in Appenders, Rollback(p) \/ Retry(p)
    PROVE  IInv'
<1>1. CASE Rollback(p)
  BY <1>1, AppenderTypes, LettingGo DEF Rollback
<1>2. CASE Retry(p)
  <2> DEFINE new == [appender[p] EXCEPT !.claimed = FALSE, !.head = NoHead, !.ok = FALSE]
  <2>1. new \in Appender /\ ~new.claimed /\ new.at = appender[p].at /\ new.action = appender[p].action
    BY DEF IInv, Typed, Appender
  <2>2. lock = p
    BY <1>2 DEF IInv, ClaimIsFresh, Retry
  <2> QED BY <1>2, <2>1, <2>2, LettingGo DEF Retry
<1> QED BY <1>1, <1>2

\* An append leaves the evidence of what its process was about.
LEMMA AppendKeeps ==
    ASSUME IInv, NEW p \in Appenders, append_in_session(p)
    PROVE  IInv'
<1> DEFINE a == appender[p]
           new == After(p, a.ok)
<1>1. /\ a \in Appender /\ a.claimed /\ lock = p /\ lock' = Nobody /\ UNCHANGED <<effect, verifier, damaged>>
      /\ a.at \in {"attempting", "recording"} /\ appender' = [appender EXCEPT ![p] = new]
  BY DEF IInv, Typed, ClaimIsFresh, append_in_session
<1>2. /\ new \in Appender /\ ~new.claimed /\ new.at \in {"idle", "acting"}
      /\ new.at = "acting" => a.at = "attempting" /\ a.ok
  BY AppenderTypes, TheActions DEF After
<1> HIDE DEF new
<1>3. appender' \in [Appenders -> Appender] /\ appender'[p] = new /\ \A q \in Appenders \ {p} : appender'[q] = appender[q]
  BY <1>1, <1>2 DEF IInv, Typed
<1>4. \A q \in Appenders : ~appender'[q].claimed
  BY <1>1, <1>2, <1>3 DEF IInv, ClaimIsFresh
<1>5. \A q \in Appenders : CallerKnows(q)'
  BY <1>1, <1>2, <1>3 DEF IInv, CallersKnow, CallerKnows
<1>6. CASE ~a.ok
  <2>1. UNCHANGED <<rows, head>> /\ new.at = "idle"
    BY <1>2, <1>6 DEF append_in_session
  <2>2. CallersKnow'
    BY <1>1, <1>3, <1>5, <2>1 DEF IInv, CallersKnow, AttemptIsLogged, EvidenceOf
  <2>3. CallersSound' /\ ReaderSound'
    BY <1>1, <1>3, <1>4, <2>1, <2>2 DEF IInv, Typed, CallersSound, ReaderSound, SnapshotIsWhole, ClaimIsFresh
  <2> QED BY <1>1, <2>1, <2>3, StoreKept, Parts
<1>7. CASE a.ok
  <2>1. Extends({INIT_ACTION, a.action}) /\ rows'[Len(rows')].action = a.action
    BY <1>7, AppendExtends
  <2>2. /\ StoreIsSound'
        /\ \A kind, q : Recorded(rows, kind, q) => Recorded(rows', kind, q)
        /\ \A kind, q : Recorded(rows', kind, q) => Recorded(rows, kind, q) \/ <<kind, q>> \in {INIT_ACTION, a.action}
    BY <2>1, ExtensionKeeps
  <2>3. \A kind, q : <<kind, q>> = a.action => Recorded(rows', kind, q)
    <3>1. Len(rows') \in DOMAIN rows'
      BY <2>1, NewestRow DEF Extends, IInv, Typed
    <3> QED BY <2>1, <3>1 DEF Recorded
  <2>4. ASSUME NEW q \in Appenders, damaged = "none" PROVE AttemptIsLogged(q)'
    <3>1. AttemptIsLogged(q) /\ CallerKnows(q)
      BY <2>4 DEF IInv, CallersKnow
    <3> QED BY <1>1, <1>2, <1>3, <2>2, <2>3, <3>1 DEF AttemptIsLogged, CallerKnows
  <2>5. ASSUME NEW q \in Appenders, damaged = "none" PROVE EvidenceOf(q)'
    <3>1. EvidenceOf(q) /\ CallerKnows(p)
      BY <2>5 DEF IInv, CallersKnow
    <3>2. \A kind \in {"done", "failed"} : Recorded(rows', kind, q) => Recorded(rows, kind, q) \/ <<kind, q>> = a.action
      BY <2>2, TheActions
    <3>3. a.action = <<"done", q>> => q = p /\ effect[p] = "taken"
      BY <1>1, <3>1 DEF CallerKnows
    <3>4. a.action = <<"failed", q>> => q = p /\ effect[p] = "raised"
      BY <1>1, <3>1 DEF CallerKnows, IInv, Typed
    <3> QED BY <1>1, <2>2, <3>1, <3>2, <3>3, <3>4 DEF EvidenceOf
  <2>6. CallersKnow'
    BY <1>1, <1>5, <2>4, <2>5 DEF CallersKnow
  <2>7. CallersSound' /\ ReaderSound'
    BY <1>1, <1>3, <1>4, <2>6 DEF IInv, Typed, CallersSound, ReaderSound, SnapshotIsWhole, ClaimIsFresh
  <2> QED BY <2>2, <2>7, Parts
<1> QED BY <1>6, <1>7

\* An adoption touches no process.
LEMMA AdoptionKeeps ==
    ASSUME IInv, adopt_legacy_chain
    PROVE  IInv'
<1>1. UNCHANGED <<lock, appender, effect, verifier, damaged>> /\ lock = Nobody
  BY DEF adopt_legacy_chain
<1>2. Extends({ADOPTION_ACTION})
  BY AdoptionExtends
<1>3. /\ StoreIsSound'
      /\ \A kind, q : Recorded(rows, kind, q) => Recorded(rows', kind, q)
      /\ \A kind \in {"attempted", "done", "failed"}, q \in Appenders : Recorded(rows', kind, q) => Recorded(rows, kind, q)
  <2>1. \A kind, q : Recorded(rows', kind, q) => Recorded(rows, kind, q) \/ <<kind, q>> \in {ADOPTION_ACTION}
    BY <1>2, ExtensionKeeps
  <2>2. StoreIsSound' /\ \A kind, q : Recorded(rows, kind, q) => Recorded(rows', kind, q)
    BY <1>2, ExtensionKeeps
  <2> QED BY <2>1, <2>2, TheActions
<1>4. \A q \in Appenders : ~appender[q].claimed
  BY <1>1, AuditAssumption DEF IInv, ClaimIsFresh
<1>5. CallersKnow'
  <2>1. \A q \in Appenders : CallerKnows(q)'
    BY <1>1 DEF IInv, CallersKnow, CallerKnows
  <2>2. ASSUME NEW q \in Appenders, damaged = "none" PROVE AttemptIsLogged(q)' /\ EvidenceOf(q)'
    <3>1. AttemptIsLogged(q) /\ EvidenceOf(q)
      BY <2>2 DEF IInv, CallersKnow
    <3> QED BY <1>1, <1>3, <3>1 DEF AttemptIsLogged, EvidenceOf
  <2> QED BY <1>1, <2>1, <2>2 DEF CallersKnow
<1>6. CallersSound' /\ ReaderSound'
  BY <1>1, <1>4, <1>5 DEF IInv, Typed, CallersSound, ReaderSound, SnapshotIsWhole, ClaimIsFresh
<1> QED BY <1>3, <1>6, Parts

\* A process begins, and takes its effect only after its attempt was recorded.
LEMMA CallerKeeps ==
    ASSUME IInv, NEW p \in Appenders, required_effect(p) \/ Effect(p)
    PROVE  IInv'
<1>1. UNCHANGED <<rows, head, lock, verifier, damaged>>
  BY DEF required_effect, Effect
<1>2. ASSUME NEW new \in Appender, ~new.claimed, appender' = [appender EXCEPT ![p] = new],
             NEW outcome \in {"none", "taken", "raised"}, effect' = [effect EXCEPT ![p] = outcome],
             CallerKnows(p)', damaged = "none" => AttemptIsLogged(p)' /\ EvidenceOf(p)'
      PROVE  IInv'
  <2>1. /\ appender' \in [Appenders -> Appender] /\ appender'[p] = new /\ \A q \in Appenders \ {p} : appender'[q] = appender[q]
        /\ effect' \in [Appenders -> {"none", "taken", "raised"}] /\ \A q \in Appenders \ {p} : effect'[q] = effect[q]
    BY <1>2 DEF IInv, Typed
  <2>2. ClaimIsFresh'
    BY <1>1, <1>2, <2>1, StoreKept DEF IInv, ClaimIsFresh
  <2>3. CallersKnow'
    BY <1>1, <1>2, <2>1 DEF IInv, CallersKnow, CallerKnows, AttemptIsLogged, EvidenceOf
  <2>4. CallersSound' /\ ReaderSound'
    BY <1>1, <2>1, <2>2, <2>3 DEF IInv, Typed, CallersSound, ReaderSound, SnapshotIsWhole
  <2> QED BY <1>1, <2>4, StoreKept, Parts
<1>3. CASE required_effect(p)
  <2> DEFINE new == Step(p, "attempting", "attempted")
  <2>1. new \in Appender /\ ~new.claimed /\ new.at = "attempting" /\ new.action = <<"attempted", p>>
    BY AppenderTypes
  <2> HIDE DEF new
  <2>2. /\ appender' = [appender EXCEPT ![p] = new] /\ effect' = [effect EXCEPT ![p] = "none"] /\ effect' = effect
        /\ effect[p] = "none" /\ appender'[p] = new
    BY <1>3 DEF required_effect, IInv, Typed, new
  <2>3. CallerKnows(p)'
    BY <2>1, <2>2 DEF CallerKnows
  <2>4. damaged = "none" => AttemptIsLogged(p)' /\ EvidenceOf(p)'
    BY <1>1, <2>1, <2>2 DEF IInv, CallersKnow, AttemptIsLogged, EvidenceOf
  <2> QED BY <1>2, <2>1, <2>2, <2>3, <2>4
<1>4. CASE Effect(p)
  <2>1. PICK outcome \in {"taken", "raised"} :
           /\ effect' = [effect EXCEPT ![p] = outcome]
           /\ appender' = [appender EXCEPT ![p] = Step(p, "recording", IF outcome = "taken" THEN "done" ELSE "failed")]
    BY <1>4 DEF Effect
  <2>2. PICK new : new = Step(p, "recording", IF outcome = "taken" THEN "done" ELSE "failed")
    OBVIOUS
  <2>3. new \in Appender /\ ~new.claimed /\ new.at = "recording"
        /\ new.action = IF outcome = "taken" THEN <<"done", p>> ELSE <<"failed", p>>
    BY <2>2, AppenderTypes
  <2>4. effect'[p] = outcome /\ appender'[p] = new /\ appender[p].at = "acting"
    BY <1>4, <2>1, <2>2 DEF IInv, Typed, Effect
  <2>5. CallerKnows(p)'
    BY <2>3, <2>4 DEF CallerKnows
  <2>6. ASSUME damaged = "none" PROVE AttemptIsLogged(p)' /\ EvidenceOf(p)'
    <3>1. AttemptIsLogged(p) /\ EvidenceOf(p) /\ CallerKnows(p)
      BY <2>6 DEF IInv, CallersKnow
    <3> QED BY <1>1, <2>3, <2>4, <3>1 DEF AttemptIsLogged, EvidenceOf, CallerKnows
  <2> QED BY <1>2, <2>1, <2>2, <2>3, <2>5, <2>6
<1> QED BY <1>3, <1>4

\* A verification keeps the snapshot it took.
LEMMA VerifierKeeps ==
    ASSUME IInv, VerifyReads \/ verify_chain
    PROVE  IInv'
<1>1. UNCHANGED <<rows, head, lock, appender, effect, damaged>>
  BY DEF VerifyReads, verify_chain
<1>2. CallersSound'
  <2>1. ClaimIsFresh'
    BY <1>1, StoreKept DEF IInv, ClaimIsFresh
  <2> QED BY <1>1, <2>1 DEF IInv, Typed, CallersSound, CallersKnow, CallerKnows, AttemptIsLogged, EvidenceOf
<1>3. CASE VerifyReads
  <2>1. verifier'.at = "read" /\ verifier'.log = rows /\ verifier'.head = head /\ verifier'.verdict = verifier.verdict
    BY <1>3 DEF VerifyReads
  <2>2. damaged = "none" => HeadInOrder(head) /\ Untouched(rows, head)
    BY DEF IInv, Typed, HeadLeads, ScanIsClean, Untouched
  <2>3. ReaderSound'
    BY <1>1, <2>1, <2>2 DEF IInv, Typed, ReaderSound, SnapshotIsWhole
  <2> QED BY <1>1, <1>2, <2>3, StoreKept, Parts
<1>4. CASE verify_chain
  <2>1. verifier'.at = "idle" /\ verifier'.verdict \in {"intact", "broken"}
    BY <1>4 DEF verify_chain
  <2>2. ReaderSound'
    BY <2>1 DEF ReaderSound, SnapshotIsWhole
  <2> QED BY <1>1, <1>2, <2>2, StoreKept, Parts
<1> QED BY <1>3, <1>4

\* Damage is done when nobody holds the lock, and shows.
LEMMA DamageKeeps ==
    ASSUME IInv, LosesRows \/ ChangesRow \/ LosesHead
    PROVE  IInv'
<1>1. /\ UNCHANGED <<lock, appender, effect, verifier>> /\ lock = Nobody /\ damaged = "none"
      /\ damaged' \in {"lost", "changed"}
  BY DEF LosesRows, ChangesRow, LosesHead
<1>2. \A q \in Appenders : ~appender[q].claimed
  BY <1>1, AuditAssumption DEF IInv, ClaimIsFresh
<1>3. CallersSound' /\ ReaderSound'
  BY <1>1, <1>2 DEF IInv, Typed, CallersSound, ReaderSound, SnapshotIsWhole, ClaimIsFresh, CallersKnow, CallerKnows
<1>4. /\ rows \in Seq(Entry) /\ Len(rows) \in Nat /\ DOMAIN rows = 1 .. Len(rows) /\ Len(rows) <= MaxEntries
      /\ NewestId(rows) = Len(rows) /\ LogInOrder(rows) /\ HeadInOrder(head)
      /\ \A i \in 1 .. Len(rows) : /\ rows[i] \in Entry /\ rows[i].id = i
                                   /\ Len(rows[i].prev) = i - 1 /\ Len(rows[i].hash) = i
  BY NewestRow DEF IInv, Typed, LogInOrder
<1>5. IF head = NoHead THEN rows = << >> ELSE Agrees(rows, head)
  BY <1>1 DEF IInv, HeadLeads
<1>6. CASE LosesRows
  <2>1. PICK n \in 0 .. Len(rows) - 1 : rows' = SubSeq(rows, 1, n)
    BY <1>6 DEF LosesRows
  <2>2. \A i \in 1 .. n : i \in 1 .. Len(rows) /\ rows[i] \in Entry
    BY <1>4
  <2>3. rows' \in Seq(Entry) /\ Len(rows') = n /\ \A i \in 1 .. n : rows'[i] = rows[i]
    BY <1>4, <2>1, <2>2, SubSeqProperties
  <2>4. LogInOrder(rows')
    BY <1>4, <2>2, <2>3, LenProperties DEF LogInOrder
  <2>5. NewestId(rows') = n /\ head.id = Len(rows) /\ head # NoHead
    BY <1>4, <1>5, <1>6, <2>3, <2>4, NewestRow DEF LosesRows, Agrees
  <2>6. head' = head /\ damaged' = "lost"
    BY <1>6 DEF LosesRows
  <2>7. StoreIsSound'
    BY <1>4, <2>3, <2>4, <2>5, <2>6, AuditAssumption
    DEF StoreIsSound, HeadLeads, LossShows, ChangeShows, ScanIsClean, HeadInOrder, Signed
  <2> QED BY <1>3, <2>7, Parts
<1>7. CASE ChangesRow
  <2>1. PICK i \in 1 .. Len(rows), act \in {<<"legacy", Nobody>>, INIT_ACTION} :
           act # rows[i].action /\ rows' = [rows EXCEPT ![i].action = act]
    BY <1>4, <1>7 DEF ChangesRow
  <2> DEFINE e == [rows[i] EXCEPT !.action = act]
  <2>2. /\ e \in Entry /\ e.id = rows[i].id /\ e.prev = rows[i].prev /\ e.hash = rows[i].hash /\ e.action = act
        /\ act \in Actions
    <3>1. act \in Actions
      BY TheActions DEF Actions
    <3> QED BY <1>4, <3>1 DEF Entry
  <2>3. rows' = [rows EXCEPT ![i] = e]
    BY <2>1
  <2> HIDE DEF e
  <2>4. rows' \in Seq(Entry) /\ Len(rows') = Len(rows) /\ \A j \in 1 .. Len(rows) : rows'[j] = IF j = i THEN e ELSE rows[j]
    BY <1>4, <2>2, <2>3, ExceptSeq
  <2>5. DOMAIN rows' = 1 .. Len(rows)
    BY <2>4, LenProperties
  <2>6. LogInOrder(rows')
    BY <1>4, <2>2, <2>4, <2>5 DEF LogInOrder
  <2>7. NewestId(rows') = Len(rows)
    BY <2>4, <2>6, NewestRow
  <2>8. NewestHash(rows') = NewestHash(rows)
    <3>1. rows # << >> /\ rows' # << >> /\ Len(rows) \in 1 .. Len(rows)
      BY <1>4, <2>4, EmptySeq
    <3>2. rows'[Len(rows)].hash = rows[Len(rows)].hash
      BY <2>2, <2>4, <3>1
    <3> QED BY <2>4, <3>1, <3>2 DEF NewestHash
  <2>9. head # NoHead /\ Agrees(rows, head) /\ head' = head /\ damaged' = "changed"
    BY <1>4, <1>5, <1>7, EmptySeq DEF ChangesRow
  <2>10. Agrees(rows', head)
    BY <1>4, <2>4, <2>7, <2>8, <2>9 DEF Agrees
  <2>11. rows'[i].hash # _compute_hash(rows'[i].prev, rows'[i].action)
    <3>1. rows[i].hash = Append(rows[i].prev, rows[i].action)
      BY <1>1, <1>4 DEF IInv, ScanIsClean, _scan_entries, _compute_hash
    <3>2. rows[i].prev \in Seq(Actions) /\ rows[i].action \in Actions
      BY <1>4 DEF Entry
    <3>3. Append(rows[i].prev, rows[i].action) # Append(rows[i].prev, act)
      BY <2>1, <2>2, <3>2, AppendInjective
    <3> QED BY <2>2, <2>4, <3>1, <3>3 DEF _compute_hash
  <2>12. rows' # << >>
    BY <1>4, <2>4
  <2>13. StoreIsSound'
    BY <1>4, <2>4, <2>5, <2>6, <2>9, <2>10, <2>11, <2>12
    DEF StoreIsSound, HeadLeads, LossShows, ChangeShows, ScanIsClean, HeadInOrder, Signed
  <2> QED BY <1>3, <2>13, Parts
<1>8. CASE LosesHead
  <2>1. head' = NoHead /\ rows' = rows /\ damaged' = "lost" /\ head # NoHead /\ head.mac # Unsigned
    BY <1>8 DEF LosesHead
  <2>2. rows # << >>
    BY <1>1, <2>1 DEF IInv, HeadLeads
  <2>3. StoreIsSound'
    BY <1>4, <2>1, <2>2 DEF StoreIsSound, HeadLeads, LossShows, ChangeShows, ScanIsClean, HeadInOrder
  <2> QED BY <1>3, <2>3, Parts
<1> QED BY <1>6, <1>7, <1>8

-----------------------------------------------------------------------------
(* The invariant and what follows from it.                                 *)

\* A chain of legacy entries is in order and scans clean.
LEMMA LegacyInOrder ==
    ASSUME NEW n \in 0 .. 2
    PROVE  LogInOrder(Legacy(n)) /\ Len(Legacy(n)) = n /\ _scan_entries(Legacy(n))
<1> DEFINE L == <<"legacy", Nobody>>
           past(k) == [j \in 1 .. k |-> L]
           entry(i) == [id |-> i, action |-> L, prev |-> past(i - 1), hash |-> Append(past(i - 1), L)]
<1>1. L \in Actions
  BY DEF Actions
<1> HIDE DEF L
<1>2. ASSUME NEW k \in Nat PROVE past(k) \in Seq(Actions) /\ Len(past(k)) = k
  BY <1>1
<1> HIDE DEF past
<1>3. ASSUME NEW k \in Nat PROVE Append(past(k), L) = past(k + 1)
  <2>1. past(k) \in Seq(Actions) /\ past(k + 1) \in Seq(Actions) /\ Len(past(k)) = k /\ Len(past(k + 1)) = k + 1
    BY <1>2
  <2>2. /\ Append(past(k), L) \in Seq(Actions) /\ Len(Append(past(k), L)) = k + 1
        /\ \A i \in 1 .. k : Append(past(k), L)[i] = past(k)[i]
        /\ Append(past(k), L)[k + 1] = L
    BY <1>1, <2>1, AppendProperties
  <2>3. (\A i \in 1 .. k : past(k)[i] = L) /\ \A i \in 1 .. k + 1 : past(k + 1)[i] = L
    BY DEF past
  <2>4. \A i \in 1 .. k + 1 : Append(past(k), L)[i] = past(k + 1)[i]
    BY <2>2, <2>3
  <2> QED BY <2>1, <2>2, <2>4, SeqEqual
<1>4. ASSUME NEW i \in 1 .. n PROVE entry(i) \in Entry /\ Len(entry(i).prev) = i - 1 /\ entry(i).hash = past(i) /\ Len(entry(i).hash) = i
  <2>1. i - 1 \in Nat /\ i \in Nat /\ (i - 1) + 1 = i
    OBVIOUS
  <2>2. past(i - 1) \in Seq(Actions) /\ Len(past(i - 1)) = i - 1 /\ past(i) \in Seq(Actions) /\ Len(past(i)) = i
    BY <1>2, <2>1
  <2>3. Append(past(i - 1), L) = past(i)
    BY <1>3, <2>1
  <2> QED BY <1>1, <2>1, <2>2, <2>3 DEF Entry
<1>5. Legacy(n) = [i \in 1 .. n |-> entry(i)]
  BY DEF Legacy, Row, _compute_hash, past, L
<1> HIDE DEF entry
<1>6. Legacy(n) \in Seq(Entry) /\ Len(Legacy(n)) = n /\ \A i \in 1 .. n : Legacy(n)[i] = entry(i)
  BY <1>4, <1>5
<1>7. DOMAIN Legacy(n) = 1 .. n
  BY <1>6, LenProperties
<1>8. LogInOrder(Legacy(n))
  <2>1. \A i \in 1 .. n : entry(i).id = i
    BY DEF entry
  <2> QED BY <1>4, <1>6, <1>7, <2>1 DEF LogInOrder
<1>9. _scan_entries(Legacy(n))
  <2>1. ASSUME NEW i \in 1 .. n PROVE entry(i).prev = IF i = 1 THEN GENESIS_HASH ELSE entry(i - 1).hash
    <3>1. CASE i = 1
      <4>1. past(0) = << >>
        BY DEF past
      <4> QED BY <3>1, <4>1 DEF entry, GENESIS_HASH
    <3>2. CASE i # 1
      <4>1. i - 1 \in 1 .. n
        BY <3>2
      <4>2. entry(i - 1).hash = past(i - 1)
        BY <1>4, <4>1
      <4> QED BY <3>2, <4>2 DEF entry
    <3> QED BY <3>1, <3>2
  <2>2. ASSUME NEW i \in 1 .. n PROVE entry(i).hash = _compute_hash(entry(i).prev, entry(i).action)
    BY DEF entry, _compute_hash
  <2>3. \A i \in 1 .. n : i # 1 => i - 1 \in 1 .. n
    OBVIOUS
  <2> QED BY <1>6, <1>7, <2>1, <2>2, <2>3 DEF _scan_entries
<1> QED BY <1>6, <1>8, <1>9

\* The invariant holds of a fresh store and of a legacy one.
LEMMA InitIsSound ==
    ASSUME AuditInit
    PROVE  IInv
<1>1. PICK n \in 0 .. 2 : rows = Legacy(n) /\ head \in {Seeded(Legacy(n))} \cup (IF n = 0 THEN {NoHead} ELSE {})
  BY DEF AuditInit
<1>2. LogInOrder(rows) /\ Len(rows) = n /\ _scan_entries(rows)
  BY <1>1, LegacyInOrder
<1>3. NewestId(rows) = n /\ NewestHash(rows) \in Seq(Actions) /\ Len(NewestHash(rows)) = n
  BY <1>2, NewestRow
<1>4. n <= MaxEntries /\ n \in 0 .. MaxEntries
  BY AuditAssumption
<1>5. HeadInOrder(head) /\ (IF head = NoHead THEN rows = << >> ELSE Agrees(rows, head) /\ head.mac = Unsigned)
  <2>1. CASE head = NoHead
    BY <1>1, <1>2, <2>1 DEF HeadInOrder, Seeded, NoHead, LogInOrder
  <2>2. CASE head = Seeded(rows)
    BY <1>2, <1>3, <1>4, <2>2 DEF HeadInOrder, Seeded, NoHead, HeadRow, Agrees
  <2> QED BY <1>1, <2>1, <2>2
<1>6. appender = [p \in Appenders |-> Idle] /\ effect = [p \in Appenders |-> "none"] /\ lock = Nobody
      /\ verifier.at = "idle" /\ verifier.verdict = "none" /\ damaged = "none"
  BY DEF AuditInit
<1>7. ASSUME NEW p \in Appenders, NEW kind \in {"attempted", "done", "failed"} PROVE ~Recorded(rows, kind, p)
  <2>1. \A i \in 1 .. n : rows[i].action = <<"legacy", Nobody>>
    BY <1>1 DEF Legacy, Row
  <2>2. DOMAIN rows = 1 .. n
    BY <1>2, NewestRow
  <2> QED BY <2>1, <2>2 DEF Recorded
<1>8. CallersKnow /\ ClaimIsFresh
  BY <1>6, <1>7, AppenderTypes DEF CallersKnow, CallerKnows, AttemptIsLogged, EvidenceOf, ClaimIsFresh
<1>9. Typed
  BY <1>2, <1>4, <1>5, <1>6, AppenderTypes DEF Typed
<1> QED BY <1>2, <1>5, <1>6, <1>8, <1>9
        DEF IInv, HeadLeads, LossShows, ChangeShows, ScanIsClean, SnapshotIsWhole

\* Every step keeps it.
LEMMA StepIsSound ==
    ASSUME IInv, [AuditNext]_auditVars
    PROVE  IInv'
<1>1. ASSUME NEW p \in Appenders,
             \/ _lock_head(p) \/ append_in_session(p) \/ Rollback(p) \/ Retry(p) \/ required_effect(p) \/ Effect(p)
      PROVE  IInv'
  BY <1>1, LockKeeps, AppendKeeps, RollbackKeeps, CallerKeeps
<1>2. CASE UNCHANGED auditVars
  BY <1>2 DEF auditVars, IInv, Typed, LogInOrder, HeadInOrder, HeadLeads, LossShows, ChangeShows, ScanIsClean,
              ClaimIsFresh, CallersKnow, CallerKnows, AttemptIsLogged, EvidenceOf, SnapshotIsWhole, HeadOrSeed,
              Claimable, Empty, Signed
<1> QED BY <1>1, <1>2, VerifierKeeps, AdoptionKeeps, DamageKeeps DEF AuditNext

\* In every state the log is in order, the head leads it until something is lost, a loss or a
\* change shows, and each process knows what became of its effect.
THEOREM IInvHolds == AuditSpec => []IInv
<1>1. AuditInit => IInv
  BY InitIsSound
<1>2. IInv /\ [AuditNext]_auditVars => IInv'
  BY StepIsSound
<1> QED BY <1>1, <1>2, PTL DEF AuditSpec

\* What the invariant says of the chain.
LEMMA ChainFollows ==
    ASSUME IInv
    PROVE  ChainIsSound
<1>0. LogInOrder(rows) /\ HeadInOrder(head)
  BY DEF IInv, Typed
<1>1. AuditTypeOK
  <2>1. DOMAIN rows = 1 .. Len(rows) /\ Len(rows) \in Nat
        /\ \A i \in 1 .. Len(rows) : rows[i] \in Entry /\ rows[i].id = i
    BY <1>0, NewestRow
  <2>2. \A i \in 1 .. Len(rows) : i > 1 => i - 1 \in 1 .. Len(rows)
    BY <2>1
  <2>3. \A i \in DOMAIN rows : rows[i].action \in Actions /\ (i > 1 => rows[i - 1].id < rows[i].id)
    BY <2>1, <2>2 DEF Entry
  <2> QED BY <1>0, <2>3 DEF IInv, Typed, AuditTypeOK, HeadInOrder, HeadRow
<1>2. ChainIsLinear
  BY DEF IInv, ChainIsLinear, ScanIsClean, HeadLeads
<1>3. DamageShows
  BY DEF IInv, Typed, DamageShows, Verifies, _scan_entries, _check_head, Agrees, LossShows, ChangeShows
<1>4. EffectHasEvidence
  BY DEF IInv, EffectHasEvidence, CallersKnow, EvidenceOf, Recorded
<1> QED BY <1>1, <1>2, <1>3, <1>4 DEF ChainIsSound

\* append_in_session, required_effect and verify_chain together: whoever appends, dies or
\* adopts, an undamaged store has one linear chain with evidence of every effect, and no
\* appends or adoptions make a damaged one verify again.
THEOREM ChainHolds == AuditSpec => []ChainIsSound
BY IInvHolds, ChainFollows, PTL

\* A step never reports an undamaged chain broken.
LEMMA AlarmsAreTrue ==
    ASSUME IInv, AuditNext
    PROVE  NoFalseAlarm
<1> SUFFICES ASSUME verifier.at = "read", verifier'.verdict = "broken", verifier'.at = "idle", damaged = "none",
                    ~(verifier.head # NoHead /\ verifier.head.mac = Unsigned)
             PROVE  FALSE
  BY DEF NoFalseAlarm
<1>1. verify_chain
  BY DEF AuditNext, _lock_head, append_in_session, Rollback, Retry, required_effect, Effect, VerifyReads,
              adopt_legacy_chain, LosesRows, ChangesRow, LosesHead
<1>2. HeadInOrder(verifier.head) /\ Untouched(verifier.log, verifier.head)
  BY DEF IInv, SnapshotIsWhole
<1>3. Verifies(verifier.log, verifier.head)
  BY <1>2 DEF Verifies, Untouched, _check_head, HeadInOrder
<1> QED BY <1>1, <1>3 DEF verify_chain, SnapshotHead

\* verify_chain beside appends: from a snapshot of an undamaged store whose head is signed it
\* never reports a broken chain.
THEOREM NoAlarmIsFalse == AuditSpec => [][NoFalseAlarm]_auditVars
<1>1. UNCHANGED auditVars => [NoFalseAlarm]_auditVars
  OBVIOUS
<1>2. IInv /\ [AuditNext]_auditVars => [NoFalseAlarm]_auditVars
  BY <1>1, AlarmsAreTrue
<1> QED BY <1>2, IInvHolds, PTL DEF AuditSpec

-----------------------------------------------------------------------------
(* The refinement of Ledger.                                               *)

\* What the head has committed to.
Committed == IF head = NoHead THEN NewestHash(rows) ELSE head.hash

\* It is what the next writer finds.
LEMMA CommittedIsFound ==
    ASSUME IInv
    PROVE  Committed = HeadOrSeed.hash /\ Committed \in Seq(Actions) /\ DOMAIN Committed = 1 .. Len(Committed)
<1>1. Committed = HeadOrSeed.hash
  BY DEF Committed, HeadOrSeed, Seeded
<1>2. HeadOrSeed.hash \in Seq(Actions)
  BY HeadFound DEF IInv, HeadRow
<1> QED BY <1>1, <1>2, LenProperties

\* A step that writes adds to the ledger.
LEMMA WritingAdds ==
    ASSUME IInv, NEW written, Extends(written)
    PROVE  TheLedger!Add
<1>1. head' # NoHead /\ Committed' = head'.hash
  BY HeadRowExists DEF Extends, Committed
<1>2. damaged # "lost" /\ damaged' # "lost"
  BY DEF Extends
<1>3. Len(Committed') > Len(Committed) /\ \A i \in DOMAIN Committed : Committed'[i] = Committed[i]
  BY <1>1, CommittedIsFound DEF Extends
<1> QED BY <1>2, <1>3 DEF TheLedger!Add, Committed

\* The committed history is an append-only ledger, which is closed once rows or the head are
\* lost: appends, adoptions and damage by whatever process, in whatever order.
THEOREM LedgerIsKept == AuditSpec => AppendOnly
<1>1. AuditInit => TheLedger!LedgerInit
  <2> SUFFICES ASSUME AuditInit PROVE TheLedger!LedgerInit
    OBVIOUS
  <2>1. DOMAIN Committed = 1 .. Len(Committed)
    BY InitIsSound, CommittedIsFound
  <2> QED BY <2>1 DEF TheLedger!LedgerInit, Committed, AuditInit
<1>2. ASSUME IInv, [AuditNext]_auditVars
      PROVE  TheLedger!Add \/ TheLedger!Lose \/ (Committed' = Committed /\ (damaged' = "lost") = (damaged = "lost"))
  <2>1. ASSUME NEW p \in Appenders, append_in_session(p), appender[p].ok PROVE TheLedger!Add
    BY <1>2, <2>1, AppendExtends, WritingAdds
  <2>2. CASE adopt_legacy_chain
    BY <1>2, <2>2, AdoptionExtends, WritingAdds
  <2>3. CASE UNCHANGED <<rows, head, damaged>>
    BY <2>3 DEF Committed
  <2>4. CASE LosesRows
    <3>1. rows # << >> /\ head' = head /\ damaged' = "lost" /\ head # NoHead
      BY <1>2, <2>4 DEF LosesRows, IInv, HeadLeads
    <3> QED BY <3>1 DEF TheLedger!Lose
  <2>5. CASE LosesHead
    <3>1. head # NoHead /\ head' = NoHead /\ rows' = rows /\ damaged' = "lost" /\ head.hash = NewestHash(rows)
      BY <1>2, <2>5 DEF LosesHead, IInv, HeadLeads, Agrees
    <3> QED BY <3>1 DEF TheLedger!Lose
  <2>6. CASE ChangesRow
    <3>1. rows # << >> /\ head' = head /\ damaged = "none" /\ damaged' = "changed"
      BY <2>6 DEF ChangesRow
    <3>2. head # NoHead
      BY <1>2, <3>1 DEF IInv, HeadLeads
    <3> QED BY <3>1, <3>2 DEF Committed
  <2> QED
    BY <1>2, <2>1, <2>2, <2>3, <2>4, <2>5, <2>6
    DEF AuditNext, auditVars, _lock_head, append_in_session, Rollback, Retry, required_effect, Effect, VerifyReads,
        verify_chain
<1>3. IInv /\ [AuditNext]_auditVars =>
         [TheLedger!Add \/ TheLedger!Lose]_<<IF head = NoHead THEN NewestHash(rows) ELSE head.hash, damaged = "lost">>
  BY <1>2 DEF Committed
<1> QED BY <1>1, <1>3, IInvHolds, PTL DEF AuditSpec, AppendOnly, TheLedger!LedgerSpec

-----------------------------------------------------------------------------
(* Numbers: a non-empty set has a least one, and a bounded one a greatest.  *)

NatLess == OpToRel(<, Nat)

\* Any non-empty set of numbers has a least member.
LEMMA LeastExists ==
    ASSUME NEW T, T \subseteq Nat, T # {}
    PROVE  \E x \in T : \A y \in T : x <= y
<1>1. IsWellFoundedOn(NatLess, Nat)
  BY NatLessThanWellFounded DEF NatLess
<1>2. NatLess = {ss \in Nat \X Nat : ss[1] < ss[2]}
  BY DEF NatLess, OpToRel
<1>3. \A x, y \in Nat : <<y, x>> \in NatLess <=> y < x
  BY <1>2
<1>4. PICK x \in T : \A y \in T : ~(<<y, x>> \in NatLess)
  BY <1>1, WFMin
<1>5. \A y \in T : ~(y < x)
  BY <1>3, <1>4
<1> QED BY <1>5

\* A bounded one has a greatest.
LEMMA GreatestExists ==
    ASSUME NEW N \in Nat, NEW T, T \subseteq 1 .. N, T # {}
    PROVE  \E x \in T : \A y \in T : y <= x
<1> DEFINE U == {N - y : y \in T}
<1>1. PICK t \in T : TRUE
  OBVIOUS
<1>2. U \subseteq Nat /\ N - t \in U
  OBVIOUS
<1>3. PICK u \in U : \A w \in U : u <= w
  BY <1>2, LeastExists
<1>4. PICK x \in T : u = N - x
  OBVIOUS
<1>5. \A y \in T : N - x <= N - y
  BY <1>3, <1>4
<1> QED BY <1>4, <1>5

-----------------------------------------------------------------------------
(* Peer help.                                                               *)

Request == [status: Statuses, from: Peers \cup {NoPeer}, to: SUBSET Peers, depth: 0 .. MAX_ASK_DEPTH,
            by: Peers \cup {NoPeer}, round: 0 .. MaxReleases, due: BOOLEAN, stale: BOOLEAN]
Call == [op: {"none", "claim", "wait", "answer", "release", "cancel"}, code: Nat, read: Request]

HelpTyped ==
    /\ help \in [Codes -> Request] /\ alive \in [Peers -> BOOLEAN]
    /\ calling \in [Peers -> Call]
    /\ asking \in [Codes -> {"none", "waiting"} \cup Terminal]
    /\ working \in [Peers -> SUBSET Codes]

\* A request's depth, holder and status go together.
Sound(q) ==
    /\ q.depth \in (IF q.status = "none" THEN {0} ELSE 1 .. MAX_ASK_DEPTH)
    /\ q.status = "open" => q.by = NoPeer
    /\ q.status \in {"claimed", "answered"} => q.by \in q.to

\* What a call has read allows what it is about to do.
CallIsApt(p) ==
    LET c == calling[p]
    IN  /\ c.op # "none" => c.code \in Codes
        /\ c.op \in {"answer", "release"} => c.read.status = "claimed" /\ c.read.by = p
        /\ c.op = "release" => c.read.round < MaxReleases
        /\ c.op = "cancel" => c.read.status \in {"open", "claimed"}

\* Who was told that a request is its own is in the row, until it lets go.
Held(q, p) == q.status \notin {"none", "open"} /\ q.by = p

HInv ==
    /\ HelpTyped
    /\ \A r \in Codes : Sound(help[r])
    /\ \A p \in Peers : CallIsApt(p)
    /\ \A p \in Peers : \A r \in working[p] : Held(help[r], p)
    /\ AskTold

\* A final request stays, and a claim expires only after its grace.
Lasts(q, q2) ==
    /\ q.status \in Terminal => q2.status = q.status
    /\ q.status = "claimed" /\ q2.status = "expired" => q.stale

\* What every step keeps, and what it may not do.
HelpStep == HInv' /\ \A r \in Codes : Lasts(help[r], help'[r])

\* Expiry touches the status of what is due alone.
Expires(q, q2) ==
    /\ q2 \in Request
    /\ q2.from = q.from /\ q2.to = q.to /\ q2.depth = q.depth /\ q2.by = q.by /\ q2.round = q.round
    /\ q2.due = q.due /\ q2.stale = q.stale
    /\ q2.status = q.status \/ (Lapsed(q) /\ q2.status = "expired")

\* What the expiry sweep makes of the requests.
LEMMA ExpiryFacts ==
    ASSUME HInv
    PROVE  /\ _expire_due(help) \in [Codes -> Request]
           /\ \A r \in Codes : Expires(help[r], _expire_due(help)[r])
<1> DEFINE h == _expire_due(help)
<1>1. \A r \in Codes : h[r] = IF Lapsed(help[r]) THEN [help[r] EXCEPT !.status = "expired"] ELSE help[r]
  BY DEF _expire_due
<1>2. \A r \in Codes : help[r] \in Request
  BY DEF HInv, HelpTyped
<1>3. \A q \in Request : Expires(q, [q EXCEPT !.status = "expired"]) \/ ~Lapsed(q)
  BY DEF Request, Expires, Statuses, Terminal
<1>4. \A q \in Request : Expires(q, q)
  BY DEF Expires
<1>5. \A r \in Codes : Expires(help[r], h[r])
  BY <1>1, <1>2, <1>3, <1>4
<1>6. DOMAIN h = Codes /\ h = [r \in Codes |-> h[r]]
  BY DEF _expire_due
<1> HIDE DEF h
<1>7. h \in [Codes -> Request]
  BY <1>5, <1>6 DEF Expires
<1> QED BY <1>5, <1>7 DEF h

\* A request that expired is sound, lasts and is still held.
LEMMA ExpiredIsSound ==
    ASSUME NEW q \in Request, NEW q2, Sound(q), Expires(q, q2)
    PROVE  /\ Sound(q2) /\ Lasts(q, q2)
           /\ \A p : Held(q, p) => Held(q2, p)
BY DEF Sound, Expires, Lasts, Held, Lapsed, Terminal, Request

\* A step that applies the deadlines, and at most writes down what a call has read.
LEMMA ExpiryKeeps ==
    ASSUME HInv, help' = _expire_due(help) \/ help' = help, UNCHANGED alive,
           calling' \in [Peers -> Call], \A p \in Peers : CallIsApt(p)',
           asking' \in [Codes -> {"none", "waiting"} \cup Terminal],
           \A r \in Codes : asking'[r] = asking[r] \/ asking'[r] = help'[r].status,
           working' \in [Peers -> SUBSET Codes], \A p \in Peers : working'[p] \subseteq working[p]
    PROVE  HelpStep
<1>1. help' \in [Codes -> Request] /\ \A r \in Codes : Expires(help[r], help'[r])
  <2>1. \A r \in Codes : Expires(help[r], help[r])
    BY DEF Expires, HInv, HelpTyped
  <2> QED BY <2>1, ExpiryFacts DEF HInv, HelpTyped
<1>2. \A r \in Codes : help[r] \in Request /\ Sound(help[r])
  BY DEF HInv, HelpTyped
<1>3. \A r \in Codes : Sound(help'[r]) /\ Lasts(help[r], help'[r]) /\ \A p : Held(help[r], p) => Held(help'[r], p)
  BY <1>1, <1>2, ExpiredIsSound
<1>4. HelpTyped'
  BY <1>1 DEF HInv, HelpTyped
<1>5. \A p \in Peers : \A r \in working'[p] : Held(help'[r], p)
  BY <1>3 DEF HInv, HelpTyped
<1>6. AskTold'
  BY <1>3 DEF HInv, AskTold, Lasts
<1> QED BY <1>3, <1>4, <1>5, <1>6 DEF HelpStep, HInv

\* A step that changes one request and ends a call.
LEMMA OneChanges ==
    ASSUME HInv, NEW r \in Codes, NEW q2 \in Request, Sound(q2), Lasts(help[r], q2),
           NEW h \in [Codes -> Request], \A k \in Codes : Expires(help[k], h[k]),
           help' = [h EXCEPT ![r] = q2],
           UNCHANGED alive, calling' \in [Peers -> Call], \A p \in Peers : CallIsApt(p)',
           asking' \in [Codes -> {"none", "waiting"} \cup Terminal],
           \A k \in Codes : asking'[k] = asking[k] \/ asking'[k] \in {"none", "waiting"},
           working' \in [Peers -> SUBSET Codes],
           \A p \in Peers : \A k \in working'[p] : IF k = r THEN Held(q2, p) ELSE k \in working[p]
    PROVE  HelpStep
<1>1. help' \in [Codes -> Request] /\ help'[r] = q2 /\ \A k \in Codes \ {r} : help'[k] = h[k]
  OBVIOUS
<1>2. \A k \in Codes : help[k] \in Request /\ Sound(help[k])
  BY DEF HInv, HelpTyped
<1>3. \A k \in Codes : Sound(h[k]) /\ Lasts(help[k], h[k]) /\ \A p : Held(help[k], p) => Held(h[k], p)
  BY <1>2, ExpiredIsSound
<1>4. \A k \in Codes : Sound(help'[k]) /\ Lasts(help[k], help'[k])
  BY <1>1, <1>3
<1>5. HelpTyped'
  BY <1>1 DEF HInv, HelpTyped
<1>6. \A p \in Peers : \A k \in working'[p] : Held(help'[k], p)
  BY <1>1, <1>3 DEF HInv, HelpTyped
<1>7. AskTold'
  BY <1>4 DEF HInv, AskTold, Lasts, Terminal
<1> QED BY <1>4, <1>5, <1>6, <1>7 DEF HelpStep, HInv

\* A new request: its depth is that of the asker's own claim and one more, within the cap.
LEMMA FileKeeps ==
    ASSUME HInv, NEW p \in Peers, NEW r \in Codes, NEW to \in SUBSET Peers \ {{}}, NEW blocking \in BOOLEAN,
           file_help_request(p, r, to, blocking)
    PROVE  HelpStep
<1> DEFINE h == _expire_due(help)
<1>1. PICK depth \in Depths(p, h) :
          /\ depth <= MAX_ASK_DEPTH
          /\ help' = [h EXCEPT ![r] = [NoRequest EXCEPT !.status = "open", !.from = p, !.to = to, !.depth = depth]]
  BY DEF file_help_request
<1>2. help[r].status = "none" /\ asking' = [asking EXCEPT ![r] = IF blocking THEN "waiting" ELSE "none"]
      /\ UNCHANGED <<alive, calling, working>>
  BY DEF file_help_request
<1>3. h \in [Codes -> Request] /\ \A k \in Codes : Expires(help[k], h[k]) /\ Sound(h[k])
  BY ExpiryFacts, ExpiredIsSound DEF HInv, HelpTyped
<1>4. depth \in 1 .. MAX_ASK_DEPTH
  <2>1. \A k \in Codes : h[k].status = "claimed" => h[k].depth \in 1 .. MAX_ASK_DEPTH
    BY <1>3 DEF Sound
  <2>2. MAX_ASK_DEPTH \in Nat \ {0}
    BY HelpAssumption
  <2> HIDE DEF h
  <2>3. depth \in Nat /\ depth >= 1
    BY <2>1, <2>2 DEF Depths
  <2> QED BY <1>1, <2>2, <2>3
<1> DEFINE q2 == [NoRequest EXCEPT !.status = "open", !.from = p, !.to = to, !.depth = depth]
<1>5. q2 \in Request /\ q2.status = "open" /\ q2.by = NoPeer /\ q2.depth = depth
  <2>1. NoRequest \in Request
    BY HelpAssumption DEF NoRequest, Request, Statuses
  <2>2. depth \in 0 .. MAX_ASK_DEPTH /\ "open" \in Statuses
    BY <1>4, HelpAssumption DEF Statuses
  <2>3. q2 \in Request /\ q2.status = "open" /\ q2.by = NoRequest.by /\ q2.depth = depth
    BY <2>1, <2>2 DEF Request
  <2> QED BY <2>3 DEF NoRequest
<1>6. Sound(q2) /\ Lasts(help[r], q2)
  BY <1>2, <1>4, <1>5 DEF Sound, Lasts, Terminal
<1>7. calling' \in [Peers -> Call] /\ \A s \in Peers : CallIsApt(s)'
  BY <1>2 DEF HInv, HelpTyped, CallIsApt
<1>8. asking' \in [Codes -> {"none", "waiting"} \cup Terminal]
      /\ \A k \in Codes : asking'[k] = asking[k] \/ asking'[k] \in {"none", "waiting"}
  BY <1>2 DEF HInv, HelpTyped
<1>9. working' \in [Peers -> SUBSET Codes]
      /\ \A s \in Peers : \A k \in working'[s] : IF k = r THEN Held(q2, s) ELSE k \in working[s]
  BY <1>2 DEF HInv, HelpTyped, Held
<1>10. help' = [h EXCEPT ![r] = q2] /\ UNCHANGED alive
  BY <1>1, <1>2
<1> HIDE DEF q2, h
<1> QED BY <1>3, <1>5, <1>6, <1>7, <1>8, <1>9, <1>10, OneChanges

\* The reading half of a call.
LEMMA ReadKeeps ==
    ASSUME HInv, NEW p \in Peers, NEW op \in {"claim", "wait", "answer", "release", "cancel"}, NEW r \in Codes,
           Read(p, op, r),
           op \in {"answer", "release"} => Found(r).status = "claimed" /\ Found(r).by = p,
           op = "release" => Found(r).round < MaxReleases,
           op = "cancel" => Found(r).status \in {"open", "claimed"}
    PROVE  HelpStep
<1>1. help' = _expire_due(help) /\ calling' = [calling EXCEPT ![p] = [op |-> op, code |-> r, read |-> help'[r]]]
      /\ UNCHANGED <<alive, asking, working>>
  BY DEF Read
<1>2. help'[r] \in Request /\ help'[r] = Found(r) /\ r \in Nat
  BY <1>1, ExpiryFacts, HelpAssumption DEF Found
<1>3. calling' \in [Peers -> Call]
  BY <1>1, <1>2 DEF HInv, HelpTyped, Call
<1>4. \A s \in Peers : CallIsApt(s)'
  BY <1>1, <1>2 DEF HInv, HelpTyped, CallIsApt
<1> QED BY <1>1, <1>3, <1>4, ExpiryKeeps DEF HInv, HelpTyped

\* The oldest of some requests is one of them.
LEMMA OldestIsOne ==
    ASSUME NEW S, S \subseteq Codes, S # {}
    PROVE  Oldest(S) \in S
<1>1. \E r \in S : \A q \in S : r <= q
  BY LeastExists, HelpAssumption
<1> QED BY <1>1 DEF Oldest

\* What a caller reads keeps the invariant, whatever it reads for.
LEMMA ReadsKeep ==
    ASSUME HInv, NEW p \in Peers,
           ReadWait(p) \/ \E r \in Codes : ReadClaim(p, r) \/ ReadAnswer(p, r) \/ ReadRelease(p, r) \/ ReadCancel(p, r)
    PROVE  HelpStep
<1>1. CASE ReadWait(p)
  <2> DEFINE open == {r \in Codes : Offered(Found(r), p)}
  <2>1. open # {} /\ Read(p, "wait", Oldest(open))
    BY <1>1 DEF ReadWait
  <2>2. Oldest(open) \in Codes
    BY <2>1, OldestIsOne
  <2> HIDE DEF open
  <2> QED BY <2>1, <2>2, ReadKeeps
<1>2. CASE \E r \in Codes : ReadClaim(p, r) \/ ReadAnswer(p, r) \/ ReadRelease(p, r) \/ ReadCancel(p, r)
  BY <1>2, ReadKeeps DEF ReadClaim, ReadAnswer, ReadRelease, ReadCancel
<1> QED BY <1>1, <1>2

\* The end of a call leaves the others' as they are.
LEMMA EndsAptly ==
    ASSUME HInv, NEW p \in Peers, Ends(p)
    PROVE  calling' \in [Peers -> Call] /\ \A s \in Peers : CallIsApt(s)'
<1>1. NoCall \in Call
  BY HelpAssumption DEF NoCall, Call, NoRequest, Request, Statuses
<1>2. calling' = [calling EXCEPT ![p] = NoCall]
  BY DEF Ends
<1>3. \A s \in Peers : calling'[s] = IF s = p THEN NoCall ELSE calling[s]
  BY <1>2 DEF HInv, HelpTyped
<1> QED BY <1>1, <1>2, <1>3 DEF HInv, HelpTyped, CallIsApt, NoCall

\* The writing half of a claim, of a request the locked reading offers.
LEMMA ClaimKeeps ==
    ASSUME HInv, NEW p \in Peers, NEW r \in Codes, OfferedOrOwned(help[r], p), Claim(p, r), Ends(p), UNCHANGED <<alive, asking>>
    PROVE  HelpStep
<1>1. help[r] \in Request /\ Sound(help[r])
  BY DEF HInv, HelpTyped
<1>2. calling' \in [Peers -> Call] /\ \A s \in Peers : CallIsApt(s)'
  BY EndsAptly
<1>3. CASE help[r].status = "open" /\ help' = [help EXCEPT ![r] = [@ EXCEPT !.status = "claimed", !.by = p, !.stale = FALSE]] /\ Holds(p, r)
  <2> DEFINE q2 == [help[r] EXCEPT !.status = "claimed", !.by = p, !.stale = FALSE]
  <2>1. q2 \in Request /\ q2.status = "claimed" /\ q2.by = p /\ q2.to = help[r].to /\ q2.depth = help[r].depth
    BY <1>1 DEF Request, Statuses
  <2>2. Sound(q2) /\ Lasts(help[r], q2) /\ Held(q2, p)
    BY <1>1, <1>3, <2>1 DEF Sound, Lasts, Terminal, Held, OfferedOrOwned
  <2>3. help \in [Codes -> Request] /\ \A k \in Codes : Expires(help[k], help[k])
    BY DEF HInv, HelpTyped, Expires
  <2>4. working' \in [Peers -> SUBSET Codes]
        /\ \A s \in Peers : \A k \in working'[s] : IF k = r THEN Held(q2, s) ELSE k \in working[s]
    <3>1. working' = [working EXCEPT ![p] = @ \cup {r}]
      BY <1>3 DEF Holds
    <3>2. \A s \in Peers : r \notin working[s]
      BY <1>3 DEF HInv, Held
    <3> HIDE DEF q2
    <3> QED BY <2>2, <3>1, <3>2 DEF HInv, HelpTyped
  <2>5. help' = [help EXCEPT ![r] = q2]
    BY <1>3
  <2> HIDE DEF q2
  <2> QED BY <1>2, <2>1, <2>2, <2>3, <2>4, <2>5, OneChanges DEF HInv, HelpTyped
<1>4. CASE help' = help /\ help[r].status = "claimed" /\ Holds(p, r)
  <2>1. working' = [working EXCEPT ![p] = @ \cup {r}] /\ help[r].by = p
    BY <1>4 DEF Holds, OfferedOrOwned
  <2>2. \A s \in Peers : \A k \in working'[s] : Held(help[k], s)
    BY <1>4, <2>1 DEF HInv, HelpTyped, Held
  <2>3. HelpTyped'
    BY <1>2, <1>4, <2>1 DEF HInv, HelpTyped
  <2> QED BY <1>2, <1>4, <2>2, <2>3 DEF HelpStep, HInv, AskTold, Lasts, Terminal
<1>5. CASE help' = help /\ working' = working
  BY <1>2, <1>5, ExpiryKeeps DEF HInv, HelpTyped
<1> QED BY <1>3, <1>4, <1>5 DEF Claim

\* A claim keeps the invariant, whichever request it takes.
LEMMA ClaimsKeep ==
    ASSUME HInv, NEW p \in Peers, claim_help_request(p) \/ wait_for_request(p)
    PROVE  HelpStep
<1>1. ASSUME Ends(p), UNCHANGED <<help, working, alive, asking>> PROVE HelpStep
  BY <1>1, EndsAptly, ExpiryKeeps DEF HInv, HelpTyped
<1>2. CASE claim_help_request(p)
  <2>1. calling[p].code \in Codes
    BY <1>2 DEF claim_help_request, HInv, CallIsApt
  <2> QED BY <1>1, <1>2, <2>1, ClaimKeeps DEF claim_help_request
<1>3. CASE wait_for_request(p)
  <2> DEFINE open == {r \in Codes : Offered(help[r], p) /\ ~help[r].due}
  <2>1. Ends(p) /\ UNCHANGED <<alive, asking>> /\ ((open # {} /\ Claim(p, Oldest(open))) \/ UNCHANGED <<help, working>>)
    BY <1>3 DEF wait_for_request
  <2>2. ASSUME open # {}, Claim(p, Oldest(open)) PROVE HelpStep
    <3>1. Oldest(open) \in open
      BY <2>2, OldestIsOne
    <3>2. Oldest(open) \in Codes /\ OfferedOrOwned(help[Oldest(open)], p)
      BY <3>1 DEF Offered, OfferedOrOwned
    <3> HIDE DEF open
    <3> QED BY <2>1, <2>2, <3>2, ClaimKeeps
  <2> QED BY <1>1, <2>1, <2>2
<1> QED BY <1>2, <1>3

\* Answer, release and cancellation of a request that is as it was read.
LEMMA TransitionKeeps ==
    ASSUME HInv, NEW p \in Peers, answer_request(p) \/ release_help_request(p) \/ cancel_help_request(p)
    PROVE  HelpStep
<1> DEFINE c == calling[p]
           r == c.code
<1>1. r \in Codes /\ Ends(p) /\ UNCHANGED <<alive, asking>>
  BY DEF answer_request, release_help_request, cancel_help_request, HInv, CallIsApt
<1>2. help[r] \in Request /\ Sound(help[r]) /\ c.read \in Request
  BY <1>1 DEF HInv, HelpTyped, Call
<1>3. calling' \in [Peers -> Call] /\ \A s \in Peers : CallIsApt(s)'
  BY <1>1, EndsAptly
<1>4. working' \in [Peers -> SUBSET Codes] /\ \A s \in Peers : working'[s] \subseteq working[s]
  <2>1. working' = working \/ LetsGo(p, r)
    BY DEF answer_request, release_help_request, cancel_help_request
  <2> QED BY <2>1 DEF LetsGo, HInv, HelpTyped
<1>5. CASE help' = help \/ help' = _expire_due(help)
  BY <1>1, <1>3, <1>4, <1>5, ExpiryKeeps DEF HInv, HelpTyped
<1>6. ASSUME NEW q2 \in Request, Sound(q2), Lasts(help[r], q2), help' = [help EXCEPT ![r] = q2],
             \A s \in Peers : r \in working'[s] => Held(q2, s)
      PROVE  HelpStep
  <2>1. help \in [Codes -> Request] /\ \A k \in Codes : Expires(help[k], help[k])
    BY DEF HInv, HelpTyped, Expires
  <2>2. \A s \in Peers : \A k \in working'[s] : IF k = r THEN Held(q2, s) ELSE k \in working[s]
    BY <1>4, <1>6
  <2>3. \A k \in Codes : asking'[k] = asking[k] /\ asking' \in [Codes -> {"none", "waiting"} \cup Terminal]
    BY <1>1 DEF HInv, HelpTyped
  <2> HIDE DEF r
  <2> QED BY <1>1, <1>3, <1>4, <1>6, <2>1, <2>2, <2>3, OneChanges
<1>7. CASE answer_request(p) /\ MayChange(p)
  <2> DEFINE q2 == [help[r] EXCEPT !.status = "answered"]
  <2>1. help' = [help EXCEPT ![r] = q2] /\ LetsGo(p, r)
    BY <1>7 DEF answer_request
  <2>2. help[r].status = "claimed" /\ help[r].by = p
    BY <1>7 DEF answer_request, MayChange, Unchanged, HInv, CallIsApt
  <2>3. q2 \in Request /\ q2.status = "answered" /\ q2.by = p /\ q2.to = help[r].to /\ q2.depth = help[r].depth
    BY <1>2, <2>2 DEF Request, Statuses, Terminal
  <2>4. Sound(q2) /\ Lasts(help[r], q2)
    BY <1>2, <2>2, <2>3 DEF Sound, Lasts, Terminal
  <2>5. \A s \in Peers : r \in working'[s] => Held(q2, s)
    BY <1>4, <2>2, <2>3 DEF HInv, Held
  <2> HIDE DEF q2
  <2> QED BY <1>6, <2>1, <2>3, <2>4, <2>5
<1>8. CASE release_help_request(p) /\ MayChange(p)
  <2> DEFINE q2 == Reopened(help[r])
  <2>1. help' = [help EXCEPT ![r] = q2] /\ LetsGo(p, r)
    BY <1>8 DEF release_help_request
  <2>2. help[r].status = "claimed" /\ help[r].by = p /\ help[r].round < MaxReleases
    BY <1>8 DEF release_help_request, MayChange, Unchanged, HInv, CallIsApt
  <2>3. q2 \in Request /\ q2.status = "open" /\ q2.by = NoPeer /\ q2.depth = help[r].depth
    <3>1. q2 = [help[r] EXCEPT !.status = "open", !.by = NoPeer, !.round = help[r].round + 1, !.due = FALSE, !.stale = FALSE]
      BY DEF Reopened
    <3>2. help[r].round + 1 \in 0 .. MaxReleases /\ "open" \in Statuses
      BY <1>2, <2>2, HelpAssumption DEF Request, Statuses
    <3> HIDE DEF q2
    <3> QED BY <1>2, <3>1, <3>2 DEF Request
  <2>4. Sound(q2) /\ Lasts(help[r], q2)
    BY <1>2, <2>2, <2>3 DEF Sound, Lasts, Terminal
  <2>5. \A s \in Peers : r \notin working'[s]
    <3>1. \A s \in Peers : r \in working[s] => s = p
      BY <2>2 DEF HInv, Held
    <3>2. \A s \in Peers : working'[s] = IF s = p THEN working[s] \ {r} ELSE working[s]
      BY <2>1 DEF LetsGo, HInv, HelpTyped
    <3> QED BY <3>1, <3>2
  <2> HIDE DEF q2
  <2> QED BY <1>6, <2>1, <2>3, <2>4, <2>5
<1>9. CASE cancel_help_request(p) /\ MayChange(p)
  <2> DEFINE q2 == [help[r] EXCEPT !.status = "cancelled"]
  <2>1. help' = [help EXCEPT ![r] = q2]
    BY <1>9 DEF cancel_help_request
  <2>2. help[r].status \in {"open", "claimed"}
    BY <1>9 DEF cancel_help_request, MayChange, Unchanged, HInv, CallIsApt
  <2>3. q2 \in Request /\ q2.status = "cancelled" /\ q2.by = help[r].by /\ q2.to = help[r].to /\ q2.depth = help[r].depth
    BY <1>2, <2>2 DEF Request, Statuses, Terminal
  <2>4. Sound(q2) /\ Lasts(help[r], q2)
    BY <1>2, <2>2, <2>3 DEF Sound, Lasts, Terminal
  <2>5. \A s \in Peers : r \in working'[s] => Held(q2, s)
    BY <1>4, <2>3 DEF HInv, Held
  <2> HIDE DEF q2
  <2> QED BY <1>6, <2>1, <2>3, <2>4, <2>5
<1> QED BY <1>5, <1>7, <1>8, <1>9 DEF answer_request, release_help_request, cancel_help_request

\* Polls, deadlines and the passing of time.
LEMMA ClockKeeps ==
    ASSUME HInv, NEW r \in Codes, AskPoll(r) \/ AskDeadline(r) \/ DeadlinePasses(r) \/ GracePasses(r)
    PROVE  HelpStep
<1>1. calling' = calling /\ working' = working /\ alive' = alive
  BY DEF AskPoll, AskDeadline, DeadlinePasses, GracePasses
<1>2. calling' \in [Peers -> Call] /\ (\A s \in Peers : CallIsApt(s)') /\ working' \in [Peers -> SUBSET Codes]
      /\ (\A s \in Peers : working'[s] \subseteq working[s]) /\ help[r] \in Request /\ Sound(help[r])
  BY <1>1 DEF HInv, HelpTyped, CallIsApt
<1>3. CASE AskPoll(r) \/ AskDeadline(r)
  <2>1. help' = help \/ help' = _expire_due(help)
    BY <1>3 DEF AskPoll, AskDeadline
  <2>2. (asking' = [asking EXCEPT ![r] = help'[r].status] /\ help'[r].status \in Terminal) \/ asking' = asking
    BY <1>3 DEF AskPoll, AskDeadline, HInv, HelpTyped
  <2> QED BY <1>1, <1>2, <2>1, <2>2, ExpiryKeeps DEF HInv, HelpTyped
<1>4. ASSUME NEW q2 \in Request, help' = [help EXCEPT ![r] = q2], asking' = asking,
             q2.status = help[r].status, q2.by = help[r].by, q2.to = help[r].to, q2.depth = help[r].depth
      PROVE  HelpStep
  <2>1. Sound(q2) /\ Lasts(help[r], q2)
    BY <1>2, <1>4 DEF Sound, Lasts, Terminal
  <2>2. \A s \in Peers : Held(help[r], s) => Held(q2, s)
    BY <1>4 DEF Held
  <2>3. help \in [Codes -> Request] /\ \A k \in Codes : Expires(help[k], help[k])
    BY DEF HInv, HelpTyped, Expires
  <2> QED BY <1>1, <1>2, <1>4, <2>1, <2>2, <2>3, OneChanges DEF HInv, HelpTyped
<1>5. CASE DeadlinePasses(r)
  <2> DEFINE q2 == [help[r] EXCEPT !.due = TRUE]
  <2>1. help' = [help EXCEPT ![r] = q2] /\ asking' = asking
    BY <1>5 DEF DeadlinePasses
  <2>2. /\ q2 \in Request /\ q2.status = help[r].status /\ q2.by = help[r].by /\ q2.to = help[r].to
        /\ q2.depth = help[r].depth
    BY <1>2 DEF Request
  <2> HIDE DEF q2
  <2> QED BY <1>4, <2>1, <2>2
<1>6. CASE GracePasses(r)
  <2> DEFINE q2 == [help[r] EXCEPT !.stale = TRUE]
  <2>1. help' = [help EXCEPT ![r] = q2] /\ asking' = asking
    BY <1>6 DEF GracePasses
  <2>2. /\ q2 \in Request /\ q2.status = help[r].status /\ q2.by = help[r].by /\ q2.to = help[r].to
        /\ q2.depth = help[r].depth
    BY <1>2 DEF Request
  <2> HIDE DEF q2
  <2> QED BY <1>4, <2>1, <2>2
<1> QED BY <1>3, <1>5, <1>6

\* Every step.
LEMMA HelpSteps ==
    ASSUME HInv, [HelpNext]_helpVars
    PROVE  HelpStep
<1>1. ASSUME NEW p \in Peers, SessionEnds(p) PROVE HelpStep
  BY <1>1 DEF SessionEnds, HelpStep, HInv, HelpTyped, CallIsApt, AskTold, Lasts, Terminal
<1>2. CASE get_help_request
  BY <1>2, ExpiryKeeps DEF get_help_request, HInv, HelpTyped, CallIsApt
<1>3. CASE UNCHANGED helpVars
  BY <1>3 DEF helpVars, HelpStep, HInv, HelpTyped, CallIsApt, AskTold, Lasts, Terminal
<1> QED BY <1>1, <1>2, <1>3, FileKeeps, ReadsKeep, ClaimsKeep, TransitionKeeps, ClockKeeps DEF HelpNext

\* It begins without requests.
LEMMA HelpBegins ==
    ASSUME HelpInit
    PROVE  HInv
<1>1. NoRequest \in Request /\ NoCall \in Call
  BY HelpAssumption DEF NoRequest, Request, Statuses, NoCall, Call
<1>2. HelpTyped
  BY <1>1 DEF HelpInit, HelpTyped
<1>3. \A r \in Codes : Sound(help[r])
  BY DEF HelpInit, Sound, NoRequest
<1> QED BY <1>2, <1>3 DEF HelpInit, HInv, CallIsApt, NoCall, AskTold, Terminal

\* What the invariant says of help.
LEMMA HelpFollows ==
    ASSUME HInv
    PROVE  HelpIsSound
<1>1. HelpTypeOK
  <2>1. \A r \in Codes : help[r] \in Request /\ Sound(help[r])
    BY DEF HInv, HelpTyped
  <2>2. \A p \in Peers : working[p] \subseteq Codes /\ calling[p].op \in {"none", "claim", "wait", "answer", "release", "cancel"}
    BY DEF HInv, HelpTyped, Call
  <2> QED BY <2>1, <2>2 DEF HInv, HelpTyped, HelpTypeOK, Request, Sound
<1>2. ASSUME NEW r \in Codes PROVE Cardinality({p \in Peers : r \in working[p]}) <= 1
  <2> DEFINE W == {p \in Peers : r \in working[p]}
  <2>1. \A p, q \in W : p = q
    BY DEF HInv, Held
  <2>2. W = {} \/ \E p \in W : W = {p}
    BY <2>1
  <2> HIDE DEF W
  <2>3. Cardinality(W) = 0 \/ Cardinality(W) = 1
    BY <2>2, FS_EmptySet, FS_Singleton
  <2> QED BY <2>3 DEF W
<1> QED BY <1>1, <1>2 DEF HInv, HelpIsSound, OneWorker

\* control/help.py: one Session works on a request, however claims, releases, expiries and
\* their retries interleave, and ask_peer tells the asker what became of it.
THEOREM HelpHolds == HelpSpec => []HelpIsSound
<1>1. HInv /\ [HelpNext]_helpVars => HInv'
  BY HelpSteps DEF HelpStep
<1> QED BY <1>1, HelpBegins, HelpFollows, PTL DEF HelpSpec

\* A final request stays final, and work in progress is shielded by its claim's grace.
THEOREM HelpStands == HelpSpec => [][HelpFinal /\ ClaimShields]_helpVars
<1>1. ASSUME HInv, HelpNext PROVE HelpFinal /\ ClaimShields
  BY <1>1, HelpSteps DEF HelpStep, Lasts, HelpFinal, ClaimShields
<1>2. HInv /\ [HelpNext]_helpVars => HInv'
  BY HelpSteps DEF HelpStep
<1>3. HInv /\ [HelpNext]_helpVars => [HelpFinal /\ ClaimShields]_helpVars
  BY <1>1
<1> QED BY <1>2, <1>3, HelpBegins, PTL DEF HelpSpec

-----------------------------------------------------------------------------
(* Handoffs.                                                                *)

Handoff == [title: Titles, status: {"active", "cleared", "picked_up", "stale"}, old: BOOLEAN]

\* One handoff at most is active; who was given one remembers a handoff that is not; a
\* caller holds one that exists.
FInv ==
    /\ handoffs \in Seq(Handoff) /\ Len(handoffs) <= MaxHandoffs
    /\ given \in [1 .. MaxHandoffs -> SUBSET Callers]
    /\ held \in [Callers -> [op: {"none", "pick", "clear"}, id: Nat]]
    /\ \A i, j \in Active : i = j
    /\ \A c \in Callers : held[c].op # "none" => held[c].id \in DOMAIN handoffs
    /\ \A i \in 1 .. MaxHandoffs : given[i] # {} =>
          /\ i \in DOMAIN handoffs /\ handoffs[i].status \in {"picked_up", "cleared"}
          /\ \E c \in Callers : given[i] = {c}

\* A step that changes the status of handoffs, and makes none active.
LEMMA StatusesKeep ==
    ASSUME FInv, handoffs' \in Seq(Handoff), Len(handoffs') = Len(handoffs), UNCHANGED given,
           held' \in [Callers -> [op: {"none", "pick", "clear"}, id: Nat]],
           \A c \in Callers : held'[c].op # "none" => held'[c].id \in DOMAIN handoffs,
           \A i \in DOMAIN handoffs :
              \/ handoffs'[i].status = handoffs[i].status
              \/ handoffs'[i].status = "cleared"
              \/ handoffs[i].status = "active" /\ handoffs'[i].status # "active"
    PROVE  FInv'
<1>1. DOMAIN handoffs' = DOMAIN handoffs
  BY DEF FInv
<1>2. Active' \subseteq Active
  BY <1>1 DEF Active
<1> QED BY <1>1, <1>2 DEF FInv

\* Every step of the handoffs keeps their invariant.
LEMMA HandoffSteps ==
    ASSUME FInv, [HandoffNext]_handoffVars
    PROVE  FInv'
<1>0. /\ handoffs \in Seq(Handoff) /\ DOMAIN handoffs = 1 .. Len(handoffs) /\ Len(handoffs) \in Nat
      /\ \A i \in DOMAIN handoffs : handoffs[i] \in Handoff
  BY DEF FInv
<1>1. ASSUME NEW title \in Titles, set_handoff(title) PROVE FInv'
  <2> DEFINE log == Replaced(handoffs)
             new == [title |-> title, status |-> "active", old |-> FALSE]
  <2>1. log \in Seq(Handoff) /\ Len(log) = Len(handoffs) /\ DOMAIN log = DOMAIN handoffs
    <3>1. \A i \in 1 .. Len(handoffs) : log[i] \in Handoff
      BY <1>0 DEF Replaced, Handoff
    <3>2. DOMAIN log = 1 .. Len(handoffs) /\ log = [i \in 1 .. Len(handoffs) |-> log[i]]
      BY <1>0 DEF Replaced
    <3> HIDE DEF log
    <3>3. log \in [1 .. Len(handoffs) -> Handoff]
      BY <3>1, <3>2
    <3> QED BY <1>0, <3>3
  <2>2. \A i \in DOMAIN handoffs : log[i].status # "active" /\ (handoffs[i].status # "active" => log[i] = handoffs[i])
    BY <1>0 DEF Replaced, Handoff
  <2>3. new \in Handoff /\ new.status = "active"
    BY DEF Handoff
  <2>4. handoffs' = Append(log, new) /\ UNCHANGED <<held, given>> /\ Len(handoffs) < MaxHandoffs
    BY <1>1 DEF set_handoff
  <2> HIDE DEF log, new
  <2>5. /\ handoffs' \in Seq(Handoff) /\ Len(handoffs') = Len(handoffs) + 1
        /\ DOMAIN handoffs' = 1 .. Len(handoffs) + 1 /\ handoffs'[Len(handoffs) + 1] = new
        /\ \A i \in DOMAIN handoffs : handoffs'[i] = log[i]
    BY <1>0, <2>1, <2>3, <2>4, AppendProperties
  <2>6. Active' = {Len(handoffs) + 1}
    BY <1>0, <2>2, <2>3, <2>5 DEF Active
  <2>7. \A i \in 1 .. MaxHandoffs : given[i] # {} =>
          i \in DOMAIN handoffs' /\ handoffs'[i].status \in {"picked_up", "cleared"}
    BY <1>0, <2>2, <2>5 DEF FInv
  <2> QED BY <1>0, <2>4, <2>5, <2>6, <2>7, HandoffAssumption DEF FInv
<1>2. ASSUME NEW c \in Callers, NEW op \in {"pick", "clear"}, LooksUp(c, op) PROVE FInv'
  <2>1. PICK i : i \in Active
    BY <1>2 DEF LooksUp
  <2>2. Active = {i}
    BY <2>1 DEF FInv
  <2>3. Latest(Active) = i
    BY <1>0, <2>2 DEF Latest, Active
  <2>4. i \in DOMAIN handoffs /\ i \in Nat
    BY <1>0, <2>1 DEF Active
  <2>5. held' = [held EXCEPT ![c] = [op |-> op, id |-> i]] /\ UNCHANGED <<handoffs, given>>
    BY <1>2, <2>3 DEF LooksUp
  <2>6. held' \in [Callers -> [op: {"none", "pick", "clear"}, id: Nat]]
        /\ \A d \in Callers : held'[d].op # "none" => held'[d].id \in DOMAIN handoffs
    BY <2>4, <2>5 DEF FInv
  <2> QED BY <1>0, <2>5, <2>6, StatusesKeep
<1>3. \A c \in Callers : held' = [held EXCEPT ![c] = NotHeld] =>
        /\ held' \in [Callers -> [op: {"none", "pick", "clear"}, id: Nat]]
        /\ \A d \in Callers : held'[d].op # "none" => held'[d].id \in DOMAIN handoffs
  BY DEF FInv, NotHeld
<1>4. ASSUME NEW c \in Callers, pick_handoff(c) PROVE FInv'
  <2> DEFINE id == held[c].id
  <2>1. id \in DOMAIN handoffs /\ held' = [held EXCEPT ![c] = NotHeld]
    BY <1>4 DEF pick_handoff, FInv
  <2>2. CASE UNCHANGED <<handoffs, given>>
    BY <1>0, <1>3, <2>1, <2>2, StatusesKeep
  <2>3. CASE /\ handoffs[id].status = "active" /\ handoffs' = [handoffs EXCEPT ![id].status = "picked_up"]
             /\ given' = [given EXCEPT ![id] = @ \cup {c}]
    <3>1. /\ handoffs' \in Seq(Handoff) /\ Len(handoffs') = Len(handoffs) /\ DOMAIN handoffs' = DOMAIN handoffs
          /\ \A i \in DOMAIN handoffs : i # id => handoffs'[i] = handoffs[i]
          /\ handoffs'[id].status = "picked_up"
      <4> DEFINE q == [handoffs[id] EXCEPT !.status = "picked_up"]
      <4>1. q \in Handoff /\ q.status = "picked_up" /\ handoffs' = [handoffs EXCEPT ![id] = q]
        BY <1>0, <2>1, <2>3 DEF Handoff
      <4> HIDE DEF q
      <4> QED BY <1>0, <2>1, <4>1, ExceptSeq
    <3>2. id \in 1 .. MaxHandoffs /\ given[id] = {}
      BY <1>0, <2>1, <2>3, HandoffAssumption DEF FInv
    <3>3. given' \in [1 .. MaxHandoffs -> SUBSET Callers] /\ given'[id] = {c}
          /\ \A i \in 1 .. MaxHandoffs : i # id => given'[i] = given[i]
      BY <2>3, <3>2 DEF FInv
    <3>4. Active' \subseteq Active
      BY <3>1 DEF Active
    <3>5. \A i \in 1 .. MaxHandoffs : given'[i] # {} =>
             /\ i \in DOMAIN handoffs' /\ handoffs'[i].status \in {"picked_up", "cleared"}
             /\ \E d \in Callers : given'[i] = {d}
      <4> SUFFICES ASSUME NEW i \in 1 .. MaxHandoffs, given'[i] # {}
                   PROVE  /\ i \in DOMAIN handoffs' /\ handoffs'[i].status \in {"picked_up", "cleared"}
                          /\ \E d \in Callers : given'[i] = {d}
        OBVIOUS
      <4>1. CASE i = id
        BY <2>1, <3>1, <3>3, <4>1
      <4>2. CASE i # id
        <5>1. given'[i] = given[i]
          BY <3>3, <4>2
        <5>2. i \in DOMAIN handoffs /\ handoffs[i].status \in {"picked_up", "cleared"} /\ \E d \in Callers : given[i] = {d}
          BY <5>1 DEF FInv
        <5> QED BY <3>1, <4>2, <5>1, <5>2
      <4> QED BY <4>1, <4>2
    <3>6. held' \in [Callers -> [op: {"none", "pick", "clear"}, id: Nat]]
          /\ \A d \in Callers : held'[d].op # "none" => held'[d].id \in DOMAIN handoffs'
      BY <1>3, <2>1, <3>1
    <3> QED BY <3>1, <3>3, <3>4, <3>5, <3>6 DEF FInv
  <2> QED BY <1>4, <2>2, <2>3 DEF pick_handoff, StillActive
<1>5. ASSUME NEW c \in Callers, clear_handoff(c) PROVE FInv'
  <2> DEFINE id == held[c].id
             q == [handoffs[id] EXCEPT !.status = "cleared"]
  <2>1. id \in DOMAIN handoffs /\ held' = [held EXCEPT ![c] = NotHeld] /\ given' = given
        /\ handoffs' = [handoffs EXCEPT ![id] = q]
    BY <1>5 DEF clear_handoff, FInv
  <2>2. q \in Handoff /\ q.status = "cleared"
    BY <1>0, <2>1 DEF Handoff
  <2> HIDE DEF q
  <2>3. handoffs' \in Seq(Handoff) /\ Len(handoffs') = Len(handoffs)
        /\ \A i \in DOMAIN handoffs : handoffs'[i] = IF i = id THEN q ELSE handoffs[i]
    BY <1>0, <2>1, <2>2, ExceptSeq
  <2> QED BY <1>3, <2>1, <2>2, <2>3, StatusesKeep
<1>6. CASE mark_stale_handoffs
  <2>1. /\ handoffs' = [i \in DOMAIN handoffs |->
                       IF Aged(handoffs[i]) THEN [handoffs[i] EXCEPT !.status = "stale"] ELSE handoffs[i]]
        /\ UNCHANGED <<held, given>>
    BY <1>6 DEF mark_stale_handoffs
  <2>2. \A i \in DOMAIN handoffs :
          /\ handoffs'[i] \in Handoff
          /\ handoffs'[i].status = handoffs[i].status \/ (handoffs[i].status = "active" /\ handoffs'[i].status # "active")
    BY <1>0, <2>1 DEF Aged, Handoff
  <2>3. handoffs' \in [1 .. Len(handoffs) -> Handoff]
    BY <1>0, <2>1, <2>2
  <2>4. handoffs' \in Seq(Handoff) /\ Len(handoffs') = Len(handoffs)
    BY <1>0, <2>3
  <2> QED BY <2>1, <2>2, <2>4, StatusesKeep DEF FInv
<1>7. ASSUME NEW i \in DOMAIN handoffs, HandoffAges(i) PROVE FInv'
  <2> DEFINE q == [handoffs[i] EXCEPT !.old = TRUE]
  <2>1. q \in Handoff /\ q.status = handoffs[i].status
    BY <1>0 DEF Handoff
  <2>2. handoffs' = [handoffs EXCEPT ![i] = q] /\ UNCHANGED <<held, given>>
    BY <1>7 DEF HandoffAges
  <2> HIDE DEF q
  <2>3. handoffs' \in Seq(Handoff) /\ Len(handoffs') = Len(handoffs)
        /\ \A j \in DOMAIN handoffs : handoffs'[j] = IF j = i THEN q ELSE handoffs[j]
    BY <1>0, <2>1, <2>2, ExceptSeq
  <2> QED BY <2>1, <2>2, <2>3, StatusesKeep DEF FInv
<1>8. CASE UNCHANGED handoffVars
  BY <1>8 DEF handoffVars, FInv, Active
<1> QED BY <1>1, <1>2, <1>4, <1>5, <1>6, <1>7, <1>8 DEF HandoffNext

\* A Workspace begins without handoffs.
LEMMA HandoffBegins ==
    ASSUME HandoffInit
    PROVE  FInv
<1>1. handoffs = << >> /\ Len(handoffs) = 0 /\ DOMAIN handoffs = {}
  BY DEF HandoffInit
<1>2. Active = {}
  BY <1>1 DEF Active
<1> QED BY <1>1, <1>2, HandoffAssumption DEF HandoffInit, FInv, NotHeld

\* What the invariant says of handoffs.
LEMMA HandoffFollows ==
    ASSUME FInv
    PROVE  OneActive /\ HandedOnce /\ PickRemembered
<1>1. OneActive
  <2>1. Active = {} \/ \E i \in Active : Active = {i}
    BY DEF FInv
  <2> QED BY <2>1, FS_EmptySet, FS_Singleton DEF OneActive
<1>2. ASSUME NEW i \in DOMAIN given PROVE Cardinality(given[i]) <= 1
  <2>1. given[i] = {} \/ \E c \in Callers : given[i] = {c}
    BY DEF FInv
  <2>2. Cardinality(given[i]) = 0 \/ Cardinality(given[i]) = 1
    BY <2>1, FS_EmptySet, FS_Singleton
  <2> QED BY <2>2
<1>3. PickRemembered
  BY DEF FInv, PickRemembered
<1> QED BY <1>1, <1>2, <1>3 DEF HandedOnce

\* control/handoffs.py: a Workspace offers one handoff, hands it over once and remembers that,
\* however picks, sets, clears and the sweep interleave.
THEOREM HandoffsHold ==
    HandoffInit /\ [][HandoffNext]_handoffVars => [](OneActive /\ HandedOnce /\ PickRemembered)
<1>1. FInv /\ [HandoffNext]_handoffVars => FInv'
  BY HandoffSteps
<1> QED BY <1>1, HandoffBegins, HandoffFollows, PTL

-----------------------------------------------------------------------------
(* Topic boards.                                                            *)

Post == [topic: Boards, home: BOOLEAN, blast: BOOLEAN]

\* A cursor n that began at b: every post of the topic in between was delivered, and none
\* behind the cursor was.
Fits(log, n, b, D, topic) ==
    /\ b <= n /\ n <= Len(log) /\ \A i \in D : i <= n
    /\ \A i \in DOMAIN log : log[i].topic = topic /\ b < i /\ i <= n => i \in D

TInv ==
    /\ posts \in Seq(Post)
    /\ seen \in [Subscribers -> [Boards -> Int]] /\ since \in [Subscribers -> [Boards -> Int]]
    /\ delivered \in [Subscribers -> [Boards -> SUBSET Nat]]
    /\ \A s \in Subscribers, topic \in Boards :
          /\ seen[s][topic] = -1 => delivered[s][topic] = {}
          /\ seen[s][topic] # -1 => Fits(posts, seen[s][topic], since[s][topic], delivered[s][topic], topic)

\* The newest post of some is one of them.
LEMMA NewestIsOne ==
    ASSUME TInv, NEW topic \in Boards, NEW S, S \subseteq On(topic)
    PROVE  /\ Newest(S) \in Nat /\ Newest(S) <= Len(posts)
           /\ S # {} => Newest(S) \in S /\ \A i \in S : i <= Newest(S)
<1>1. DOMAIN posts = 1 .. Len(posts) /\ Len(posts) \in Nat
  BY DEF TInv
<1>2. S \subseteq 1 .. Len(posts)
  BY <1>1 DEF On
<1>3. CASE S = {}
  BY <1>1, <1>3 DEF Newest
<1>4. CASE S # {}
  <2>1. \E x \in S : \A y \in S : y <= x
    BY <1>1, <1>2, <1>4, GreatestExists
  <2>2. Newest(S) \in S /\ \A i \in S : i <= Newest(S)
    BY <1>4, <2>1 DEF Newest
  <2>3. Newest(S) \in 1 .. Len(posts)
    BY <1>2, <2>2
  <2> QED BY <1>1, <2>2, <2>3
<1> QED BY <1>3, <1>4

\* A page holds everything that is older than its newest post.
LEMMA PageIsClosed ==
    ASSUME TInv, NEW topic \in Boards, NEW S, S \subseteq On(topic), NEW m \in Page(S), NEW i \in S, i <= m
    PROVE  i \in Page(S)
<1> DEFINE P(k) == {j \in S : j <= k}
<1>1. Len(posts) \in Nat /\ S \subseteq 1 .. Len(posts)
  BY DEF TInv, On
<1>2. IsFiniteSet(1 .. Len(posts))
  BY <1>1, FS_Interval
<1>3. P(m) \subseteq 1 .. Len(posts) /\ P(i) \subseteq P(m)
  <2>1. m \in Int /\ i \in Int /\ \A j \in S : j \in Int
    BY <1>1 DEF Page
  <2>2. \A j \in S : j <= i => j <= m
    BY <2>1
  <2> QED BY <1>1, <2>2
<1>4. Cardinality(P(m)) <= PageSize
  BY DEF Page
<1> HIDE DEF P
<1>5. IsFiniteSet(P(m))
  BY <1>2, <1>3, FS_Subset
<1>6. Cardinality(P(i)) <= Cardinality(P(m)) /\ IsFiniteSet(P(i))
  BY <1>3, <1>5, FS_Subset
<1>7. Cardinality(P(i)) \in Nat /\ Cardinality(P(m)) \in Nat /\ PageSize \in Nat
  BY <1>5, <1>6, FS_CardinalityType, TopicAssumption
<1>8. Cardinality(P(i)) <= PageSize
  BY <1>4, <1>6, <1>7
<1> QED BY <1>8 DEF Page, P

\* Every step of the boards keeps their invariant.
LEMMA TopicSteps ==
    ASSUME TInv, [TopicNext]_topicVars
    PROVE  TInv'
<1>0. DOMAIN posts = 1 .. Len(posts) /\ Len(posts) \in Nat
  BY DEF TInv
<1>1. ASSUME NEW topic \in Boards, NEW home \in BOOLEAN, NEW blast \in BOOLEAN, post_topic(topic, home, blast)
      PROVE  TInv'
  <2> DEFINE new == [topic |-> topic, home |-> home, blast |-> blast]
  <2>1. posts' = Append(posts, new) /\ new \in Post /\ UNCHANGED <<seen, since, delivered>>
    BY <1>1 DEF post_topic, Post
  <2> HIDE DEF new
  <2>2. /\ posts' \in Seq(Post) /\ Len(posts') = Len(posts) + 1 /\ DOMAIN posts' = 1 .. Len(posts) + 1
        /\ \A i \in 1 .. Len(posts) : posts'[i] = posts[i]
    BY <1>0, <2>1, AppendProperties DEF TInv
  <2>3. ASSUME NEW t \in Boards, NEW n \in Int, NEW b, NEW D, Fits(posts, n, b, D, t) PROVE Fits(posts', n, b, D, t)
    <3>1. \A i \in DOMAIN posts' : (i \in DOMAIN posts /\ posts'[i] = posts[i]) \/ i = Len(posts) + 1
      BY <1>0, <2>2
    <3> QED BY <1>0, <2>2, <2>3, <3>1 DEF Fits
  <2> QED BY <2>1, <2>2, <2>3 DEF TInv
<1>2. ASSUME NEW s \in Subscribers, NEW topic \in Boards, subscribe_topic(s, topic) PROVE TInv'
  <2>1. PICK existing \in BOOLEAN :
          /\ seen' = [seen EXCEPT ![s][topic] = Start(topic, existing)]
          /\ since' = [since EXCEPT ![s][topic] = IF existing THEN 0 ELSE Newest(On(topic))]
    BY <1>2 DEF subscribe_topic
  <2>2. seen[s][topic] = -1 /\ UNCHANGED <<posts, delivered>>
    BY <1>2 DEF subscribe_topic
  <2> DEFINE n == Start(topic, existing)
  <2>n. n \in Nat /\ n <= Len(posts)
    BY <1>0, NewestIsOne DEF Start
  <2>3. /\ n \in Nat /\ n <= Len(posts) /\ n # -1
        /\ seen' = [seen EXCEPT ![s][topic] = n] /\ since' = [since EXCEPT ![s][topic] = n]
    <3>1. n # -1
      BY <2>n
    <3>2. (IF existing THEN 0 ELSE Newest(On(topic))) = n
      BY DEF Start
    <3> QED BY <2>1, <2>n, <3>1, <3>2
  <2> HIDE DEF n
  <2>4. Fits(posts, n, n, {}, topic)
    BY <1>0, <2>3 DEF Fits
  <2>5. delivered[s][topic] = {}
    BY <2>2 DEF TInv
  <2>6. seen' \in [Subscribers -> [Boards -> Int]] /\ since' \in [Subscribers -> [Boards -> Int]]
    BY <2>3 DEF TInv
  <2>7. \A u \in Subscribers, t \in Boards :
           IF u = s /\ t = topic THEN seen'[u][t] = n /\ since'[u][t] = n
           ELSE seen'[u][t] = seen[u][t] /\ since'[u][t] = since[u][t]
    BY <2>3 DEF TInv
  <2>8. ASSUME NEW u \in Subscribers, NEW t \in Boards
        PROVE  /\ seen'[u][t] = -1 => delivered[u][t] = {}
               /\ seen'[u][t] # -1 => Fits(posts, seen'[u][t], since'[u][t], delivered[u][t], t)
    <3>1. CASE u = s /\ t = topic
      BY <2>3, <2>4, <2>5, <2>7, <3>1
    <3>2. CASE ~(u = s /\ t = topic)
      BY <2>7, <3>2 DEF TInv
    <3> QED BY <3>1, <3>2
  <2> QED BY <2>2, <2>6, <2>8 DEF TInv
<1>3. ASSUME NEW s \in Subscribers, NEW topic \in Boards, unsubscribe_topic(s, topic) PROVE TInv'
  BY <1>3 DEF unsubscribe_topic, TInv
<1>4. ASSUME NEW s \in Subscribers, NEW topic \in Boards, read_topic(s, topic) PROVE TInv'
  <2> DEFINE S == {i \in On(topic) : i > seen[s][topic]}
             n == seen[s][topic]
             b == since[s][topic]
             D == delivered[s][topic]
             m == Newest(Page(S))
             E == D \cup Page(S)
  <2>1. /\ n # -1 /\ Page(S) # {} /\ UNCHANGED <<posts, since>>
        /\ seen' = [seen EXCEPT ![s][topic] = m] /\ delivered' = [delivered EXCEPT ![s][topic] = E]
    BY <1>4 DEF read_topic
  <2>2. S \subseteq On(topic) /\ Page(S) \subseteq S /\ On(topic) \subseteq 1 .. Len(posts)
    BY <1>0 DEF Page, On
  <2>3. m \in Page(S) /\ m \in Nat /\ m <= Len(posts) /\ \A i \in Page(S) : i <= m
    BY <2>1, <2>2, NewestIsOne
  <2>4. Fits(posts, n, b, D, topic) /\ n \in Int /\ b \in Int /\ D \subseteq Nat
    BY <2>1 DEF TInv
  <2>5. n < m
    BY <2>2, <2>3, <2>4
  <2>6. \A i \in S : i <= m => i \in Page(S)
    BY <2>2, <2>3, PageIsClosed
  <2>7. Fits(posts, m, b, E, topic)
    <3>1. b <= m
      BY <2>3, <2>4, <2>5 DEF Fits
    <3>2. \A i \in E : i <= m
      BY <2>3, <2>4, <2>5 DEF Fits
    <3>3. ASSUME NEW i \in DOMAIN posts, posts[i].topic = topic, b < i, i <= m PROVE i \in E
      <4>1. i \in Nat /\ i \in On(topic)
        BY <1>0, <3>3 DEF On
      <4>2. CASE i <= n
        BY <2>4, <3>3, <4>2 DEF Fits
      <4>3. CASE i > n
        BY <2>6, <3>3, <4>1, <4>3
      <4> QED BY <2>4, <4>1, <4>2, <4>3
    <3> QED BY <2>3, <3>1, <3>2, <3>3 DEF Fits
  <2>8. E \subseteq Nat
    BY <1>0, <2>2, <2>4
  <2> HIDE DEF m, E, S, n, b, D
  <2>9. seen' \in [Subscribers -> [Boards -> Int]] /\ delivered' \in [Subscribers -> [Boards -> SUBSET Nat]]
    BY <2>1, <2>3, <2>8 DEF TInv
  <2>10. \A u \in Subscribers, t \in Boards :
           IF u = s /\ t = topic THEN seen'[u][t] = m /\ delivered'[u][t] = E
           ELSE seen'[u][t] = seen[u][t] /\ delivered'[u][t] = delivered[u][t]
    BY <2>1 DEF TInv
  <2>11. m # -1 /\ since' = since /\ posts' = posts
    BY <2>1, <2>3
  <2>12. ASSUME NEW u \in Subscribers, NEW t \in Boards
         PROVE  /\ seen'[u][t] = -1 => delivered'[u][t] = {}
                /\ seen'[u][t] # -1 => Fits(posts, seen'[u][t], since[u][t], delivered'[u][t], t)
    <3>1. CASE u = s /\ t = topic
      BY <2>7, <2>10, <2>11, <3>1 DEF b
    <3>2. CASE ~(u = s /\ t = topic)
      BY <2>10, <3>2 DEF TInv
    <3> QED BY <3>1, <3>2
  <2> QED BY <2>9, <2>11, <2>12 DEF TInv
<1>5. ASSUME NEW s \in Subscribers, NEW t \in Subscribers, Supersede(s, t) PROVE TInv'
  <2> DEFINE moved == {topic \in Boards : seen[s][topic] # -1}
             wins == {topic \in moved : seen[s][topic] > seen[t][topic]}
  <2>1. /\ s # t /\ UNCHANGED posts
        /\ seen' = [seen EXCEPT ![s] = [topic \in Boards |-> -1],
                               ![t] = [topic \in Boards |-> IF topic \in wins THEN seen[s][topic] ELSE @[topic]]]
        /\ since' = [since EXCEPT ![s] = [topic \in Boards |-> 0],
                                 ![t] = [topic \in Boards |-> IF topic \in wins THEN since[s][topic] ELSE @[topic]]]
        /\ delivered' = [delivered EXCEPT ![s] = [topic \in Boards |-> {}],
                             ![t] = [topic \in Boards |-> IF topic \in wins THEN delivered[s][topic] ELSE @[topic]]]
    BY <1>5 DEF Supersede
  <2>2. wins \subseteq moved
    OBVIOUS
  <2> HIDE DEF wins
  <2>3. \A topic \in Boards : seen'[s][topic] = -1 /\ delivered'[s][topic] = {}
    BY <2>1 DEF TInv
  <2>4. \A topic \in Boards :
          IF topic \in wins
          THEN seen'[t][topic] = seen[s][topic] /\ since'[t][topic] = since[s][topic] /\ delivered'[t][topic] = delivered[s][topic]
          ELSE seen'[t][topic] = seen[t][topic] /\ since'[t][topic] = since[t][topic] /\ delivered'[t][topic] = delivered[t][topic]
    BY <2>1 DEF TInv
  <2>5. \A u \in Subscribers : u \notin {s, t} => seen'[u] = seen[u] /\ since'[u] = since[u] /\ delivered'[u] = delivered[u]
    BY <2>1 DEF TInv
  <2>6. seen' \in [Subscribers -> [Boards -> Int]]
    <3> DEFINE x == [topic \in Boards |-> -1]
               y == [topic \in Boards |-> IF topic \in wins THEN seen[s][topic] ELSE seen[t][topic]]
    <3>1. x \in [Boards -> Int] /\ y \in [Boards -> Int] /\ seen' = [seen EXCEPT ![s] = x, ![t] = y]
      BY <2>1 DEF TInv
    <3> HIDE DEF x, y
    <3> QED BY <3>1 DEF TInv
  <2>7. since' \in [Subscribers -> [Boards -> Int]]
    <3> DEFINE x == [topic \in Boards |-> 0]
               y == [topic \in Boards |-> IF topic \in wins THEN since[s][topic] ELSE since[t][topic]]
    <3>1. x \in [Boards -> Int] /\ y \in [Boards -> Int] /\ since' = [since EXCEPT ![s] = x, ![t] = y]
      BY <2>1 DEF TInv
    <3> HIDE DEF x, y
    <3> QED BY <3>1 DEF TInv
  <2>8. delivered' \in [Subscribers -> [Boards -> SUBSET Nat]]
    <3> DEFINE x == [topic \in Boards |-> {}]
               y == [topic \in Boards |-> IF topic \in wins THEN delivered[s][topic] ELSE delivered[t][topic]]
    <3>1. x \in [Boards -> SUBSET Nat] /\ y \in [Boards -> SUBSET Nat] /\ delivered' = [delivered EXCEPT ![s] = x, ![t] = y]
      BY <2>1 DEF TInv
    <3> HIDE DEF x, y
    <3> QED BY <3>1 DEF TInv
  <2>9. ASSUME NEW u \in Subscribers, NEW topic \in Boards
        PROVE  /\ seen'[u][topic] = -1 => delivered'[u][topic] = {}
               /\ seen'[u][topic] # -1 => Fits(posts, seen'[u][topic], since'[u][topic], delivered'[u][topic], topic)
    <3>1. CASE u = s
      BY <2>3, <3>1
    <3>2. CASE u = t
      BY <2>4, <3>2 DEF TInv
    <3>3. CASE u \notin {s, t}
      BY <2>5, <3>3 DEF TInv
    <3> QED BY <3>1, <3>2, <3>3
  <2> QED BY <2>1, <2>6, <2>7, <2>8, <2>9 DEF TInv
<1>6. CASE UNCHANGED topicVars
  BY <1>6 DEF topicVars, TInv
<1> QED BY <1>1, <1>2, <1>3, <1>4, <1>5, <1>6 DEF TopicNext

\* A board begins without posts.
LEMMA TopicBegins ==
    ASSUME TopicInit
    PROVE  TInv
BY DEF TopicInit, TInv

\* What the invariant says of boards.
LEMMA TopicFollows ==
    ASSUME TInv
    PROVE  NoPostSkipped /\ PendingIsNews
<1> SUFFICES ASSUME NEW s \in Subscribers, NEW topic \in Boards, seen[s][topic] # -1
             PROVE  /\ {i \in Owed(s, topic) : i <= seen[s][topic]} \subseteq delivered[s][topic]
                    /\ Pending(s, topic) = {i \in Owed(s, topic) \ delivered[s][topic] : posts[i].blast /\ ~posts[i].home}
  BY DEF NoPostSkipped, PendingIsNews
<1>1. Fits(posts, seen[s][topic], since[s][topic], delivered[s][topic], topic)
      /\ seen[s][topic] \in Int /\ since[s][topic] \in Int
  BY DEF TInv
<1>2. \A i \in On(topic) : i \in Nat
  BY DEF On, TInv
<1>3. {i \in Owed(s, topic) : i <= seen[s][topic]} \subseteq delivered[s][topic]
  BY <1>1 DEF Owed, Fits, On
<1>4. \A i \in On(topic) : i > seen[s][topic] <=> i > since[s][topic] /\ i \notin delivered[s][topic]
  BY <1>1, <1>2 DEF Fits, On
<1>5. Pending(s, topic) = {i \in Owed(s, topic) \ delivered[s][topic] : posts[i].blast /\ ~posts[i].home}
  BY <1>4 DEF Pending, Owed
<1> QED BY <1>3, <1>5

\* control/topics.py: a cursor passes no post that no read returned, and what is announced as
\* pending is what was not delivered, however subscriptions end, begin again and are taken over.
THEOREM TopicsHold == TopicInit /\ [][TopicNext]_topicVars => [](NoPostSkipped /\ PendingIsNews)
<1>1. TInv /\ [TopicNext]_topicVars => TInv'
  BY TopicSteps
<1> QED BY <1>1, TopicBegins, TopicFollows, PTL

-----------------------------------------------------------------------------
(* SMTP copies.                                                             *)

Unsent == {"none", "queued", "retry", "failed", "cancelled"}
OutboxRow == [status: Unsent \cup {"sending", "sent", "uncertain"}, attempt: Nat, owner: Workers \cup {NoWorker},
              lapsed: BOOLEAN, dest: Nat, mode: {"none", "disabled", "notification", "full_body"}]
Courier == [at: {"idle", "claimed", "rendered", "settling", "gone"}, copy: Nat, late: BOOLEAN,
            outcome: {"none", "sent", "uncertain", "failed"}]

SmtpTyped ==
    /\ outbox \in [Copies -> OutboxRow] /\ courier \in [Workers -> Courier] /\ accepted \in [Copies -> Nat]
    /\ policy \in [dest: Nat, verified: BOOLEAN, mode: {"disabled", "notification", "full_body"}]
    /\ asked \in Nat

\* A call carries a copy that it owns or that was given up as uncertain, alone; what it knows
\* of the copy's acceptance is so.
Carries(w) == courier[w].at \in {"claimed", "rendered", "settling"}
CarriesRightly(w) ==
    LET o == courier[w].copy
    IN  Carries(w) =>
          /\ o \in Copies /\ (Claimed(w) \/ outbox[o].status = "uncertain")
          /\ courier[w].at # "settling" => accepted[o] = 0
          /\ courier[w].at = "settling" /\ courier[w].outcome = "sent" => accepted[o] = 1
          /\ courier[w].at = "settling" /\ courier[w].outcome = "failed" => accepted[o] = 0
          /\ courier[w].at = "settling" => courier[w].outcome # "none"
AloneWith(v, w) == v # w /\ Carries(v) /\ Carries(w) => courier[v].copy # courier[w].copy

\* The status of a copy is true of its acceptance.
Truthful(q, n) == n <= 1 /\ (q.status \in Unsent => n = 0) /\ (q.status = "sent" => n = 1)

SInv ==
    /\ SmtpTyped
    /\ \A w \in Workers : CarriesRightly(w)
    /\ \A v, w \in Workers : AloneWith(v, w)
    /\ \A o \in Copies : Truthful(outbox[o], accepted[o])

\* A step that leaves the couriers alone, and what they carry sending or uncertain.
LEMMA OutboxKeeps ==
    ASSUME SInv, UNCHANGED <<courier, accepted>>, outbox' \in [Copies -> OutboxRow],
           policy' \in [dest: Nat, verified: BOOLEAN, mode: {"disabled", "notification", "full_body"}], asked' \in Nat,
           \A o \in Copies :
              \/ outbox'[o].status = outbox[o].status /\ outbox'[o].owner = outbox[o].owner
              \/ outbox[o].status \in Unsent /\ outbox'[o].status \in Unsent
              \/ outbox[o].status = "sending" /\ outbox'[o].status = "uncertain"
    PROVE  SInv'
<1>1. SmtpTyped'
  BY DEF SInv, SmtpTyped
<1>2. ASSUME NEW w \in Workers PROVE CarriesRightly(w)'
  <2> SUFFICES ASSUME Carries(w) PROVE CarriesRightly(w)'
    BY DEF Carries, CarriesRightly
  <2>1. CarriesRightly(w) /\ courier[w].copy \in Copies
    BY DEF SInv, CarriesRightly
  <2>2. Claimed(w)' \/ outbox'[courier[w].copy].status = "uncertain"
    BY <2>1 DEF CarriesRightly, Claimed, Unsent
  <2> QED BY <2>1, <2>2 DEF CarriesRightly, Carries
<1>3. \A v, w \in Workers : AloneWith(v, w)'
  BY DEF SInv, AloneWith, Carries
<1>4. ASSUME NEW o \in Copies PROVE Truthful(outbox'[o], accepted'[o])
  BY DEF SInv, Truthful, Unsent
<1> QED BY <1>1, <1>2, <1>3, <1>4 DEF SInv

\* Settled copies keep their type.
LEMMA AsTyped ==
    ASSUME NEW q \in OutboxRow, NEW st \in Unsent \cup {"sent", "uncertain"}
    PROVE  As(q, st) \in OutboxRow /\ As(q, st).status = st
BY DEF As, OutboxRow

\* A new copy, a change of policy, and a lease that lapses.
LEMMA PolicyKeeps ==
    ASSUME SInv, \/ \E o \in Copies : Enqueue(o) \/ LeaseLapses(o)
                 \/ request_smtp_destination_verification \/ (\E sent \in BOOLEAN : ChallengeEnds(sent))
                 \/ verify_smtp_destination \/ clear_smtp_destination
                 \/ \E mode \in {"disabled", "notification", "full_body"} : set_smtp_copy_mode(mode)
    PROVE  SInv'
<1>0. /\ outbox \in [Copies -> OutboxRow] /\ asked \in Nat /\ UNCHANGED <<courier, accepted>>
      /\ policy \in [dest: Nat, verified: BOOLEAN, mode: {"disabled", "notification", "full_body"}]
  BY DEF SInv, SmtpTyped, Enqueue, LeaseLapses, request_smtp_destination_verification, ChallengeEnds,
         verify_smtp_destination, clear_smtp_destination, set_smtp_copy_mode
<1>1. policy' \in [dest: Nat, verified: BOOLEAN, mode: {"disabled", "notification", "full_body"}] /\ asked' \in Nat
  <2>1. Unset \in [dest: Nat, verified: BOOLEAN, mode: {"disabled", "notification", "full_body"}]
    BY DEF Unset
  <2>2. CASE \E o \in Copies : Enqueue(o) \/ LeaseLapses(o)
    BY <1>0, <2>2 DEF Enqueue, LeaseLapses
  <2>3. CASE request_smtp_destination_verification
    BY <1>0, <2>1, <2>3 DEF request_smtp_destination_verification
  <2>4. CASE \E sent \in BOOLEAN : ChallengeEnds(sent)
    BY <1>0, <2>1, <2>4 DEF ChallengeEnds
  <2>5. CASE verify_smtp_destination \/ clear_smtp_destination
    BY <1>0, <2>1, <2>5 DEF verify_smtp_destination, clear_smtp_destination
  <2>6. CASE \E mode \in {"disabled", "notification", "full_body"} : set_smtp_copy_mode(mode)
    BY <1>0, <2>6 DEF set_smtp_copy_mode
  <2> QED BY <2>2, <2>3, <2>4, <2>5, <2>6
<1>2. ASSUME NEW o \in Copies, Enqueue(o) \/ LeaseLapses(o) PROVE SInv'
  <2>1. CASE LeaseLapses(o)
    <3> DEFINE r == [outbox[o] EXCEPT !.lapsed = TRUE]
    <3>1. r \in OutboxRow /\ r.status = outbox[o].status /\ r.owner = outbox[o].owner /\ outbox' = [outbox EXCEPT ![o] = r]
      BY <1>0, <2>1 DEF LeaseLapses, OutboxRow
    <3> HIDE DEF r
    <3> QED BY <1>0, <1>1, <3>1, OutboxKeeps
  <2>2. CASE Enqueue(o)
    <3> DEFINE r == [NoCopy EXCEPT !.status = "queued", !.dest = policy.dest, !.mode = policy.mode]
    <3>1. NoCopy \in OutboxRow
      BY SmtpAssumption DEF NoCopy, OutboxRow, Unsent
    <3>2. outbox[o].status = "none" /\ outbox' = [outbox EXCEPT ![o] = r]
      BY <2>2 DEF Enqueue
    <3>3. r \in OutboxRow /\ r.status = "queued"
      BY <1>0, <3>1 DEF OutboxRow, Unsent
    <3> HIDE DEF r
    <3> QED BY <1>0, <1>1, <3>2, <3>3, OutboxKeeps DEF Unsent
  <2> QED BY <1>2, <2>1, <2>2
<1>3. CASE outbox' = outbox
  BY <1>0, <1>1, <1>3, OutboxKeeps
<1>4. CASE outbox' = _cancel_open_outbox(outbox)
  <2>1. \A o \in Copies : outbox'[o] = IF outbox[o].status \in {"queued", "retry"} THEN As(outbox[o], "cancelled") ELSE outbox[o]
    BY <1>4 DEF _cancel_open_outbox, Waiting
  <2>2. \A o \in Copies : As(outbox[o], "cancelled") \in OutboxRow /\ As(outbox[o], "cancelled").status = "cancelled"
    BY <1>0, AsTyped DEF Unsent
  <2>3. outbox' = [o \in Copies |-> outbox'[o]]
    BY <1>4 DEF _cancel_open_outbox
  <2>4. outbox' \in [Copies -> OutboxRow]
    BY <1>0, <2>1, <2>2, <2>3
  <2> QED BY <1>0, <1>1, <2>1, <2>2, <2>4, OutboxKeeps DEF Unsent
<1> QED BY <1>2, <1>3, <1>4 DEF request_smtp_destination_verification, ChallengeEnds, verify_smtp_destination,
           clear_smtp_destination, set_smtp_copy_mode

\* A step of one call on the copy it carries, or takes, or lets go of.
LEMMA CourierKeeps ==
    ASSUME SInv, NEW w \in Workers, NEW o \in Copies, NEW c2 \in Courier, NEW q2 \in OutboxRow, NEW n \in Nat,
           courier' = [courier EXCEPT ![w] = c2], outbox' = [outbox EXCEPT ![o] = q2],
           accepted' = [accepted EXCEPT ![o] = n], UNCHANGED <<policy, asked>>,
           Truthful(q2, n),
           \A v \in Workers : v # w /\ Carries(v) => courier[v].copy # o,
           c2.at \in {"claimed", "rendered", "settling"} => c2.copy = o /\ CarriesRightly(w)'
    PROVE  SInv'
<1>1. SmtpTyped'
  BY DEF SInv, SmtpTyped
<1>2. \A v \in Workers : v # w => courier'[v] = courier[v]
  BY DEF SInv, SmtpTyped
<1>3. courier'[w] = c2 /\ \A k \in Copies : k # o => outbox'[k] = outbox[k] /\ accepted'[k] = accepted[k]
  BY DEF SInv, SmtpTyped
<1>4. ASSUME NEW v \in Workers PROVE CarriesRightly(v)'
  <2>1. CASE v = w
    BY <1>3, <2>1 DEF CarriesRightly, Carries
  <2>2. CASE v # w /\ Carries(v)
    <3>1. courier[v].copy # o /\ courier'[v] = courier[v] /\ CarriesRightly(v) /\ courier[v].copy \in Copies
      BY <1>2, <2>2 DEF SInv, CarriesRightly
    <3>2. outbox'[courier[v].copy] = outbox[courier[v].copy] /\ accepted'[courier[v].copy] = accepted[courier[v].copy]
      BY <1>3, <3>1
    <3> QED BY <2>2, <3>1, <3>2 DEF CarriesRightly, Claimed, Carries
  <2>3. CASE v # w /\ ~Carries(v)
    BY <1>2, <2>3 DEF CarriesRightly, Carries
  <2> QED BY <2>1, <2>2, <2>3
<1>5. ASSUME NEW u \in Workers, NEW v \in Workers PROVE AloneWith(u, v)'
  BY <1>2, <1>3 DEF SInv, AloneWith, Carries
<1>6. ASSUME NEW k \in Copies PROVE Truthful(outbox'[k], accepted'[k])
  BY <1>3 DEF SInv, SmtpTyped
<1> QED BY <1>1, <1>4, <1>5, <1>6 DEF SInv

\* A step of a call on the copy it carries.
LEMMA CarriedKeeps ==
    ASSUME SInv, NEW w \in Workers, Carries(w), NEW c2 \in Courier, NEW q2 \in OutboxRow, NEW n \in Nat,
           courier' = [courier EXCEPT ![w] = c2], outbox' = [outbox EXCEPT ![courier[w].copy] = q2],
           accepted' = [accepted EXCEPT ![courier[w].copy] = n], UNCHANGED <<policy, asked>>,
           Truthful(q2, n),
           c2.at \in {"claimed", "rendered", "settling"} => c2.copy = courier[w].copy /\ CarriesRightly(w)'
    PROVE  SInv'
<1>1. courier[w].copy \in Copies
  BY DEF SInv, CarriesRightly
<1>2. \A v \in Workers : v # w /\ Carries(v) => courier[v].copy # courier[w].copy
  BY DEF SInv, AloneWith
<1> QED BY <1>1, <1>2, CourierKeeps

\* The claim of the oldest open copy, after lapsed ones were given up as uncertain.
LEMMA ClaimOutboxKeeps ==
    ASSUME SInv, NEW w \in Workers, _claim_outbox(w)
    PROVE  SInv'
<1>1. PICK R \in SUBSET {o \in Sending : outbox[o].lapsed} :
         LET box == [o \in Copies |-> IF o \in R THEN Recovered(outbox[o]) ELSE outbox[o]]
         IN  \/ /\ R # {} /\ outbox' = box /\ UNCHANGED courier
             \/ \E o \in Waiting :
                   /\ outbox' = [box EXCEPT ![o] = [box[o] EXCEPT !.status = "sending", !.attempt = @ + 1, !.owner = w,
                                                             !.lapsed = courier[w].late]]
                   /\ courier' = [courier EXCEPT ![w] = [@ EXCEPT !.at = "claimed", !.copy = o]]
  BY Zenon DEF _claim_outbox
<1> DEFINE box == [o \in Copies |-> IF o \in R THEN Recovered(outbox[o]) ELSE outbox[o]]
<1>2. courier[w].at = "idle" /\ UNCHANGED <<policy, accepted, asked>>
  BY Zenon DEF _claim_outbox
<1>3. \A o \in R : o \in Copies /\ outbox[o].status = "sending"
  BY DEF Sending
<1>4. \A o \in Copies : box[o] = IF o \in R THEN As(outbox[o], "uncertain") ELSE outbox[o]
  BY DEF Recovered
<1>5. box \in [Copies -> OutboxRow] /\ \A o \in R : box[o].status = "uncertain"
  <2>1. \A o \in Copies : As(outbox[o], "uncertain") \in OutboxRow /\ As(outbox[o], "uncertain").status = "uncertain"
    BY AsTyped DEF SInv, SmtpTyped
  <2>2. \A o \in Copies : box[o] \in OutboxRow
    BY <1>4, <2>1 DEF SInv, SmtpTyped
  <2> QED BY <1>3, <1>4, <2>1, <2>2
<1>6. CASE outbox' = box /\ UNCHANGED courier
  <2> HIDE DEF box
  <2> QED BY <1>2, <1>3, <1>4, <1>5, <1>6, OutboxKeeps DEF SInv, SmtpTyped
<1>7. ASSUME NEW o \in Waiting,
             outbox' = [box EXCEPT ![o] = [box[o] EXCEPT !.status = "sending", !.attempt = @ + 1, !.owner = w,
                                                    !.lapsed = courier[w].late]],
             courier' = [courier EXCEPT ![w] = [@ EXCEPT !.at = "claimed", !.copy = o]]
      PROVE  SInv'
  <2> DEFINE old == box[o]
             late == courier[w].late
             q2 == [old EXCEPT !.status = "sending", !.attempt = old.attempt + 1, !.owner = w, !.lapsed = late]
             c2 == [courier[w] EXCEPT !.at = "claimed", !.copy = o]
  <2>1. o \in Copies /\ outbox[o].status \in {"queued", "retry"} /\ o \in Nat
    BY SmtpAssumption DEF Waiting
  <2>a. old \in OutboxRow /\ late \in BOOLEAN
    BY <1>5, <2>1 DEF SInv, SmtpTyped, Courier
  <2> HIDE DEF box
  <2>b. outbox' = [box EXCEPT ![o] = q2]
    BY <1>7
  <2> HIDE DEF old, late
  <2>2. q2 \in OutboxRow /\ q2.status = "sending" /\ q2.owner = w
    <3> DEFINE n == old.attempt + 1
    <3>1. n \in Nat
      BY <2>a DEF OutboxRow
    <3> HIDE DEF n
    <3>2. [old EXCEPT !.status = "sending", !.attempt = n, !.owner = w, !.lapsed = late] \in OutboxRow
      BY <2>a, <3>1 DEF OutboxRow
    <3>3. q2.status = "sending" /\ q2.owner = w
      BY <2>a DEF OutboxRow
    <3> QED BY <3>2, <3>3 DEF n
  <2>3. c2 \in Courier /\ c2.at = "claimed" /\ c2.copy = o
    BY <2>1 DEF Courier, SInv, SmtpTyped
  <2>c. courier' = [courier EXCEPT ![w] = c2]
    BY <1>7 DEF SInv, SmtpTyped
  <2>4. outbox' = [box EXCEPT ![o] = q2] /\ courier' = [courier EXCEPT ![w] = c2]
    BY <2>b, <2>c
  <2> HIDE DEF q2, c2
  <2>5. accepted[o] = 0
    BY <2>1 DEF SInv, Truthful, Unsent
  <2>6. \A v \in Workers : Carries(v) => courier[v].copy # o /\ v # w
    BY <1>2, <2>1 DEF SInv, CarriesRightly, Claimed, Carries
  <2>7. outbox'[o] = q2 /\ \A k \in Copies : k # o => outbox'[k] = box[k]
    BY <1>5, <2>1, <2>4
  <2>8. courier'[w] = c2 /\ \A v \in Workers : v # w => courier'[v] = courier[v]
    BY <2>4 DEF SInv, SmtpTyped
  <2>9. SmtpTyped'
    BY <1>2, <1>5, <2>1, <2>2, <2>3, <2>4 DEF SInv, SmtpTyped
  <2>10. ASSUME NEW v \in Workers PROVE CarriesRightly(v)'
    <3>1. CASE v = w
      BY <1>2, <2>1, <2>2, <2>3, <2>5, <2>7, <2>8, <3>1 DEF CarriesRightly, Claimed
    <3>2. CASE v # w /\ ~Carries(v)
      BY <2>8, <3>2 DEF CarriesRightly, Carries
    <3>3. CASE v # w /\ Carries(v)
      <4> DEFINE k == courier[v].copy
      <4>1. CarriesRightly(v) /\ k \in Copies /\ k # o /\ courier'[v] = courier[v]
        BY <2>6, <2>8, <3>3 DEF SInv, CarriesRightly
      <4>2. outbox'[k] = outbox[k] \/ outbox'[k].status = "uncertain"
        BY <1>4, <1>5, <2>7, <4>1
      <4>3. Claimed(v)' \/ outbox'[k].status = "uncertain"
        BY <3>3, <4>1, <4>2 DEF CarriesRightly, Claimed
      <4> QED BY <1>2, <3>3, <4>1, <4>3 DEF CarriesRightly, Carries
    <3> QED BY <3>1, <3>2, <3>3
  <2>11. ASSUME NEW u \in Workers, NEW v \in Workers PROVE AloneWith(u, v)'
    BY <2>3, <2>6, <2>8 DEF SInv, AloneWith, Carries
  <2>12. ASSUME NEW k \in Copies PROVE Truthful(outbox'[k], accepted'[k])
    <3>1. CASE k = o
      BY <1>2, <2>2, <2>5, <2>7, <3>1 DEF Truthful, Unsent
    <3>2. CASE k # o /\ k \in R
      BY <1>2, <1>5, <2>7, <3>2 DEF SInv, Truthful, Unsent
    <3>3. CASE k # o /\ k \notin R
      BY <1>2, <1>4, <2>7, <3>3 DEF SInv
    <3> QED BY <3>1, <3>2, <3>3
  <2> QED BY <2>9, <2>10, <2>11, <2>12 DEF SInv
<1> QED BY <1>1, <1>6, <1>7

\* What a call does with the copy it carries.
LEMMA CarrierKeeps ==
    ASSUME SInv, NEW w \in Workers,
           _render_claimed(w) \/ SendCopy(w) \/ _settle_claim(w) \/ CourierDies(w) \/ BatchAges(w)
    PROVE  SInv'
<1> DEFINE o == courier[w].copy
<1>0. /\ outbox \in [Copies -> OutboxRow] /\ courier \in [Workers -> Courier] /\ accepted \in [Copies -> Nat]
      /\ UNCHANGED <<policy, asked>> /\ courier[w] \in Courier
  <2>1. UNCHANGED <<policy, asked>>
    <3>1. CASE SendCopy(w)
      BY <3>1, Zenon DEF SendCopy
    <3>2. CASE _render_claimed(w) \/ _settle_claim(w) \/ CourierDies(w) \/ BatchAges(w)
      BY <3>2, Zenon DEF _render_claimed, _settle_claim, CourierDies, BatchAges
    <3> QED BY <3>1, <3>2
  <2> QED BY <2>1 DEF SInv, SmtpTyped
<1>1. Carries(w) => /\ o \in Copies /\ CarriesRightly(w) /\ outbox[o] \in OutboxRow /\ Truthful(outbox[o], accepted[o])
                    /\ \A v \in Workers : v # w /\ Carries(v) => courier[v].copy # o
  BY <1>0 DEF SInv, CarriesRightly, AloneWith
<1>2. Carries(w) => outbox = [outbox EXCEPT ![o] = outbox[o]] /\ accepted = [accepted EXCEPT ![o] = accepted[o]]
  BY <1>0, <1>1
<1>3. \A l \in BOOLEAN : [AtRest EXCEPT !.late = l] \in Courier /\ [AtRest EXCEPT !.late = l].at = "idle"
  BY DEF AtRest, Courier
<1>4. CASE CourierDies(w)
  <2> DEFINE c2 == [AtRest EXCEPT !.at = "gone"]
  <2>1. c2 \in Courier /\ c2.at = "gone" /\ courier' = [courier EXCEPT ![w] = c2] /\ UNCHANGED <<outbox, accepted>> /\ Carries(w)
    BY <1>0, <1>4 DEF CourierDies, AtRest, Courier, Carries
  <2> HIDE DEF c2
  <2> QED BY <1>0, <1>1, <1>2, <2>1, CarriedKeeps
<1>5. CASE BatchAges(w)
  <2> DEFINE c2 == [courier[w] EXCEPT !.late = TRUE]
  <2>1. /\ c2 \in Courier /\ c2.at = courier[w].at /\ c2.copy = o /\ c2.outcome = courier[w].outcome
        /\ courier' = [courier EXCEPT ![w] = c2] /\ UNCHANGED <<outbox, accepted>> /\ Carries(w)
    BY <1>0, <1>5 DEF BatchAges, Courier, Carries
  <2> HIDE DEF c2
  <2>2. CarriesRightly(w)'
    BY <1>0, <1>1, <2>1 DEF CarriesRightly, Claimed, Carries
  <2> QED BY <1>0, <1>1, <1>2, <2>1, <2>2, CarriedKeeps
<1>6. CASE _render_claimed(w)
  <2>1. Carries(w) /\ accepted' = accepted /\ courier[w].at = "claimed" /\ accepted[o] = 0
    BY <1>1, <1>6 DEF _render_claimed, Carries, CarriesRightly
  <2>2. CASE courier' = [courier EXCEPT ![w].at = "rendered"] /\ UNCHANGED outbox
    <3> DEFINE c2 == [courier[w] EXCEPT !.at = "rendered"]
    <3>1. c2 \in Courier /\ c2.at = "rendered" /\ c2.copy = o /\ courier' = [courier EXCEPT ![w] = c2]
      BY <1>0, <2>2 DEF Courier
    <3> HIDE DEF c2
    <3>2. CarriesRightly(w)'
      BY <1>0, <1>1, <2>1, <2>2, <3>1 DEF CarriesRightly, Claimed, Carries
    <3> QED BY <1>0, <1>1, <1>2, <2>1, <2>2, <3>1, <3>2, CarriedKeeps
  <2>3. CASE /\ courier' = [courier EXCEPT ![w] = [AtRest EXCEPT !.late = courier[w].late]]
             /\ outbox' = IF Claimed(w) THEN [outbox EXCEPT ![o] = As(@, "cancelled")] ELSE outbox
    <3> DEFINE c2 == [AtRest EXCEPT !.late = courier[w].late]
               q2 == IF Claimed(w) THEN As(outbox[o], "cancelled") ELSE outbox[o]
    <3>1. c2 \in Courier /\ c2.at = "idle" /\ courier' = [courier EXCEPT ![w] = c2]
      BY <1>0, <1>3, <2>3 DEF Courier
    <3>2. q2 \in OutboxRow /\ outbox' = [outbox EXCEPT ![o] = q2] /\ (q2.status = "cancelled" \/ q2 = outbox[o])
      BY <1>0, <1>1, <1>2, <2>1, <2>3, AsTyped DEF Unsent
    <3> HIDE DEF c2, q2
    <3>3. Truthful(q2, accepted[o])
      BY <1>1, <2>1, <3>2 DEF Truthful
    <3> QED BY <1>0, <1>1, <1>2, <2>1, <3>1, <3>2, <3>3, CarriedKeeps
  <2> QED BY <1>6, <2>2, <2>3 DEF _render_claimed
<1>7. CASE SendCopy(w)
  <2>1. PICK told \in {"accepted", "unknown", "refused"}, arrived \in BOOLEAN, recorded \in BOOLEAN :
          /\ told = "accepted" => arrived
          /\ told = "refused" => ~arrived
          /\ accepted' = [accepted EXCEPT ![courier[w].copy] = @ + HandOver(told, arrived)]
          /\ courier' = [courier EXCEPT ![w] = [@ EXCEPT !.at = "settling", !.outcome = Judged(told, recorded)]]
    BY <1>7, Zenon DEF SendCopy
  <2>a. courier[w].at = "rendered" /\ UNCHANGED outbox
    BY <1>7, Zenon DEF SendCopy
  <2>2. Carries(w) /\ UNCHANGED outbox /\ accepted[o] = 0 /\ (Claimed(w) \/ outbox[o].status = "uncertain")
    BY <1>1, <2>a DEF Carries, CarriesRightly
  <2> DEFINE n == IF arrived THEN 1 ELSE 0
             out == Judged(told, recorded)
             c2 == [courier[w] EXCEPT !.at = "settling", !.outcome = out]
  <2>3. n \in Nat /\ n <= 1 /\ accepted' = [accepted EXCEPT ![o] = n]
    BY <1>0, <1>1, <2>1, <2>2 DEF HandOver
  <2>4. out \in {"sent", "uncertain", "failed"} /\ (out = "sent" => n = 1) /\ (out = "failed" => n = 0)
    BY <2>1 DEF Judged
  <2> HIDE DEF out, n
  <2>5. c2 \in Courier /\ c2.at = "settling" /\ c2.copy = o /\ c2.outcome = out /\ courier' = [courier EXCEPT ![w] = c2]
    BY <1>0, <2>1, <2>4 DEF Courier, out
  <2> HIDE DEF c2
  <2>6. outbox[o].status \in {"sending", "uncertain"}
    BY <2>2 DEF Claimed
  <2>7. Truthful(outbox[o], n)
    BY <2>3, <2>6 DEF Truthful, Unsent
  <2>8. CarriesRightly(w)'
    BY <1>0, <1>1, <2>2, <2>3, <2>4, <2>5 DEF CarriesRightly, Claimed
  <2> QED BY <1>0, <1>1, <1>2, <2>2, <2>3, <2>5, <2>7, <2>8, CarriedKeeps
<1>8. CASE _settle_claim(w)
  <2> DEFINE result == IF courier[w].outcome # "failed" THEN courier[w].outcome
                       ELSE IF outbox[o].attempt >= MAX_ATTEMPTS THEN "failed" ELSE "retry"
             c2 == [AtRest EXCEPT !.late = courier[w].late]
             q2 == IF Claimed(w) THEN As(outbox[o], result) ELSE outbox[o]
  <2>1. /\ Carries(w) /\ courier[w].at = "settling" /\ accepted' = accepted
        /\ outbox' = IF Claimed(w) THEN [outbox EXCEPT ![o] = As(@, result)] ELSE outbox
        /\ courier' = [courier EXCEPT ![w] = c2]
    BY <1>8 DEF _settle_claim, Carries
  <2>2. result \in {"sent", "uncertain", "failed", "retry"} /\ (result = "sent" => accepted[o] = 1)
        /\ (result \in {"failed", "retry"} => accepted[o] = 0)
    BY <1>0, <1>1, <2>1 DEF CarriesRightly, Courier
  <2> HIDE DEF result
  <2>3. c2 \in Courier /\ c2.at = "idle"
    BY <1>0, <1>3 DEF Courier
  <2>4. outbox' = [outbox EXCEPT ![o] = q2]
    BY <1>0, <1>1, <1>2, <2>1
  <2>5. q2 \in OutboxRow /\ (q2.status = result \/ q2 = outbox[o])
    BY <1>1, <2>1, <2>2, AsTyped DEF Unsent
  <2> HIDE DEF c2, q2
  <2>6. Truthful(q2, accepted[o])
    BY <1>1, <2>1, <2>2, <2>5 DEF Truthful, Unsent
  <2> QED BY <1>0, <1>1, <1>2, <2>1, <2>3, <2>4, <2>5, <2>6, CarriedKeeps
<1> QED BY <1>4, <1>5, <1>6, <1>7, <1>8

\* Every step of the outbox and its couriers keeps their invariant.
LEMMA SmtpSteps ==
    ASSUME SInv, [SmtpNext]_smtpVars
    PROVE  SInv'
<1>1. CASE UNCHANGED smtpVars
  BY <1>1 DEF smtpVars, SInv, SmtpTyped, CarriesRightly, AloneWith, Carries, Claimed
<1> QED BY <1>1, PolicyKeeps, ClaimOutboxKeeps, CarrierKeeps DEF SmtpNext

\* It begins without copies.
LEMMA SmtpBegins ==
    ASSUME SmtpInit
    PROVE  SInv
<1>1. NoCopy \in OutboxRow /\ NoCopy.status = "none"
  BY SmtpAssumption DEF NoCopy, OutboxRow, Unsent
<1>2. AtRest \in Courier /\ AtRest.at = "idle"
  BY DEF AtRest, Courier
<1>3. SmtpTyped
  BY <1>1, <1>2 DEF SmtpInit, SmtpTyped, Unset
<1>4. \A w \in Workers : ~Carries(w)
  BY <1>2 DEF SmtpInit, Carries
<1>5. \A o \in Copies : Truthful(outbox[o], accepted[o])
  BY <1>1 DEF SmtpInit, Truthful
<1> QED BY <1>3, <1>4, <1>5 DEF SInv, CarriesRightly, AloneWith

\* What the invariant says of copies.
LEMMA SmtpFollows ==
    ASSUME SInv
    PROVE  CopiedOnce /\ CopyHonest
BY DEF SInv, Truthful, Unsent, CopiedOnce, CopyHonest

\* control/durable_smtp.py: no copy leaves twice, and what the outbox says of a copy is true,
\* whatever dies or lapses and whatever policy changes while it is being sent.
THEOREM CopiesHold == SmtpInit /\ [][SmtpNext]_smtpVars => [](CopiedOnce /\ CopyHonest)
<1>1. SInv /\ [SmtpNext]_smtpVars => SInv'
  BY SmtpSteps
<1> QED BY <1>1, SmtpBegins, SmtpFollows, PTL

-----------------------------------------------------------------------------
(* Side by side.                                                           *)

BInv == IInv /\ HInv /\ FInv /\ TInv /\ SInv

\* A step of the composition is one of each component, or leaves it alone.
LEMMA BoardsStepApart ==
    ASSUME [BoardsNext]_BoardsVars
    PROVE  /\ [AuditNext]_auditVars /\ [HelpNext]_helpVars /\ [HandoffNext]_handoffVars
           /\ [TopicNext]_topicVars /\ [SmtpNext]_smtpVars
<1>1. CASE UNCHANGED BoardsVars
  BY <1>1 DEF BoardsVars
<1>2. CASE BoardsNext
  BY <1>2 DEF BoardsNext
<1> QED BY <1>1, <1>2

\* A step of the composition keeps every component's invariant.
LEMMA BoardsSteps ==
    ASSUME BInv, [BoardsNext]_BoardsVars
    PROVE  BInv'
<1>1. /\ [AuditNext]_auditVars /\ [HelpNext]_helpVars /\ [HandoffNext]_handoffVars
      /\ [TopicNext]_topicVars /\ [SmtpNext]_smtpVars
  BY BoardsStepApart
<1>2. IInv'
  BY <1>1, StepIsSound DEF BInv
<1>3. HInv'
  BY <1>1, HelpSteps DEF BInv, HelpStep
<1>4. FInv' /\ TInv' /\ SInv'
  BY <1>1, HandoffSteps, TopicSteps, SmtpSteps DEF BInv
<1> QED BY <1>2, <1>3, <1>4 DEF BInv

\* It begins with each component's invariant.
LEMMA BoardsBegin ==
    ASSUME BoardsInit
    PROVE  BInv
BY InitIsSound, HelpBegins, HandoffBegins, TopicBegins, SmtpBegins DEF BoardsInit, BInv

\* The five components side by side: what is left for others reaches each of them once and is
\* not skipped, one Session works on a request, and the chain shows every damage.
THEOREM BoardsHold == BoardsSpec => [](ChainIsSound /\ HelpIsSound /\ BoardsAreSound)
<1>1. BInv => ChainIsSound /\ HelpIsSound /\ BoardsAreSound
  BY ChainFollows, HelpFollows, HandoffFollows, TopicFollows, SmtpFollows DEF BInv, BoardsAreSound
<1>2. BInv /\ [BoardsNext]_BoardsVars => BInv'
  BY BoardsSteps
<1> QED BY <1>1, <1>2, BoardsBegin, PTL DEF BoardsSpec

\* Whoever acts on what it read before does no harm: no false alarm beside appends, no request
\* reopened, no claim thrown away within its grace.
THEOREM SlowReadersAreSafe == BoardsSpec => SlowReadersDoNoHarm
<1>1. ASSUME BInv, [BoardsNext]_BoardsVars PROVE [NoFalseAlarm /\ HelpFinal /\ ClaimShields]_<<auditVars, helpVars>>
  <2>1. [AuditNext]_auditVars /\ [HelpNext]_helpVars /\ IInv /\ HInv
    BY <1>1, BoardsStepApart DEF BInv
  <2>2. HelpFinal /\ ClaimShields
    BY <2>1, HelpSteps DEF HelpStep, Lasts, HelpFinal, ClaimShields
  <2>3. NoFalseAlarm
    <3>1. CASE UNCHANGED auditVars
      BY <3>1 DEF auditVars, NoFalseAlarm
    <3> QED BY <2>1, <3>1, AlarmsAreTrue
  <2> QED BY <2>2, <2>3
<1>2. BInv /\ [BoardsNext]_BoardsVars => [NoFalseAlarm /\ HelpFinal /\ ClaimShields]_<<auditVars, helpVars>>
  BY <1>1
<1>3. BInv /\ [BoardsNext]_BoardsVars => BInv'
  BY BoardsSteps
<1> QED BY <1>2, <1>3, BoardsBegin, PTL DEF BoardsSpec, SlowReadersDoNoHarm

=============================================================================
