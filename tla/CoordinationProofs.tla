------------------------- MODULE CoordinationProofs -------------------------
(***************************************************************************)
(* Proofs about Coordination.  Every mutation is a Write of the newest     *)
(* version or a Create of the next one, so the invariant is stated on a    *)
(* row with its entries (Good) and each operation only has to show that    *)
(* what it writes is typed, good and a legal continuation.                 *)
(***************************************************************************)
EXTENDS Coordination, FiniteSetTheorems, TLAPS

By(es, kind) == {e.author : e \in {x \in es : x.kind = kind}}
MembersOf(r) == r.spec.participants \cup {r.spec.owner} \cup ({r.requester} \ {Operator})

\* A row and its entries agree on the phase they are in.
Good(r, es) ==
    /\ (r.status \notin {"planned", "cancelled"} \/ \E e \in es : e.kind # "accept")
          => By(es, "accept") = MembersOf(r)
    /\ r.status = "planned" => \A e \in es : e.kind = "accept"
    /\ r.closed => /\ By(es, "initial") = r.spec.participants
                   /\ r.status \notin {"planned", "accepted", "collecting"}
    /\ ~r.closed => /\ \A e \in es : e.kind \in {"accept", "initial"}
                    /\ r.status \notin {"discussing", "completed"}

AllGood == \A v \in 1 .. latest : Good(row[v], entries[v])

\* No snapshot is ahead of the newest version, and one that is level is that version.
SeenLags ==
    /\ latest = 0 => \A c \in Callers : seen[c].row = NoRow
    /\ latest > 0 => \A c \in Callers :
          /\ seen[c].row.revision <= row[latest].revision
          /\ seen[c].row.revision = row[latest].revision => seen[c] = Snapshot(latest)

Inv == TypeOK /\ AllGood /\ SeenLags

\* What an operation may make of a row and its entries.
Continues(r, es, r2, es2) ==
    /\ es \subseteq es2
    /\ r2.spec = r.spec /\ r2.requester = r.requester
    /\ r.closed => r2.closed

\* A typed snapshot carries a revision that can be compared.
LEMMA SeenRevision ==
    ASSUME TypeOK, NEW c \in Callers
    PROVE  seen[c].row.revision \in Int
BY DEF TypeOK, SnapshotType, Row, NoRow

\* Cas keeps a row typed and moves the revision up, and touches nothing else.
LEMMA CasFacts ==
    ASSUME NEW r \in Row
    PROVE  /\ Cas(r) \in Row
           /\ Cas(r).revision = r.revision + 1
           /\ Cas(r).status = r.status /\ Cas(r).closed = r.closed /\ Cas(r).round = r.round
           /\ Cas(r).spec = r.spec /\ Cas(r).requester = r.requester
BY DEF Cas, Row

\* Goodness does not depend on the revision.
LEMMA CasGood ==
    ASSUME NEW r \in Row, NEW es, Good(r, es)
    PROVE  Good(Cas(r), es)
BY CasFacts DEF Good, MembersOf

\* A row is a row of the table, never the absent one.
LEMMA LatestRow ==
    ASSUME TypeOK, latest > 0
    PROVE  latest \in Versions /\ row[latest] \in Row /\ entries[latest] \in SUBSET Entry
BY ConstantsAssumption DEF TypeOK, Versions

\* A Write of a typed, good continuation of the newest row keeps the invariant.
LEMMA WriteKeeps ==
    ASSUME Inv, latest > 0, NEW c \in Callers, NEW r \in Row, NEW es \in SUBSET Entry,
           r.revision = row[latest].revision, Good(r, es), Write(c, r, es)
    PROVE  Inv'
<1>1. latest \in Versions /\ row[latest] \in Row
  BY LatestRow DEF Inv
<1>2. Cas(r) \in Row /\ Cas(r).revision = row[latest].revision + 1
  BY CasFacts
<1>3. row' = [row EXCEPT ![latest] = Cas(r)] /\ entries' = [entries EXCEPT ![latest] = es]
      /\ latest' = latest /\ late' = late /\ live' = live
      /\ seen' = [seen EXCEPT ![c] = [version |-> latest, row |-> Cas(r), entries |-> es]]
  BY DEF Write
<1>4. TypeOK'
  <2>1. Cas(r) # NoRow
    BY <1>2 DEF Row, NoRow
  <2>2. row' \in [Versions -> Row \cup {NoRow}]
        /\ \A v \in Versions : row'[v] = NoRow <=> v > latest'
    BY <1>1, <1>2, <1>3, <2>1, ConstantsAssumption DEF Inv, TypeOK, Versions
  <2>3. entries' \in [Versions -> SUBSET Entry]
    BY <1>1, <1>3 DEF Inv, TypeOK
  <2>4. seen' \in [Callers -> SnapshotType]
    BY <1>1, <1>2, <1>3 DEF Inv, TypeOK, SnapshotType, Versions
  <2> QED
    BY <1>3, <2>2, <2>3, <2>4 DEF Inv, TypeOK
<1>5. AllGood'
  <2>1. Good(Cas(r), es)
    BY CasGood
  <2>2. \A v \in Versions : v # latest => row'[v] = row[v] /\ entries'[v] = entries[v]
    BY <1>3 DEF Inv, TypeOK
  <2>3. row'[latest] = Cas(r) /\ entries'[latest] = es
    BY <1>1, <1>3 DEF Inv, TypeOK
  <2>4. ASSUME NEW v \in 1 .. latest PROVE Good(row'[v], entries'[v])
    <3>1. v \in Versions
      BY <1>1, ConstantsAssumption DEF Versions
    <3> QED
      BY <2>1, <2>2, <2>3, <3>1 DEF Inv, AllGood
  <2> QED
    BY <1>3, <2>4 DEF AllGood
<1>6. SeenLags'
  <2>1. row'[latest] = Cas(r) /\ entries'[latest] = es
    BY <1>1, <1>3 DEF Inv, TypeOK
  <2>2. seen'[c] = Snapshot(latest)' /\ seen'[c].row.revision = row'[latest].revision
    BY <1>1, <1>3, <2>1 DEF Inv, TypeOK, Snapshot
  <2>3. ASSUME NEW d \in Callers, d # c
        PROVE  seen'[d].row.revision < row'[latest].revision
    <3>1. seen'[d] = seen[d]
      BY <1>3, <2>3 DEF Inv, TypeOK
    <3>2. seen[d].row.revision <= row[latest].revision /\ seen[d].row.revision \in Int
      BY SeenRevision DEF Inv, SeenLags
    <3>3. row[latest].revision \in Nat
      BY <1>1 DEF Row
    <3> QED
      BY <1>2, <2>1, <3>1, <3>2, <3>3
  <2>4. row'[latest].revision \in Nat
    BY <1>2, <2>1 DEF Row
  <2>5. \A d \in Callers : seen'[d].row.revision \in Int
    BY <1>4, SeenRevision, <2>2, <2>3, <2>4 DEF TypeOK, SnapshotType, Row, NoRow
  <2> QED
    BY <1>3, <2>2, <2>3, <2>4, <2>5 DEF SeenLags
<1> QED
  BY <1>4, <1>5, <1>6 DEF Inv

\* A Create above every known snapshot keeps the invariant, if the table it extends
\* keeps every existing version good.
LEMMA CreateKeeps ==
    ASSUME Inv, NEW c \in Callers, NEW sp \in Specs, NEW revision \in Nat, NEW old,
           latest + 1 \in Versions,
           old \in [Versions -> Row \cup {NoRow}],
           \A v \in Versions : old[v] = NoRow <=> v > latest,
           \A v \in 1 .. latest : Good(old[v], entries[v]),
           \A d \in Callers : seen[d].row.revision < revision,
           Create(c, sp, latest + 1, revision, old)
    PROVE  Inv'
<1> DEFINE es == {Accepted(s) : s \in {c} \ {Operator}}
           r == Planned(c, sp, revision)
           v2 == latest + 1
<1>1. /\ latest' = v2 /\ row' = [old EXCEPT ![v2] = r]
      /\ entries' = [entries EXCEPT ![v2] = es] /\ late' = FALSE /\ live' = live
      /\ seen' = [seen EXCEPT ![c] = [version |-> v2, row |-> r, entries |-> es]]
  BY DEF Create
<1>2. es \in SUBSET Entry
  BY DEF Accepted, Entry, Kinds, Callers
<1>3. r \in Row /\ r.revision = revision /\ r.status = "planned" /\ r.closed = FALSE
  BY DEF Planned, Row, OPEN, MaxRound
<1>4. Good(r, es)
  <2>1. \A e \in es : e.kind = "accept"
    BY DEF Accepted
  <2> QED
    BY <1>3, <2>1 DEF Good
<1>5. latest \in Nat /\ v2 \in Versions /\ v2 \in 1 .. MaxVersion /\ MaxVersion \in Nat
  BY ConstantsAssumption DEF Inv, TypeOK, Versions
<1> HIDE DEF es, r
<1>6. row'[v2] = r /\ entries'[v2] = es
  BY <1>1, <1>5 DEF Inv, TypeOK
<1>7. \A v \in Versions : v # v2 => row'[v] = old[v] /\ entries'[v] = entries[v]
  BY <1>1 DEF Inv, TypeOK
<1>8. TypeOK'
  <2>1. r # NoRow
    BY <1>3 DEF NoRow
  <2>2. row' \in [Versions -> Row \cup {NoRow}]
    BY <1>1, <1>3, <1>5
  <2>3. \A v \in Versions : row'[v] = NoRow <=> v > latest'
    BY <1>1, <1>5, <1>6, <1>7, <2>1 DEF Versions
  <2>4. entries' \in [Versions -> SUBSET Entry]
    BY <1>1, <1>2, <1>5 DEF Inv, TypeOK
  <2>5. seen' \in [Callers -> SnapshotType]
    BY <1>1, <1>2, <1>3, <1>5 DEF Inv, TypeOK, SnapshotType
  <2>6. latest' \in 0 .. MaxVersion
    BY <1>1, <1>5
  <2>7. late' \in BOOLEAN /\ live' \subseteq Sessions
    BY <1>1 DEF Inv, TypeOK
  <2> QED
    BY <2>2, <2>3, <2>4, <2>5, <2>6, <2>7 DEF TypeOK
<1>9. AllGood'
  <2>1. ASSUME NEW v \in 1 .. v2 PROVE Good(row'[v], entries'[v])
    <3>1. CASE v = v2
      BY <3>1, <1>4, <1>6
    <3>2. CASE v # v2
      <4>1. v \in 1 .. latest /\ v \in Versions
        BY <3>2, <1>5 DEF Versions
      <4> QED
        BY <3>2, <4>1, <1>7
    <3> QED
      BY <3>1, <3>2
  <2> QED
    BY <1>1, <2>1 DEF AllGood
<1>10. SeenLags'
  <2>1. seen'[c] = Snapshot(latest)'
    BY <1>1, <1>6 DEF Inv, TypeOK, Snapshot
  <2>2. \A d \in Callers : d # c => seen'[d] = seen[d]
    BY <1>1 DEF Inv, TypeOK
  <2>3. \A d \in Callers : seen[d].row.revision \in Int
    BY SeenRevision DEF Inv
  <2>4. seen'[c].row.revision = revision
    BY <1>1, <1>3 DEF Inv, TypeOK
  <2>5. latest' > 0
    BY <1>1, <1>5
  <2>6. row'[latest'].revision = revision
    BY <1>1, <1>3, <1>6
  <2> QED
    BY <2>1, <2>2, <2>3, <2>4, <2>5, <2>6 DEF SeenLags
<1> QED
  BY <1>8, <1>9, <1>10 DEF Inv

\* One more entry adds its author to the authors of its kind.
LEMMA ByAdd ==
    ASSUME NEW es, NEW e, NEW kind
    PROVE  By(es \cup {e}, kind) = By(es, kind) \cup (IF e.kind = kind THEN {e.author} ELSE {})
BY DEF By

\* The reports counted for a turn are finite.
LEMMA SpokenIsFinite ==
    ASSUME TypeOK, latest > 0, NEW s \in Sessions
    PROVE  IsFiniteSet(Spoken(latest, s)) /\ Cardinality(Spoken(latest, s)) \in Nat
<1> DEFINE F(r) == [kind |-> "discussion", author |-> s, round |-> r]
           A == {} \cup {F(0)}
           B == A \cup {F(1)}
           C == B \cup {F(2)}
           D == C \cup {F(3)}
<1> HIDE DEF F
<1>1. IsFiniteSet(A)
  BY FS_EmptySet, FS_AddElement, Zenon
<1>2. IsFiniteSet(D)
  <2> HIDE DEF A
  <2>1. IsFiniteSet(B)
    BY <1>1, FS_AddElement
  <2> HIDE DEF B
  <2>2. IsFiniteSet(C)
    BY <2>1, FS_AddElement
  <2> HIDE DEF C
  <2> QED
    BY <2>2, FS_AddElement
<1>3. entries[latest] \in SUBSET Entry
  BY LatestRow
<1>4. Spoken(latest, s) \subseteq D
  <2> SUFFICES ASSUME NEW e \in Spoken(latest, s) PROVE e \in D
    OBVIOUS
  <2>1. e \in Entry /\ e.kind = "discussion" /\ e.author = s
    BY <1>3 DEF Spoken, Entries
  <2>2. e.round \in 0 .. 3 /\ e = F(e.round)
    BY <2>1 DEF Entry, F
  <2>3. e.round \in {0, 1, 2, 3}
    BY <2>2
  <2> QED
    BY <2>2, <2>3
<1>5. IsFiniteSet(Spoken(latest, s))
  BY <1>2, <1>4, FS_Subset
<1> QED
  BY <1>5, FS_CardinalityType

\* The turn a discussion report fills is one the database accepts.
LEMMA TurnType ==
    ASSUME TypeOK, latest > 0, NEW s \in Sessions, MayDiscuss(latest, s)
    PROVE  Turn(latest, s) \in 0 .. 3
<1>1. row[latest].spec \in Specs /\ row[latest].round \in 0 .. MaxRound
  BY LatestRow DEF Row
<1>2. row[latest].spec.rounds \in 0 .. 3 /\ row[latest].spec.turns \in 1 .. 3
      /\ row[latest].spec.mode \in {"rounds", "threaded"}
  BY <1>1, ConstantsAssumption
<1>3. CASE row[latest].spec.mode = "threaded"
  <2>1. Turn(latest, s) = Cardinality(Spoken(latest, s)) + 1
    BY <1>3 DEF Turn
  <2>2. Turn(latest, s) <= row[latest].spec.turns
    BY <1>3 DEF MayDiscuss
  <2> QED
    BY <1>2, <2>1, <2>2, SpokenIsFinite
<1>4. CASE row[latest].spec.mode = "rounds"
  BY <1>2, <1>4 DEF Turn, MayDiscuss
<1> QED
  BY <1>2, <1>3, <1>4

\* The rows the operations write: each is typed, good and a continuation.
LEMMA AcceptKeeps ==
    ASSUME Inv, NEW s \in Sessions, accept_coordination(s)
    PROVE  Inv'
<1> DEFINE st == IF Authors(latest, "accept") \cup {s} = Members(latest) THEN "accepted" ELSE "planned"
           r == [row[latest] EXCEPT !.status = st]
           es == entries[latest] \cup {Accepted(s)}
<1>1. latest > 0 /\ row[latest].status = "planned" /\ Write(s, r, es)
  BY DEF accept_coordination, MayCall
<1>2. latest \in Versions /\ row[latest] \in Row /\ entries[latest] \in SUBSET Entry /\ latest \in 1 .. latest
  BY <1>1, LatestRow DEF Inv, Versions
<1>3. Accepted(s) \in Entry /\ Accepted(s).kind = "accept" /\ Accepted(s).author = s
  BY DEF Accepted, Entry, Kinds
<1>4. st \in {"accepted", "planned"}
  OBVIOUS
<1>5. /\ r \in Row /\ r.revision = row[latest].revision /\ r.status = st
      /\ r.closed = row[latest].closed /\ r.spec = row[latest].spec
      /\ r.requester = row[latest].requester
  BY <1>2, <1>4 DEF Row, OPEN
<1>6. es \in SUBSET Entry
  BY <1>2, <1>3
<1>7. Good(row[latest], entries[latest])
  BY <1>2 DEF Inv, AllGood
<1>8. \A e \in es : e.kind = "accept"
  BY <1>1, <1>3, <1>7 DEF Good
<1>9. st = "accepted" => By(es, "accept") = MembersOf(r)
  <2>1. By(es, "accept") = Authors(latest, "accept") \cup {s}
    BY <1>3, ByAdd DEF By, Authors, Entries
  <2>2. MembersOf(r) = Members(latest)
    BY <1>5 DEF MembersOf, Members, Participants
  <2> QED
    BY <2>1, <2>2
<1>10. Good(r, es)
  <2>1. ~r.closed
    BY <1>1, <1>5, <1>7 DEF Good
  <2> HIDE DEF r, es, st
  <2> QED
    BY <1>4, <1>5, <1>8, <1>9, <2>1 DEF Good
<1>11. s \in Callers
  BY DEF Callers
<1> HIDE DEF r, es
<1> QED
  BY <1>1, <1>5, <1>6, <1>10, <1>11, WriteKeeps

\* Opening collection, closing it and closing a discussion round.
LEMMA AdvanceKeeps ==
    ASSUME Inv, latest > 0, NEW c \in Callers, Advance(c)
    PROVE  Inv'
<1> DEFINE q == row[latest]
           es == entries[latest]
<1>1. latest \in Versions /\ q \in Row /\ es \in SUBSET Entry /\ latest \in 1 .. latest
  BY LatestRow DEF Inv, Versions
<1>2. Good(q, es)
  BY <1>1 DEF Inv, AllGood
<1>3. q.spec \in Specs /\ q.round \in 0 .. 4
  BY <1>1 DEF Row, MaxRound
<1>4. q.spec.rounds \in 0 .. 3
  BY <1>3, ConstantsAssumption
<1>5. By(es, "accept") = Authors(latest, "accept") /\ By(es, "initial") = Authors(latest, "initial")
      /\ MembersOf(q) = Members(latest)
  BY DEF By, Authors, Entries, MembersOf, Members, Participants
<1>6. ASSUME Agreed(latest), Write(c, [q EXCEPT !.status = "collecting"], es)
      PROVE  Inv'
  <2> DEFINE r == [q EXCEPT !.status = "collecting"]
  <2>1. r \in Row /\ r.revision = q.revision /\ r.status = "collecting"
        /\ r.closed = q.closed /\ r.spec = q.spec /\ r.requester = q.requester
    BY <1>1 DEF Row, OPEN
  <2>2. q.status = "accepted" /\ By(es, "accept") = MembersOf(q)
    BY <1>5, <1>6 DEF Agreed
  <2>3. Good(r, es)
    <3> HIDE DEF r
    <3> QED
      BY <1>2, <2>1, <2>2 DEF Good, MembersOf
  <2> QED
    BY <1>1, <1>6, <2>1, <2>3, WriteKeeps
<1>7. ASSUME InitialsIn(latest), NEW n \in {0, 1},
             Write(c, [q EXCEPT !.status = "discussing", !.closed = TRUE, !.round = n], es)
      PROVE  Inv'
  <2> DEFINE r == [q EXCEPT !.status = "discussing", !.closed = TRUE, !.round = n]
  <2>a. n \in 0 .. MaxRound
    BY DEF MaxRound
  <2>b. "discussing" \in OPEN \cup {"completed", "cancelled"}
    BY DEF OPEN
  <2>c. r \in Row
    BY <1>1, <2>a, <2>b DEF Row
  <2>1. r \in Row /\ r.revision = q.revision /\ r.status = "discussing"
        /\ r.closed = TRUE /\ r.spec = q.spec /\ r.requester = q.requester
    BY <1>1, <2>c DEF Row
  <2>2. q.status = "collecting" /\ By(es, "initial") = q.spec.participants
    BY <1>5, <1>7, Zenon DEF InitialsIn, Participants
  <2>3. Good(r, es)
    <3> HIDE DEF r
    <3> QED
      BY <1>2, <2>1, <2>2 DEF Good, MembersOf
  <2> QED
    BY <1>1, <1>7, <2>1, <2>3, WriteKeeps
<1>8. ASSUME RoundSpoken(latest), NextRound(q) <= MaxRound, Write(c, [q EXCEPT !.round = NextRound(q)], es)
      PROVE  Inv'
  <2> DEFINE r == [q EXCEPT !.round = NextRound(q)]
  <2>1. NextRound(q) \in 0 .. MaxRound
    BY <1>3, <1>4, <1>8 DEF NextRound, MaxRound
  <2>2. r \in Row /\ r.revision = q.revision /\ r.status = q.status
        /\ r.closed = q.closed /\ r.spec = q.spec /\ r.requester = q.requester
    BY <1>1, <2>1 DEF Row
  <2>3. Good(r, es)
    <3> HIDE DEF r
    <3> QED
      BY <1>2, <2>2 DEF Good, MembersOf
  <2> QED
    BY <1>1, <1>8, <2>2, <2>3, WriteKeeps
<1> QED
  BY <1>6, <1>7, <1>8 DEF Advance

\* One more report, by a member, in a phase that takes it.
LEMMA SubmitKeeps ==
    ASSUME Inv, latest > 0, NEW s \in Sessions, NEW e \in Entry, NEW r \in Row,
           r.revision = row[latest].revision, r.closed = row[latest].closed,
           r.spec = row[latest].spec, r.requester = row[latest].requester,
           \/ e.kind = "initial" /\ r.status = "collecting" /\ row[latest].status = "collecting"
              /\ e.author \in r.spec.participants
           \/ e.kind \in {"discussion", "final"} /\ row[latest].status = "discussing"
              /\ r.status \in {"discussing", "completed"},
           Submit(s, r, e)
    PROVE  Inv'
<1> DEFINE q == row[latest]
           es == entries[latest]
           es2 == es \cup {e}
<1>1. latest \in Versions /\ q \in Row /\ es \in SUBSET Entry /\ latest \in 1 .. latest
  BY LatestRow DEF Inv, Versions
<1>2. Good(q, es)
  BY <1>1 DEF Inv, AllGood
<1>3. By(es2, "accept") = By(es, "accept")
  <2>1. e.kind # "accept"
    OBVIOUS
  <2>2. {x \in es2 : x.kind = "accept"} = {x \in es : x.kind = "accept"}
    BY <2>1
  <2> QED
    BY <2>2 DEF By
<1>4. e.kind # "initial" => By(es2, "initial") = By(es, "initial")
  <2> SUFFICES ASSUME e.kind # "initial" PROVE By(es2, "initial") = By(es, "initial")
    OBVIOUS
  <2>2. {x \in es2 : x.kind = "initial"} = {x \in es : x.kind = "initial"}
    OBVIOUS
  <2> QED
    BY <2>2 DEF By
<1>5. es2 \in SUBSET Entry
  BY <1>1
<1>6. Good(r, es2)
  BY <1>2, <1>3, <1>4 DEF Good, MembersOf
<1>7. s \in Callers /\ Write(s, r, es2)
  BY DEF Submit, Callers
<1> HIDE DEF es2
<1> QED
  BY <1>5, <1>6, <1>7, WriteKeeps

\* Before a proposal exists, its first version may be created by anyone.
LEMMA FirstKeeps ==
    ASSUME Inv, NEW c \in Callers, NEW sp \in Specs, latest = 0, Create(c, sp, 1, 0, row)
    PROVE  Inv'
<1>1. latest + 1 \in Versions /\ latest + 1 = 1 /\ 0 \in Nat
  BY ConstantsAssumption DEF Versions
<1>2. \A d \in Callers : seen[d].row.revision < 0
  BY DEF Inv, SeenLags, NoRow
<1>3. \A v \in 1 .. latest : Good(row[v], entries[v])
  BY DEF Inv, AllGood
<1>4. row \in [Versions -> Row \cup {NoRow}] /\ \A v \in Versions : row[v] = NoRow <=> v > latest
  BY DEF Inv, TypeOK
<1>5. Create(c, sp, latest + 1, 0, row)
  BY <1>1
<1> QED
  BY <1>1, <1>2, <1>3, <1>4, <1>5, CreateKeeps

\* A replacement: the old version is cancelled one revision up, the new one starts
\* another up, above every snapshot.
LEMMA ReplaceKeeps ==
    ASSUME Inv, NEW s \in Sessions, NEW sp \in Specs, replace_coordination(s, sp)
    PROVE  Inv'
<1> DEFINE q == row[latest]
           q2 == [q EXCEPT !.status = "cancelled"]
           cut == [row EXCEPT ![latest] = Cas(q2)]
           rev == Cas(q2).revision + 1
<1>1. latest > 0 /\ latest \in 1 .. MaxVersion - 1 /\ Create(s, sp, latest + 1, rev, cut)
  BY DEF replace_coordination, MayCall
<1>2. latest \in Versions /\ q \in Row /\ latest + 1 \in Versions /\ latest \in Nat
  BY <1>1, LatestRow, ConstantsAssumption DEF Inv, Versions
<1>3. q2 \in Row /\ q2.revision = q.revision /\ q2.status = "cancelled" /\ q2.closed = q.closed
      /\ q2.spec = q.spec /\ q2.requester = q.requester
  BY <1>2 DEF Row
<1>4. Cas(q2) \in Row /\ Cas(q2).revision = q.revision + 1 /\ Cas(q2) # NoRow /\ q.revision \in Nat
  BY <1>2, <1>3, CasFacts DEF Row, NoRow
<1>5. rev \in Nat /\ \A d \in Callers : seen[d].row.revision < rev
  <2>1. \A d \in Callers : seen[d].row.revision \in Int /\ seen[d].row.revision <= q.revision
    BY <1>1, SeenRevision DEF Inv, SeenLags
  <2> QED
    BY <1>4, <2>1
<1>6. Good(Cas(q2), entries[latest])
  <2>0. latest \in 1 .. latest
    BY <1>1, <1>2
  <2>1. Good(q, entries[latest])
    BY <2>0 DEF Inv, AllGood
  <2>2. Good(q2, entries[latest])
    <3> HIDE DEF q2
    <3> QED
      BY <1>3, <2>1 DEF Good, MembersOf
  <2> QED
    BY <1>3, <2>2, CasGood
<1> HIDE DEF q2, rev
<1>7. cut \in [Versions -> Row \cup {NoRow}] /\ \A v \in Versions : cut[v] = NoRow <=> v > latest
  BY <1>2, <1>4 DEF Inv, TypeOK, Versions
<1>8. ASSUME NEW v \in 1 .. latest PROVE Good(cut[v], entries[v])
  <2>1. v \in Versions
    BY <1>2, ConstantsAssumption DEF Versions
  <2>2. CASE v = latest
    BY <1>2, <1>6, <2>2 DEF Inv, TypeOK
  <2>3. CASE v # latest
    <3>1. cut[v] = row[v]
      BY <2>1, <2>3 DEF Inv, TypeOK
    <3> QED
      BY <3>1 DEF Inv, AllGood
  <2> QED
    BY <2>2, <2>3
<1>9. s \in Callers
  BY DEF Callers
<1> HIDE DEF cut
<1> QED
  BY <1>1, <1>2, <1>5, <1>7, <1>8, <1>9, CreateKeeps

\* A cancellation keeps entries, closure and scope.
LEMMA CancelKeeps ==
    ASSUME Inv, NEW c \in Callers, Cancel(c)
    PROVE  Inv'
<1> DEFINE r == [row[latest] EXCEPT !.status = "cancelled"]
           es == entries[latest]
<1>1. latest > 0 /\ Write(c, r, es)
  BY DEF Cancel, MayCall
<1>2. row[latest] \in Row /\ es \in SUBSET Entry /\ latest \in 1 .. latest
  BY <1>1, LatestRow DEF Inv, Versions
<1>3. r \in Row /\ r.revision = row[latest].revision /\ r.status = "cancelled"
      /\ r.closed = row[latest].closed /\ r.spec = row[latest].spec
      /\ r.requester = row[latest].requester
  BY <1>2 DEF Row
<1>4. Good(row[latest], es)
  BY <1>2 DEF Inv, AllGood
<1> HIDE DEF r
<1>5. Good(r, es)
  BY <1>3, <1>4 DEF Good, MembersOf
<1> QED
  BY <1>1, <1>2, <1>3, <1>5, WriteKeeps

\* A read only brings the reader level with the newest version.
LEMMA ReadKeeps ==
    ASSUME Inv, NEW c \in Callers, Read(c)
    PROVE  Inv'
<1>1. latest > 0 /\ seen' = [seen EXCEPT ![c] = Snapshot(latest)]
      /\ UNCHANGED <<latest, row, entries, late, live>>
  BY DEF Read, MayCall
<1>2. latest \in Versions /\ row[latest] \in Row /\ entries[latest] \in SUBSET Entry
  BY <1>1, LatestRow DEF Inv
<1>3. Snapshot(latest) \in SnapshotType
  BY <1>2 DEF Snapshot, SnapshotType, Versions
<1>4. TypeOK'
  <2>1. seen' \in [Callers -> SnapshotType]
    BY <1>1, <1>3 DEF Inv, TypeOK
  <2> QED
    BY <1>1, <2>1 DEF Inv, TypeOK
<1>5. AllGood'
  BY <1>1 DEF Inv, AllGood
<1>6. SeenLags'
  <2>1. Snapshot(latest)' = Snapshot(latest) /\ Snapshot(latest).row.revision = row[latest].revision
    BY <1>1 DEF Snapshot
  <2>2. row[latest].revision \in Nat
    BY <1>2 DEF Row
  <2>3. \A d \in Callers : seen'[d] = IF d = c THEN Snapshot(latest) ELSE seen[d]
    BY <1>1 DEF Inv, TypeOK
  <2> QED
    BY <1>1, <2>1, <2>2, <2>3 DEF Inv, SeenLags
<1> QED
  BY <1>4, <1>5, <1>6 DEF Inv

\* The deadline and the Sessions' liveness move on their own.
LEMMA SurroundingsKeep ==
    ASSUME Inv, UNCHANGED <<latest, row, entries, seen>>, late' \in BOOLEAN, live' \subseteq Sessions
    PROVE  Inv'
<1>1. TypeOK'
  BY DEF Inv, TypeOK
<1>2. AllGood'
  BY DEF Inv, AllGood
<1>3. SeenLags'
  BY DEF Inv, SeenLags, Snapshot
<1> QED
  BY <1>1, <1>2, <1>3 DEF Inv

\* The empty tables satisfy the invariant.
LEMMA InitInv == Init => Inv
<1> SUFFICES ASSUME Init PROVE Inv
  OBVIOUS
<1>2. TypeOK
  <2>1. row \in [Versions -> Row \cup {NoRow}] /\ entries \in [Versions -> SUBSET Entry]
    BY DEF Init
  <2>2. latest \in 0 .. MaxVersion /\ \A v \in Versions : row[v] = NoRow <=> v > latest
    BY ConstantsAssumption DEF Init, Versions
  <2>3. 0 \in 0 .. MaxVersion
    BY ConstantsAssumption
  <2>4. seen \in [Callers -> SnapshotType]
    BY <2>3 DEF Init, SnapshotType
  <2> QED
    BY <2>1, <2>2, <2>4 DEF Init, TypeOK
<1>3. AllGood
  BY DEF Init, AllGood
<1>4. SeenLags
  BY DEF Init, SeenLags
<1> QED
  BY <1>2, <1>3, <1>4 DEF Inv

\* Every operation preserves the invariant.
LEMMA NextInv == Inv /\ [Next]_vars => Inv'
<1> SUFFICES ASSUME Inv, [Next]_vars PROVE Inv'
  OBVIOUS
<1> USE DEF Callers
<1>1. ASSUME NEW s \in Sessions, NEW sp \in Specs, propose_coordination(s, sp) PROVE Inv'
  BY <1>1, FirstKeeps DEF propose_coordination
<1>2. ASSUME NEW s \in Sessions, NEW sp \in Specs, replace_coordination(s, sp) PROVE Inv'
  BY <1>2, ReplaceKeeps
<1>3. ASSUME NEW sp \in Specs, propose_operator_coordination(sp) PROVE Inv'
  BY <1>3, FirstKeeps DEF propose_operator_coordination
<1>4. ASSUME NEW s \in Sessions, accept_coordination(s) PROVE Inv'
  BY <1>4, AcceptKeeps
<1>5. ASSUME NEW s \in Sessions, advance_coordination(s) PROVE Inv'
  BY <1>5, AdvanceKeeps DEF advance_coordination, MayCall
<1>6. CASE advance_operator_coordination
  BY <1>6, AdvanceKeeps DEF advance_operator_coordination, MayCall
<1>7. ASSUME NEW s \in Sessions, submit_initial(s) PROVE Inv'
  <2> DEFINE e == [kind |-> "initial", author |-> s, round |-> 0]
  <2>1. latest > 0 /\ row[latest].status = "collecting" /\ s \in row[latest].spec.participants
        /\ Submit(s, row[latest], e)
    BY <1>7 DEF submit_initial, MayReport, Participants
  <2>2. row[latest] \in Row /\ e \in Entry /\ e.kind = "initial" /\ e.author = s
    BY <2>1, LatestRow DEF Inv, Entry, Kinds
  <2> HIDE DEF e
  <2> QED
    BY <2>1, <2>2, SubmitKeeps
<1>8. ASSUME NEW s \in Sessions, submit_discussion(s) PROVE Inv'
  <2> DEFINE e == [kind |-> "discussion", author |-> s, round |-> Turn(latest, s)]
  <2>1. latest > 0 /\ row[latest].status = "discussing" /\ Submit(s, row[latest], e)
        /\ MayDiscuss(latest, s)
    BY <1>8 DEF submit_discussion, MayDiscuss
  <2>2. Turn(latest, s) \in 0 .. 3
    BY <2>1, TurnType DEF Inv
  <2>3. row[latest] \in Row /\ e \in Entry /\ e.kind = "discussion"
    BY <2>1, <2>2, LatestRow DEF Inv, Entry, Kinds
  <2> HIDE DEF e
  <2> QED
    BY <2>1, <2>3, SubmitKeeps
<1>9. ASSUME NEW s \in Sessions, submit_final(s) PROVE Inv'
  <2> DEFINE e == [kind |-> "final", author |-> s, round |-> 0]
             r == [row[latest] EXCEPT !.status = "completed"]
  <2>1. latest > 0 /\ row[latest].status = "discussing" /\ Submit(s, r, e)
    BY <1>9 DEF submit_final, FinalReady
  <2>2. row[latest] \in Row /\ e \in Entry /\ e.kind = "final"
    BY <2>1, LatestRow DEF Inv, Entry, Kinds
  <2>3. r \in Row /\ r.status = "completed" /\ r.revision = row[latest].revision
        /\ r.closed = row[latest].closed /\ r.spec = row[latest].spec
        /\ r.requester = row[latest].requester
    BY <2>2 DEF Row
  <2> HIDE DEF e, r
  <2> QED
    BY <2>1, <2>2, <2>3, SubmitKeeps
<1>10. ASSUME NEW s \in Sessions, cancel_coordination(s) PROVE Inv'
  BY <1>10, CancelKeeps DEF cancel_coordination
<1>11. CASE cancel_operator_coordination
  BY <1>11, CancelKeeps DEF cancel_operator_coordination
<1>12. ASSUME NEW s \in Sessions, get_coordination(s) PROVE Inv'
  BY <1>12, ReadKeeps DEF get_coordination
<1>13. CASE get_operator_coordination
  BY <1>13, ReadKeeps DEF get_operator_coordination
<1>14. ASSUME NEW s \in Sessions, LivenessChanges(s) PROVE Inv'
  BY <1>14, SurroundingsKeep DEF LivenessChanges, Inv, TypeOK
<1>15. CASE DeadlinePasses
  BY <1>15, SurroundingsKeep DEF DeadlinePasses, Inv, TypeOK
<1>16. CASE UNCHANGED vars
  BY <1>16, SurroundingsKeep DEF vars, Inv, TypeOK
<1> QED
  BY <1>1, <1>2, <1>3, <1>4, <1>5, <1>6, <1>7, <1>8, <1>9, <1>10, <1>11, <1>12, <1>13, <1>14,
     <1>15, <1>16 DEF Next

\* Inv holds throughout, from which the properties below are read off.
THEOREM Invariance == Spec => []Inv
BY InitInv, NextInv, PTL DEF Spec

\* Every table of coordination.py keeps its types, for any panel and any number of
\* versions; a threaded turn never exceeds the round the database accepts.
THEOREM TypeCorrect == Spec => []TypeOK
<1>1. Inv => TypeOK
  BY DEF Inv
<1> QED
  BY <1>1, Invariance, PTL

\* The revision fence of _revision, for any number of callers, versions and reports:
\* a snapshot that carries the newest revision is the newest state.
THEOREM FenceExact == Spec => []FenceIsExact
<1>1. Inv => FenceIsExact
  BY DEF Inv, SeenLags, FenceIsExact
<1> QED
  BY <1>1, Invariance, PTL

\* accept_coordination and _advance: no phase and no report before every member agreed.
THEOREM AgreementFirst == Spec => []NothingBeforeAgreement
<1>1. Inv => NothingBeforeAgreement
  <2> SUFFICES ASSUME Inv, NEW v \in 1 .. latest
               PROVE  (row[v].status \notin {"planned", "cancelled"}
                         \/ \E e \in entries[v] : e.kind # "accept")
                        => Authors(v, "accept") = Members(v)
    BY DEF NothingBeforeAgreement
  <2>1. Good(row[v], entries[v])
    BY DEF Inv, AllGood
  <2>2. By(entries[v], "accept") = Authors(v, "accept") /\ MembersOf(row[v]) = Members(v)
    BY DEF By, Authors, Entries, MembersOf, Members, Participants
  <2> QED
    BY <2>1, <2>2 DEF Good
<1> QED
  BY <1>1, Invariance, PTL

\* The blinding of _snapshot: in every version, whatever became of it, another author's
\* report is visible only once all initial reports are in.
THEOREM Independence == Spec => []InitialsAreIndependent
<1>1. Inv => InitialsAreIndependent
  <2> SUFFICES ASSUME Inv, NEW v \in 1 .. latest, NEW c \in Callers,
                      NEW e \in Visible(v, c), e.author # c
               PROVE  Authors(v, "initial") = Participants(v)
    BY DEF InitialsAreIndependent
  <2>1. Good(row[v], entries[v])
    BY DEF Inv, AllGood
  <2>2. row[v].closed
    BY DEF Visible
  <2>3. By(entries[v], "initial") = row[v].spec.participants
    BY <2>1, <2>2 DEF Good
  <2> QED
    BY <2>3 DEF By, Authors, Entries, Participants
<1> QED
  BY <1>1, Invariance, PTL

\* The step that HistoryIsKept allows.
HistoryStep ==
    \A v \in 1 .. latest :
        /\ \A c \in Callers : Visible(v, c) \subseteq Visible(v, c)'
        /\ row[v].status \notin OPEN => row'[v] = row[v] /\ entries'[v] = entries[v]
        /\ row'[v].spec = row[v].spec /\ row'[v].requester = row[v].requester

\* A version whose row continues and whose entries grow keeps its history.
LEMMA KeptVersions ==
    ASSUME \A v \in 1 .. latest :
               \/ row'[v] = row[v] /\ entries'[v] = entries[v]
               \/ row[v].status \in OPEN /\ Continues(row[v], entries[v], row'[v], entries'[v])
    PROVE  HistoryStep
<1> SUFFICES ASSUME NEW v \in 1 .. latest
             PROVE  /\ \A c \in Callers : Visible(v, c) \subseteq Visible(v, c)'
                    /\ row[v].status \notin OPEN => row'[v] = row[v] /\ entries'[v] = entries[v]
                    /\ row'[v].spec = row[v].spec /\ row'[v].requester = row[v].requester
  BY DEF HistoryStep
<1>1. CASE row'[v] = row[v] /\ entries'[v] = entries[v]
  BY <1>1 DEF Visible
<1>2. CASE row[v].status \in OPEN /\ Continues(row[v], entries[v], row'[v], entries'[v])
  BY <1>2 DEF Visible, Continues
<1> QED
  BY <1>1, <1>2

\* A Write of a continuation keeps every version's history.
LEMMA WriteHistory ==
    ASSUME Inv, latest > 0, NEW c, NEW r \in Row, NEW es, Write(c, r, es),
           row[latest].status \in OPEN, Continues(row[latest], entries[latest], r, es)
    PROVE  HistoryStep
<1>1. latest \in Versions
  BY LatestRow DEF Inv
<1>2. \A v \in Versions : v # latest => row'[v] = row[v] /\ entries'[v] = entries[v]
  BY DEF Write, Inv, TypeOK
<1>3. row'[latest] = Cas(r) /\ entries'[latest] = es
  BY <1>1 DEF Write, Inv, TypeOK
<1>4. Continues(row[latest], entries[latest], row'[latest], entries'[latest])
  BY <1>3, CasFacts DEF Continues
<1>5. \A v \in 1 .. latest : v \in Versions
  BY <1>1, ConstantsAssumption DEF Versions
<1> QED
  BY <1>2, <1>4, <1>5, KeptVersions

\* Every operation keeps every version's history.
LEMMA NextHistory == Inv /\ [Next]_vars => HistoryStep
<1> SUFFICES ASSUME Inv, [Next]_vars PROVE HistoryStep
  OBVIOUS
<1>0. ASSUME UNCHANGED <<row, entries>> PROVE HistoryStep
  BY <1>0, KeptVersions
<1>1. ASSUME NEW c, NEW sp, latest = 0, Create(c, sp, 1, 0, row) PROVE HistoryStep
  BY <1>1 DEF HistoryStep
<1>2. ASSUME NEW s \in Sessions, NEW sp \in Specs, replace_coordination(s, sp) PROVE HistoryStep
  <2> DEFINE q == row[latest]
             q2 == [q EXCEPT !.status = "cancelled"]
             cut == [row EXCEPT ![latest] = Cas(q2)]
  <2>1. latest > 0 /\ q.status \in OPEN /\ Create(s, sp, latest + 1, Cas(q2).revision + 1, cut)
    BY <1>2 DEF replace_coordination, MayCall, IsOpen
  <2>2. latest \in Versions /\ q \in Row /\ latest \in Nat
    BY <2>1, LatestRow DEF Inv, Versions
  <2>3. q2 \in Row /\ q2.spec = q.spec /\ q2.requester = q.requester /\ q2.closed = q.closed
    BY <2>2 DEF Row
  <2>4. Cas(q2).spec = q.spec /\ Cas(q2).requester = q.requester /\ Cas(q2).closed = q.closed
    BY <2>3, CasFacts
  <2> HIDE DEF q2
  <2>5. \A v \in Versions : v # latest + 1 => row'[v] = cut[v] /\ entries'[v] = entries[v]
    BY <2>1, <2>2 DEF Create, Inv, TypeOK
  <2>6. cut[latest] = Cas(q2) /\ \A v \in Versions : v # latest => cut[v] = row[v]
    BY <2>2 DEF Inv, TypeOK
  <2>7. \A v \in 1 .. latest : v \in Versions /\ v # latest + 1
    BY <2>2, ConstantsAssumption DEF Versions
  <2>8. Continues(q, entries[latest], Cas(q2), entries[latest])
    BY <2>4 DEF Continues
  <2> HIDE DEF cut
  <2> QED
    BY <2>1, <2>5, <2>6, <2>7, <2>8, KeptVersions
<1>3. ASSUME NEW s \in Sessions, accept_coordination(s) PROVE HistoryStep
  <2> DEFINE st == IF Authors(latest, "accept") \cup {s} = Members(latest) THEN "accepted" ELSE "planned"
             r == [row[latest] EXCEPT !.status = st]
             es == entries[latest] \cup {Accepted(s)}
  <2>1. latest > 0 /\ row[latest].status \in OPEN /\ Write(s, r, es)
    BY <1>3 DEF accept_coordination, MayCall, IsOpen
  <2>2. r \in Row /\ Continues(row[latest], entries[latest], r, es)
    BY <2>1, LatestRow DEF Inv, Row, OPEN, Continues
  <2> HIDE DEF r, es
  <2> QED
    BY <2>1, <2>2, WriteHistory
<1>4. ASSUME NEW c \in Callers, latest > 0, Advance(c) PROVE HistoryStep
  <2> DEFINE q == row[latest]
             es == entries[latest]
  <2>1. q.status \in OPEN /\ q \in Row
    BY <1>4, LatestRow DEF Advance, IsOpen, Inv
  <2>2. ASSUME NEW r \in Row, Write(c, r, es), Continues(q, es, r, es) PROVE HistoryStep
    BY <1>4, <2>1, <2>2, WriteHistory
  <2>3. ASSUME Write(c, [q EXCEPT !.status = "collecting"], es) PROVE HistoryStep
    <3>1. [q EXCEPT !.status = "collecting"] \in Row
          /\ Continues(q, es, [q EXCEPT !.status = "collecting"], es)
      BY <2>1 DEF Row, OPEN, Continues
    <3> QED
      BY <2>2, <2>3, <3>1
  <2>4. ASSUME NEW n \in {0, 1},
               Write(c, [q EXCEPT !.status = "discussing", !.closed = TRUE, !.round = n], es)
        PROVE  HistoryStep
    <3> DEFINE r == [q EXCEPT !.status = "discussing", !.closed = TRUE, !.round = n]
    <3>1. n \in 0 .. MaxRound /\ "discussing" \in OPEN \cup {"completed", "cancelled"}
      BY DEF MaxRound, OPEN
    <3>2. r \in Row
      BY <2>1, <3>1 DEF Row
    <3>3. Continues(q, es, r, es)
      BY <2>1 DEF Row, Continues
    <3> QED
      BY <2>2, <2>4, <3>2, <3>3
  <2>5. ASSUME NextRound(q) <= MaxRound, Write(c, [q EXCEPT !.round = NextRound(q)], es)
        PROVE  HistoryStep
    <3>1. q.spec \in Specs /\ q.round \in 0 .. 4
      BY <2>1 DEF Row, MaxRound
    <3>2. q.spec.rounds \in 0 .. 3
      BY <3>1, ConstantsAssumption
    <3>3. NextRound(q) \in 0 .. MaxRound
      BY <2>5, <3>1, <3>2 DEF NextRound, MaxRound
    <3>4. [q EXCEPT !.round = NextRound(q)] \in Row
          /\ Continues(q, es, [q EXCEPT !.round = NextRound(q)], es)
      BY <2>1, <3>3 DEF Row, Continues
    <3> QED
      BY <2>2, <2>5, <3>4
  <2> QED
    BY <1>4, <2>3, <2>4, <2>5 DEF Advance
<1>5. ASSUME NEW s \in Sessions, NEW r \in Row, NEW e, latest > 0, Submit(s, r, e),
             r.spec = row[latest].spec, r.requester = row[latest].requester, r.closed = row[latest].closed
      PROVE  HistoryStep
  <2>1. row[latest].status \in OPEN /\ Write(s, r, entries[latest] \cup {e})
    BY <1>5 DEF Submit, IsOpen
  <2>2. Continues(row[latest], entries[latest], r, entries[latest] \cup {e})
    BY <1>5 DEF Continues
  <2> QED
    BY <1>5, <2>1, <2>2, WriteHistory
<1>6. ASSUME NEW s \in Sessions, submit_initial(s) \/ submit_discussion(s) PROVE HistoryStep
  BY <1>5, <1>6, LatestRow DEF submit_initial, submit_discussion, Inv
<1>7. ASSUME NEW s \in Sessions, submit_final(s) PROVE HistoryStep
  <2> DEFINE r == [row[latest] EXCEPT !.status = "completed"]
  <2>1. latest > 0 /\ Submit(s, r, [kind |-> "final", author |-> s, round |-> 0])
    BY <1>7 DEF submit_final
  <2>2. r \in Row /\ r.spec = row[latest].spec /\ r.requester = row[latest].requester
        /\ r.closed = row[latest].closed
    BY <2>1, LatestRow DEF Inv, Row
  <2> HIDE DEF r
  <2> QED
    BY <1>5, <2>1, <2>2
<1>8. ASSUME NEW c \in Callers, Cancel(c) PROVE HistoryStep
  <2> DEFINE r == [row[latest] EXCEPT !.status = "cancelled"]
  <2>1. latest > 0 /\ row[latest].status \in OPEN /\ Write(c, r, entries[latest])
    BY <1>8 DEF Cancel, MayCall
  <2>2. r \in Row /\ Continues(row[latest], entries[latest], r, entries[latest])
    BY <2>1, LatestRow DEF Inv, Row, Continues
  <2> HIDE DEF r
  <2> QED
    BY <2>1, <2>2, WriteHistory
<1>9. ASSUME NEW c \in Callers, Read(c) PROVE HistoryStep
  BY <1>0, <1>9 DEF Read
<1>10. ASSUME NEW s \in Sessions, LivenessChanges(s) PROVE HistoryStep
  BY <1>0, <1>10 DEF LivenessChanges
<1>11. CASE DeadlinePasses
  BY <1>0, <1>11 DEF DeadlinePasses
<1>12. CASE UNCHANGED vars
  BY <1>0, <1>12 DEF vars
<1>13. ASSUME NEW s \in Sessions, advance_coordination(s) PROVE HistoryStep
  BY <1>4, <1>13 DEF advance_coordination, MayCall, Callers
<1>14. CASE advance_operator_coordination
  BY <1>4, <1>14 DEF advance_operator_coordination, MayCall, Callers
<1>15. ASSUME NEW s \in Sessions, cancel_coordination(s) \/ get_coordination(s) PROVE HistoryStep
  BY <1>8, <1>9, <1>15 DEF cancel_coordination, get_coordination, Callers
<1>16. CASE cancel_operator_coordination \/ get_operator_coordination
  BY <1>8, <1>9, <1>16 DEF cancel_operator_coordination, get_operator_coordination, Callers
<1>17. ASSUME NEW s \in Sessions, NEW sp \in Specs, propose_coordination(s, sp) PROVE HistoryStep
  BY <1>1, <1>17 DEF propose_coordination
<1>18. ASSUME NEW sp \in Specs, propose_operator_coordination(sp) PROVE HistoryStep
  BY <1>1, <1>18 DEF propose_operator_coordination
<1> QED
  BY <1>2, <1>3, <1>6, <1>7, <1>10, <1>11, <1>12, <1>13, <1>14, <1>15, <1>16, <1>17, <1>18 DEF Next

\* The append-only history of coordination_contributions: reports once visible stay
\* visible, settled versions never move, and a version's scope never changes.
THEOREM HistoryKept == Spec => HistoryIsKept
<1>1. Inv /\ [Next]_vars => [HistoryStep]_vars
  BY NextHistory
<1> QED
  BY <1>1, Invariance, PTL DEF Spec, HistoryIsKept, HistoryStep

\* Agreement first, independent initial reports and the exact fence, together.
THEOREM ProtocolFenced == Spec => []ProtocolIsFenced
BY TypeCorrect, AgreementFirst, Independence, FenceExact, PTL DEF ProtocolIsFenced

-----------------------------------------------------------------------------
(* The turns of a discussion, and that it is never stuck.                  *)

Report(kind, s, k) == [kind |-> kind, author |-> s, round |-> k]
Said(es, s) == {e \in es : e.kind = "discussion" /\ e.author = s}
SaidIn(es, k) == {e.author : e \in {x \in es : x.kind = "discussion" /\ x.round = k}}

\* Reports come from participants, one initial each, and the final one from the result owner.
ReportsInOrder(r, es) ==
    /\ \A e \in es : e.kind \in {"initial", "discussion"} => e.author \in r.spec.participants
    /\ \A e \in es : e.kind = "initial" => e.round = 0
    /\ \A e \in es : e.kind = "final" => r.status = "completed" /\ e = Report("final", r.spec.owner, 0)
    /\ r.status = "completed" => /\ Report("final", r.spec.owner, 0) \in es
                                 /\ r.round = 0 \/ r.round > r.spec.rounds

\* Shared rounds are spoken in one after the other, and everybody spoke in those that passed.
SharedInOrder(r, es) ==
    r.spec.mode = "rounds" =>
        /\ r.round <= r.spec.rounds + 1 /\ (r.closed => (r.round = 0 <=> r.spec.rounds = 0))
        /\ \A e \in es : e.kind = "discussion" => e.round \in 1 .. r.spec.rounds
        /\ \A k \in 1 .. r.spec.rounds : k < r.round => SaidIn(es, k) = r.spec.participants

\* In a thread everybody takes its turns 1, 2, ... up to its budget, and rounds are over when
\* everybody spoke.
ThreadInOrder(r, es) ==
    r.spec.mode = "threaded" =>
        /\ r.closed => r.round >= 1
        /\ r.spec.rounds > 0 => r.round \in {0, 1, r.spec.rounds + 1}
        /\ r.spec.rounds > 0 /\ r.round > r.spec.rounds => By(es, "discussion") = r.spec.participants
        /\ \A s \in Sessions : \E n \in 0 .. r.spec.turns : Said(es, s) = {Report("discussion", s, k) : k \in 1 .. n}

\* What a version's phase says of the turns taken in it.
Earned(r, es) ==
    /\ r.status = "planned" => By(es, "accept") # MembersOf(r)
    /\ ~r.closed => r.round = 0
    /\ ReportsInOrder(r, es) /\ SharedInOrder(r, es) /\ ThreadInOrder(r, es)

AllEarned == \A v \in 1 .. latest : Earned(row[v], entries[v])


\* A row's specification is within the limits of _specification, and its round is a number.
LEMMA Limits ==
    ASSUME NEW r \in Row
    PROVE  /\ r.spec \in Specs /\ r.spec.participants \subseteq Sessions /\ r.spec.owner \in Sessions
           /\ r.spec.rounds \in 0 .. 3 /\ r.spec.turns \in 1 .. 3 /\ r.spec.mode \in {"rounds", "threaded"}
           /\ r.round \in 0 .. 4 /\ r.closed \in BOOLEAN
<1>1. r.spec \in Specs /\ r.round \in 0 .. 4 /\ r.closed \in BOOLEAN
  BY DEF Row, MaxRound
<1> QED BY <1>1, ConstantsAssumption

\* The order of turns does not depend on the revision or, while the round stands, on
\* anything but the discussion.
LEMMA TurnsStay ==
    ASSUME NEW r, NEW r2, NEW es, NEW es2, SharedInOrder(r, es), ThreadInOrder(r, es),
           r2.spec = r.spec, r2.round = r.round, r2.closed = r.closed,
           {e \in es2 : e.kind = "discussion"} = {e \in es : e.kind = "discussion"}
    PROVE  SharedInOrder(r2, es2) /\ ThreadInOrder(r2, es2)
<1>1. By(es2, "discussion") = By(es, "discussion")
  BY DEF By
<1>2. \A k : SaidIn(es2, k) = SaidIn(es, k)
  BY DEF SaidIn
<1>3. \A s : Said(es2, s) = Said(es, s)
  BY DEF Said
<1>4. SharedInOrder(r2, es2)
  BY <1>2 DEF SharedInOrder
<1>5. ThreadInOrder(r2, es2)
  BY <1>1, <1>3 DEF ThreadInOrder
<1> QED BY <1>4, <1>5

\* A Write of a row and entries with their turns in order keeps every version's.
LEMMA WriteEarns ==
    ASSUME Inv, AllEarned, latest > 0, NEW c, NEW r \in Row, NEW es, Earned(r, es), Write(c, r, es)
    PROVE  AllEarned'
<1>1. latest \in Versions
  BY LatestRow DEF Inv
<1>2. \A v \in Versions : v # latest => row'[v] = row[v] /\ entries'[v] = entries[v]
  BY DEF Write, Inv, TypeOK
<1>3. row'[latest] = Cas(r) /\ entries'[latest] = es /\ latest' = latest
  BY <1>1 DEF Write, Inv, TypeOK
<1>4. Earned(Cas(r), es)
  <2>1. /\ Cas(r).status = r.status /\ Cas(r).closed = r.closed /\ Cas(r).round = r.round
        /\ Cas(r).spec = r.spec /\ Cas(r).requester = r.requester
    BY CasFacts
  <2>2. SharedInOrder(Cas(r), es) /\ ThreadInOrder(Cas(r), es)
    BY <2>1, TurnsStay DEF Earned
  <2> QED BY <2>1, <2>2 DEF Earned, ReportsInOrder, MembersOf
<1>5. \A v \in 1 .. latest : v \in Versions
  BY <1>1, ConstantsAssumption DEF Versions
<1> QED BY <1>2, <1>3, <1>4, <1>5 DEF AllEarned

\* A new version has no reports and waits for at least one acceptance.
LEMMA CreateEarns ==
    ASSUME Inv, NEW c \in Callers, NEW sp \in Specs, NEW revision, NEW old,
           latest + 1 \in Versions, old \in [Versions -> Row \cup {NoRow}],
           \A v \in 1 .. latest : Earned(old[v], entries[v]),
           Create(c, sp, latest + 1, revision, old)
    PROVE  AllEarned'
<1> DEFINE es == {Accepted(s) : s \in {c} \ {Operator}}
           r == Planned(c, sp, revision)
<1>0. latest \in Nat
  BY ConstantsAssumption DEF Inv, TypeOK
<1>1. /\ latest' = latest + 1 /\ row' = [old EXCEPT ![latest + 1] = r]
      /\ entries' = [entries EXCEPT ![latest + 1] = es]
  BY DEF Create
<1>2. /\ r.status = "planned" /\ r.closed = FALSE /\ r.round = 0 /\ r.spec = sp /\ r.requester = c
      /\ \A e \in es : e.kind = "accept" /\ e.author = c
  BY DEF Planned, Accepted
<1> HIDE DEF r, es
<1>3. By(es, "accept") # MembersOf(r)
  <2> SUFFICES ASSUME By(es, "accept") = MembersOf(r) PROVE FALSE
    OBVIOUS
  <2>1. sp.participants \subseteq {c}
    BY <1>2 DEF By, MembersOf
  <2>2. sp.participants = {} \/ sp.participants = {c}
    BY <2>1
  <2>3. Cardinality(sp.participants) = 0 \/ Cardinality(sp.participants) = 1
    BY <2>2, FS_EmptySet, FS_Singleton
  <2>4. Cardinality(sp.participants) \in 2 .. 8
    BY ConstantsAssumption
  <2> QED BY <2>3, <2>4
<1>4. ReportsInOrder(r, es)
  BY <1>2 DEF ReportsInOrder
<1>5. SharedInOrder(r, es) /\ ThreadInOrder(r, es)
  <2>1. sp.rounds \in 0 .. 3 /\ sp.turns \in 1 .. 3
    BY ConstantsAssumption
  <2>2. SharedInOrder(r, es)
    BY <1>2, <2>1 DEF SharedInOrder
  <2>3. ASSUME NEW s \in Sessions PROVE \E n \in 0 .. sp.turns : Said(es, s) = {Report("discussion", s, k) : k \in 1 .. n}
    <3>1. Said(es, s) = {}
      BY <1>2 DEF Said
    <3>2. 0 \in 0 .. sp.turns /\ 1 .. 0 = {}
      BY <2>1
    <3> QED BY <3>1, <3>2
  <2>4. ThreadInOrder(r, es)
    BY <1>2, <2>1, <2>3 DEF ThreadInOrder
  <2> QED BY <2>2, <2>4
<1>6. Earned(r, es)
  BY <1>2, <1>3, <1>4, <1>5 DEF Earned
<1>7. row'[latest + 1] = r /\ entries'[latest + 1] = es
  BY <1>1 DEF Inv, TypeOK
<1>a. \A v \in 1 .. latest : v \in Versions /\ v # latest + 1
  BY <1>0, ConstantsAssumption DEF Versions
<1>8. \A v \in 1 .. latest : row'[v] = old[v] /\ entries'[v] = entries[v]
  BY <1>1, <1>a DEF Inv, TypeOK
<1>9. \A v \in 1 .. latest + 1 : v = latest + 1 \/ v \in 1 .. latest
  BY <1>0
<1> QED BY <1>1, <1>6, <1>7, <1>8, <1>9 DEF AllEarned

\* An entry is a report or an acceptance with these three fields.
LEMMA EntryIsReport ==
    ASSUME NEW e \in Entry
    PROVE  e = Report(e.kind, e.author, e.round)
BY DEF Entry, Report

\* As many reports as rounds they are numbered with.
LEMMA ReportsCount ==
    ASSUME NEW kind, NEW s, NEW n \in Nat
    PROVE  /\ IsFiniteSet({Report(kind, s, k) : k \in 1 .. n})
           /\ Cardinality({Report(kind, s, k) : k \in 1 .. n}) = n
<1> DEFINE T == {Report(kind, s, k) : k \in 1 .. n}
           f == [k \in 1 .. n |-> Report(kind, s, k)]
<1>1. f \in Bijection(1 .. n, T)
  <2>1. f \in [1 .. n -> T]
    OBVIOUS
  <2>2. \A i, j \in 1 .. n : f[i] = f[j] => i = j
    BY DEF Report
  <2>3. \A t \in T : \E i \in 1 .. n : f[i] = t
    OBVIOUS
  <2> QED BY <2>1, <2>2, <2>3 DEF Bijection, Injection, Surjection, IsInjective
<1>2. ExistsBijection(1 .. n, T)
  BY <1>1 DEF ExistsBijection
<1>3. IsFiniteSet(1 .. n) /\ Cardinality(1 .. n) = n
  BY FS_Interval
<1> HIDE DEF T
<1>4. IsFiniteSet(T) /\ Cardinality(T) = n
  BY <1>2, <1>3, FS_Bijection
<1> QED BY <1>4 DEF T


\* A report of another kind leaves the discussion as it is.
LEMMA OtherKind ==
    ASSUME NEW es, NEW e, NEW kind, e.kind # kind
    PROVE  {x \in es \cup {e} : x.kind = kind} = {x \in es : x.kind = kind}
OBVIOUS

\* Acceptances.
LEMMA AcceptEarns ==
    ASSUME Inv, AllEarned, NEW s \in Sessions, accept_coordination(s)
    PROVE  AllEarned'
<1> DEFINE st == IF Authors(latest, "accept") \cup {s} = Members(latest) THEN "accepted" ELSE "planned"
           q == row[latest]
           r == [q EXCEPT !.status = st]
           es == entries[latest]
           es2 == es \cup {Accepted(s)}
<1>1. latest > 0 /\ q.status = "planned" /\ Write(s, r, es2)
  BY DEF accept_coordination, MayCall
<1>2. latest \in 1 .. latest /\ q \in Row
  BY <1>1, LatestRow DEF Inv, Versions
<1>3. Earned(q, es) /\ Accepted(s).kind = "accept" /\ Accepted(s).author = s
  BY <1>2 DEF AllEarned, Accepted
<1>4. /\ r \in Row /\ r.status = st /\ st # "completed" /\ r.closed = q.closed /\ r.spec = q.spec
      /\ r.round = q.round /\ r.requester = q.requester
  BY <1>2 DEF Row, OPEN
<1>5. {e \in es2 : e.kind = "discussion"} = {e \in es : e.kind = "discussion"}
  BY <1>3, OtherKind
<1>6. st = "planned" => By(es2, "accept") # MembersOf(r)
  <2>1. By(es2, "accept") = Authors(latest, "accept") \cup {s}
    BY <1>3, ByAdd DEF By, Authors, Entries
  <2>2. MembersOf(r) = Members(latest)
    BY <1>4 DEF MembersOf, Members, Participants
  <2> QED BY <2>1, <2>2
<1>7. ReportsInOrder(r, es2)
  BY <1>1, <1>3, <1>4 DEF Earned, ReportsInOrder
<1> HIDE DEF r, es2, st
<1>8. SharedInOrder(r, es2) /\ ThreadInOrder(r, es2)
  BY <1>3, <1>4, <1>5, TurnsStay DEF Earned
<1>9. Earned(r, es2)
  BY <1>3, <1>4, <1>6, <1>7, <1>8 DEF Earned
<1> QED BY <1>1, <1>4, <1>9, WriteEarns

\* A change of the row alone, to another phase that is not the first.
LEMMA PhaseEarns ==
    ASSUME Inv, AllEarned, latest > 0, NEW c, NEW r \in Row, Write(c, r, entries[latest]),
           r.spec = row[latest].spec, r.closed = row[latest].closed, r.round = row[latest].round,
           r.status \notin {"planned", "completed"}, row[latest].status # "completed"
    PROVE  AllEarned'
<1>1. latest \in 1 .. latest
  BY LatestRow DEF Inv, Versions
<1>2. Earned(row[latest], entries[latest])
  BY <1>1 DEF AllEarned
<1>3. SharedInOrder(r, entries[latest]) /\ ThreadInOrder(r, entries[latest])
  BY <1>2, TurnsStay DEF Earned
<1>4. ReportsInOrder(r, entries[latest])
  BY <1>2 DEF Earned, ReportsInOrder
<1> QED BY <1>2, <1>3, <1>4, WriteEarns DEF Earned

\* The discussion opens with its first round, or without one.
LEMMA OpeningEarns ==
    ASSUME Inv, AllEarned, latest > 0, NEW c, InitialsIn(latest), NEW n \in {0, 1},
           n = IF row[latest].spec.rounds > 0 \/ row[latest].spec.mode = "threaded" THEN 1 ELSE 0,
           Write(c, [row[latest] EXCEPT !.status = "discussing", !.closed = TRUE, !.round = n], entries[latest])
    PROVE  AllEarned'
<1> DEFINE q == row[latest]
           es == entries[latest]
           r == [q EXCEPT !.status = "discussing", !.closed = TRUE, !.round = n]
<1>1. latest \in 1 .. latest /\ q \in Row
  BY LatestRow DEF Inv, Versions
<1>2. Earned(q, es) /\ Good(q, es) /\ q.status = "collecting"
  BY <1>1 DEF AllEarned, Inv, AllGood, InitialsIn
<1>3. n \in 0 .. MaxRound /\ "discussing" \in OPEN \cup {"completed", "cancelled"}
  BY DEF MaxRound, OPEN
<1>4. r \in Row
  BY <1>1, <1>3 DEF Row
<1>5. r.status = "discussing" /\ r.closed = TRUE /\ r.spec = q.spec /\ r.round = n
  BY <1>1 DEF Row
<1>6. Write(c, r, es) /\ n = IF q.spec.rounds > 0 \/ q.spec.mode = "threaded" THEN 1 ELSE 0
  OBVIOUS
<1>7. q.spec.rounds \in 0 .. 3 /\ q.spec.turns \in 1 .. 3 /\ q.spec.mode \in {"rounds", "threaded"}
  BY <1>1, Limits
<1>8. \A e \in es : e.kind # "discussion"
  BY <1>2 DEF Good
<1> HIDE DEF r
<1>9. SharedInOrder(r, es)
  <2> SUFFICES ASSUME q.spec.mode = "rounds" PROVE SharedInOrder(r, es)
    BY <1>5 DEF SharedInOrder
  <2>1. n <= q.spec.rounds + 1 /\ (n = 0 <=> q.spec.rounds = 0)
    BY <1>6, <1>7
  <2>2. \A k \in 1 .. q.spec.rounds : ~(k < n)
    BY <1>7
  <2> QED BY <1>5, <1>8, <2>1, <2>2 DEF SharedInOrder
<1>10. ThreadInOrder(r, es)
  <2> SUFFICES ASSUME q.spec.mode = "threaded" PROVE ThreadInOrder(r, es)
    BY <1>5 DEF ThreadInOrder
  <2>1. n = 1 /\ ~(q.spec.rounds > 0 /\ n > q.spec.rounds)
    BY <1>6, <1>7
  <2> QED BY <1>2, <1>5, <2>1 DEF ThreadInOrder, Earned
<1>11. ReportsInOrder(r, es)
  BY <1>2, <1>5 DEF Earned, ReportsInOrder
<1> QED BY <1>4, <1>5, <1>6, <1>9, <1>10, <1>11, WriteEarns DEF Earned

\* A round ends only when everybody spoke in it.
LEMMA RoundEarns ==
    ASSUME Inv, AllEarned, latest > 0, NEW c, RoundSpoken(latest), NextRound(row[latest]) <= MaxRound,
           Write(c, [row[latest] EXCEPT !.round = NextRound(row[latest])], entries[latest])
    PROVE  AllEarned'
<1> DEFINE q == row[latest]
           es == entries[latest]
           n == NextRound(q)
           r == [q EXCEPT !.round = n]
<1>1. latest \in 1 .. latest /\ q \in Row
  BY LatestRow DEF Inv, Versions
<1>2. Earned(q, es) /\ Good(q, es) /\ q.status = "discussing"
  BY <1>1 DEF AllEarned, Inv, AllGood, RoundSpoken
<1>3. /\ q.spec.rounds \in 0 .. 3 /\ q.spec.turns \in 1 .. 3 /\ q.spec.mode \in {"rounds", "threaded"}
      /\ q.round \in 0 .. 4 /\ q.spec.participants \subseteq Sessions
  BY <1>1, Limits
<1>4. n \in 0 .. MaxRound
  BY <1>3 DEF NextRound, MaxRound
<1>5. r \in Row
  BY <1>1, <1>4 DEF Row
<1>6. r.status = "discussing" /\ r.closed = q.closed /\ q.closed /\ r.spec = q.spec /\ r.round = n
  BY <1>1, <1>2, <1>3 DEF Row, Good
<1>7. Write(c, r, es)
  OBVIOUS
<1> HIDE DEF r
<1>8. SharedInOrder(r, es)
  <2> SUFFICES ASSUME q.spec.mode = "rounds" PROVE SharedInOrder(r, es)
    BY <1>6 DEF SharedInOrder
  <2>1. n = q.round + 1 /\ q.round \in 1 .. q.spec.rounds
    BY DEF NextRound, RoundSpoken
  <2>2. SaidIn(es, q.round) = q.spec.participants
    BY DEF RoundSpoken, SpokeIn, Participants, Entries, SaidIn
  <2>3. \A k \in 1 .. q.spec.rounds : k < n => k < q.round \/ k = q.round
    BY <1>3, <2>1
  <2>4. \A k \in 1 .. q.spec.rounds : k < n => SaidIn(es, k) = q.spec.participants
    BY <1>2, <2>2, <2>3 DEF Earned, SharedInOrder
  <2>5. n <= q.spec.rounds + 1 /\ n # 0 /\ q.spec.rounds # 0
    BY <1>3, <2>1
  <2>6. \A e \in es : e.kind = "discussion" => e.round \in 1 .. q.spec.rounds
    BY <1>2 DEF Earned, SharedInOrder
  <2> QED BY <1>6, <2>4, <2>5, <2>6 DEF SharedInOrder
<1>9. ThreadInOrder(r, es)
  <2> SUFFICES ASSUME q.spec.mode = "threaded" PROVE ThreadInOrder(r, es)
    BY <1>6 DEF ThreadInOrder
  <2>1. By(es, "discussion") = q.spec.participants /\ (q.round <= q.spec.rounds \/ q.spec.rounds = 0)
    BY DEF RoundSpoken, Authors, Entries, Participants, By
  <2>2. q.round >= 1 /\ (q.spec.rounds > 0 => q.round \in {0, 1, q.spec.rounds + 1})
    BY <1>2, <1>6 DEF Earned, ThreadInOrder
  <2>3. n >= 1 /\ (q.spec.rounds > 0 => n = q.spec.rounds + 1)
    BY <1>3, <2>1, <2>2 DEF NextRound
  <2>4. \A s \in Sessions : \E m \in 0 .. q.spec.turns : Said(es, s) = {Report("discussion", s, k) : k \in 1 .. m}
    BY <1>2 DEF Earned, ThreadInOrder
  <2> QED BY <1>6, <2>1, <2>3, <2>4 DEF ThreadInOrder
<1>10. ReportsInOrder(r, es)
  BY <1>2, <1>6 DEF Earned, ReportsInOrder
<1> QED BY <1>5, <1>6, <1>7, <1>8, <1>9, <1>10, WriteEarns DEF Earned

\* _advance as a whole.
LEMMA AdvanceEarns ==
    ASSUME Inv, AllEarned, latest > 0, NEW c, Advance(c)
    PROVE  AllEarned'
<1>1. ASSUME Agreed(latest), Write(c, [row[latest] EXCEPT !.status = "collecting"], entries[latest])
      PROVE  AllEarned'
  <2>1. row[latest] \in Row /\ row[latest].status = "accepted"
    BY <1>1, LatestRow DEF Inv, Agreed
  <2> DEFINE r == [row[latest] EXCEPT !.status = "collecting"]
  <2>2. /\ r \in Row /\ r.status = "collecting" /\ r.spec = row[latest].spec /\ r.closed = row[latest].closed
        /\ r.round = row[latest].round
    BY <2>1 DEF Row, OPEN
  <2>3. Write(c, r, entries[latest])
    BY <1>1
  <2> HIDE DEF r
  <2> QED BY <2>1, <2>2, <2>3, PhaseEarns
<1>2. CASE Agreed(latest) /\ Write(c, [row[latest] EXCEPT !.status = "collecting"], entries[latest])
  BY <1>1, <1>2
<1>3. ASSUME InitialsIn(latest),
             Write(c, [row[latest] EXCEPT !.status = "discussing", !.closed = TRUE,
                                          !.round = IF row[latest].spec.rounds > 0 \/ row[latest].spec.mode = "threaded"
                                                    THEN 1 ELSE 0], entries[latest])
      PROVE  AllEarned'
  <2>1. PICK n \in {0, 1} : n = IF row[latest].spec.rounds > 0 \/ row[latest].spec.mode = "threaded" THEN 1 ELSE 0
    OBVIOUS
  <2> QED BY <1>3, <2>1, OpeningEarns
<1>4. CASE RoundSpoken(latest) /\ NextRound(row[latest]) <= MaxRound
           /\ Write(c, [row[latest] EXCEPT !.round = NextRound(row[latest])], entries[latest])
  BY <1>4, RoundEarns
<1> QED BY <1>2, <1>3, <1>4 DEF Advance


\* An initial report.
LEMMA InitialEarns ==
    ASSUME Inv, AllEarned, NEW s \in Sessions, submit_initial(s)
    PROVE  AllEarned'
<1> DEFINE e == Report("initial", s, 0)
           q == row[latest]
           es == entries[latest]
<1>1. latest > 0 /\ q.status = "collecting" /\ s \in q.spec.participants /\ Write(s, q, es \cup {e})
  BY DEF submit_initial, MayReport, Participants, Submit, Report
<1>2. latest \in 1 .. latest /\ q \in Row
  BY <1>1, LatestRow DEF Inv, Versions
<1>3. Earned(q, es) /\ e.kind = "initial" /\ e.author = s /\ e.round = 0
  BY <1>2 DEF AllEarned, Report
<1> HIDE DEF e
<1>4. SharedInOrder(q, es \cup {e}) /\ ThreadInOrder(q, es \cup {e})
  BY <1>3, OtherKind, TurnsStay DEF Earned
<1>5. ReportsInOrder(q, es \cup {e})
  BY <1>1, <1>3 DEF Earned, ReportsInOrder
<1>6. Earned(q, es \cup {e})
  BY <1>1, <1>3, <1>4, <1>5 DEF Earned
<1> QED BY <1>1, <1>2, <1>6, WriteEarns

\* A discussion report fills the shared round or the author's next turn.
LEMMA DiscussionEarns ==
    ASSUME Inv, AllEarned, NEW s \in Sessions, submit_discussion(s)
    PROVE  AllEarned'
<1> DEFINE t == Turn(latest, s)
           e == Report("discussion", s, t)
           q == row[latest]
           es == entries[latest]
           es2 == es \cup {e}
<1>1. /\ latest > 0 /\ q.status = "discussing" /\ s \in q.spec.participants /\ Write(s, q, es2)
      /\ MayDiscuss(latest, s)
  BY DEF submit_discussion, MayDiscuss, Participants, Submit, Report
<1>2. latest \in 1 .. latest /\ q \in Row
  BY <1>1, LatestRow DEF Inv, Versions
<1>3. Earned(q, es) /\ e.kind = "discussion" /\ e.author = s /\ e.round = t
  BY <1>2 DEF AllEarned, Report
<1>4. /\ q.spec.rounds \in 0 .. 3 /\ q.spec.turns \in 1 .. 3 /\ q.spec.mode \in {"rounds", "threaded"}
      /\ q.round \in 0 .. 4
  BY <1>2, Limits
<1>5. ReportsInOrder(q, es2)
  BY <1>1, <1>3 DEF Earned, ReportsInOrder
<1>6. SharedInOrder(q, es2)
  <2> SUFFICES ASSUME q.spec.mode = "rounds" PROVE SharedInOrder(q, es2)
    BY DEF SharedInOrder
  <2>1. t = q.round /\ t \in 1 .. q.spec.rounds
    BY <1>1 DEF Turn, MayDiscuss
  <2>2. ASSUME NEW k \in 1 .. q.spec.rounds, k < q.round PROVE SaidIn(es2, k) = q.spec.participants
    <3>1. k # e.round
      BY <1>3, <1>4, <2>1, <2>2
    <3>2. {x \in es2 : x.kind = "discussion" /\ x.round = k} = {x \in es : x.kind = "discussion" /\ x.round = k}
      BY <3>1
    <3>3. SaidIn(es, k) = q.spec.participants
      BY <1>3, <2>2 DEF Earned, SharedInOrder
    <3> QED BY <3>2, <3>3 DEF SaidIn
  <2>3. \A x \in es2 : x.kind = "discussion" => x.round \in 1 .. q.spec.rounds
    BY <1>3, <2>1 DEF Earned, SharedInOrder
  <2> QED BY <1>3, <2>2, <2>3 DEF Earned, SharedInOrder
<1>7. ThreadInOrder(q, es2)
  <2> SUFFICES ASSUME q.spec.mode = "threaded" PROVE ThreadInOrder(q, es2)
    BY DEF ThreadInOrder
  <2>1. PICK n \in 0 .. q.spec.turns : Said(es, s) = {Report("discussion", s, k) : k \in 1 .. n}
    BY <1>3 DEF Earned, ThreadInOrder
  <2>2. Said(es, s) = Spoken(latest, s)
    BY DEF Said, Spoken, Entries
  <2>3. n \in Nat /\ Cardinality(Spoken(latest, s)) = n
    BY <1>4, <2>1, <2>2, ReportsCount
  <2>4. t = n + 1 /\ t <= q.spec.turns /\ (q.round <= q.spec.rounds \/ q.spec.rounds = 0)
    BY <1>1, <2>3 DEF Turn, MayDiscuss
  <2>5. t \in 0 .. q.spec.turns /\ 1 .. t = (1 .. n) \cup {t}
    BY <1>4, <2>3, <2>4
  <2>6. Said(es2, s) = Said(es, s) \cup {e}
    BY <1>3 DEF Said
  <2>7. Said(es2, s) = {Report("discussion", s, k) : k \in 1 .. t}
    BY <2>1, <2>5, <2>6
  <2>8. ASSUME NEW d \in Sessions, d # s PROVE Said(es2, d) = Said(es, d)
    BY <1>3, <2>8 DEF Said
  <2>9. ASSUME NEW d \in Sessions
        PROVE  \E m \in 0 .. q.spec.turns : Said(es2, d) = {Report("discussion", d, k) : k \in 1 .. m}
    <3>1. CASE d = s
      BY <3>1, <2>5, <2>7
    <3>2. CASE d # s
      <4>1. \E m \in 0 .. q.spec.turns : Said(es, d) = {Report("discussion", d, k) : k \in 1 .. m}
        BY <1>3 DEF Earned, ThreadInOrder
      <4>2. Said(es2, d) = Said(es, d)
        BY <2>8, <3>2
      <4> HIDE DEF es2, es, q
      <4> QED BY <4>1, <4>2
    <3> QED BY <3>1, <3>2
  <2>10. ~(q.spec.rounds > 0 /\ q.round > q.spec.rounds)
    BY <1>4, <2>4
  <2> QED BY <1>3, <2>9, <2>10 DEF Earned, ThreadInOrder
<1> HIDE DEF es2
<1>8. Earned(q, es2)
  BY <1>1, <1>3, <1>5, <1>6, <1>7 DEF Earned
<1> QED BY <1>1, <1>2, <1>8, WriteEarns

\* The result owner's final report, when the rounds are over.
LEMMA FinalEarns ==
    ASSUME Inv, AllEarned, NEW s \in Sessions, submit_final(s)
    PROVE  AllEarned'
<1> DEFINE e == Report("final", s, 0)
           q == row[latest]
           es == entries[latest]
           r == [q EXCEPT !.status = "completed"]
<1>1. /\ latest > 0 /\ q.status = "discussing" /\ s = q.spec.owner /\ Write(s, r, es \cup {e})
      /\ q.round = 0 \/ q.round > q.spec.rounds
  BY DEF submit_final, FinalReady, Submit, Report
<1>2. latest \in 1 .. latest /\ q \in Row
  BY <1>1, LatestRow DEF Inv, Versions
<1>3. Earned(q, es) /\ e.kind = "final"
  BY <1>2 DEF AllEarned, Report
<1>4. r \in Row /\ r.status = "completed" /\ r.spec = q.spec /\ r.closed = q.closed /\ r.round = q.round
  BY <1>2 DEF Row
<1>5. ReportsInOrder(r, es \cup {e})
  <2>1. \A x \in es : x.kind # "final"
    BY <1>1, <1>3 DEF Earned, ReportsInOrder
  <2> HIDE DEF r
  <2>2. e \in es \cup {e} /\ e = Report("final", r.spec.owner, 0)
    BY <1>1, <1>4
  <2>3. \A x \in es \cup {e} : x.kind = "final" => x = e
    BY <2>1
  <2>4. \A x \in es \cup {e} : x.kind \in {"initial", "discussion"} => x \in es
    BY <1>3
  <2> HIDE DEF e
  <2> QED BY <1>1, <1>3, <1>4, <2>2, <2>3, <2>4 DEF Earned, ReportsInOrder
<1> HIDE DEF e, r
<1>6. SharedInOrder(r, es \cup {e}) /\ ThreadInOrder(r, es \cup {e})
  BY <1>3, <1>4, OtherKind, TurnsStay DEF Earned
<1>7. Earned(r, es \cup {e})
  BY <1>3, <1>4, <1>5, <1>6 DEF Earned
<1> QED BY <1>1, <1>4, <1>7, WriteEarns

\* A replacement cancels the version it replaces.
LEMMA ReplacementEarns ==
    ASSUME Inv, AllEarned, NEW s \in Sessions, NEW sp \in Specs, replace_coordination(s, sp)
    PROVE  AllEarned'
<1> DEFINE q == row[latest]
           es == entries[latest]
           q2 == [q EXCEPT !.status = "cancelled"]
           cut == [row EXCEPT ![latest] = Cas(q2)]
<1>1. latest > 0 /\ latest \in 1 .. MaxVersion - 1 /\ q.status \in OPEN
      /\ Create(s, sp, latest + 1, Cas(q2).revision + 1, cut)
  BY DEF replace_coordination, MayCall, IsOpen
<1>2. latest \in Versions /\ q \in Row /\ latest + 1 \in Versions /\ latest \in Nat /\ latest \in 1 .. latest
  BY <1>1, LatestRow, ConstantsAssumption DEF Inv, Versions
<1>3. /\ q2 \in Row /\ q2.status = "cancelled" /\ q2.closed = q.closed
      /\ q2.spec = q.spec /\ q2.round = q.round
  BY <1>2 DEF Row
<1> HIDE DEF q2
<1>4. /\ Cas(q2) \in Row /\ Cas(q2).status = "cancelled" /\ Cas(q2).closed = q.closed /\ Cas(q2).spec = q.spec
      /\ Cas(q2).round = q.round
  BY <1>3, CasFacts
<1>5. Earned(q, es) /\ q.status # "completed"
  BY <1>1, <1>2 DEF AllEarned, OPEN
<1>6. ReportsInOrder(Cas(q2), es)
  BY <1>4, <1>5 DEF Earned, ReportsInOrder
<1>7. SharedInOrder(Cas(q2), es) /\ ThreadInOrder(Cas(q2), es)
  BY <1>4, <1>5, TurnsStay DEF Earned
<1>8. Earned(Cas(q2), es)
  BY <1>4, <1>5, <1>6, <1>7 DEF Earned
<1>9. cut \in [Versions -> Row \cup {NoRow}] /\ cut[latest] = Cas(q2)
      /\ \A v \in Versions : v # latest => cut[v] = row[v]
  BY <1>2, <1>4 DEF Inv, TypeOK
<1> HIDE DEF cut
<1>10. \A v \in 1 .. latest : Earned(cut[v], entries[v])
  <2>1. \A v \in 1 .. latest : v \in Versions
    BY <1>2, ConstantsAssumption DEF Versions
  <2> QED BY <1>8, <1>9, <2>1 DEF AllEarned
<1>11. s \in Callers
  BY DEF Callers
<1> QED BY <1>1, <1>2, <1>9, <1>10, <1>11, CreateEarns

\* Every step keeps the turns of every version in order.
LEMMA NextEarned == Inv /\ AllEarned /\ [Next]_vars => AllEarned'
<1> SUFFICES ASSUME Inv, AllEarned, [Next]_vars PROVE AllEarned'
  OBVIOUS
<1>0. ASSUME UNCHANGED <<latest, row, entries>> PROVE AllEarned'
  BY <1>0 DEF AllEarned
<1>1. ASSUME NEW c \in Callers, NEW sp \in Specs, latest = 0, Create(c, sp, 1, 0, row) PROVE AllEarned'
  <2>1. latest + 1 = 1 /\ 1 \in Versions /\ row \in [Versions -> Row \cup {NoRow}]
    BY <1>1, ConstantsAssumption DEF Inv, TypeOK, Versions
  <2>2. \A v \in 1 .. latest : Earned(row[v], entries[v])
    BY DEF AllEarned
  <2> QED BY <1>1, <2>1, <2>2, CreateEarns
<1>2. ASSUME NEW c \in Callers, Cancel(c) PROVE AllEarned'
  <2> DEFINE r == [row[latest] EXCEPT !.status = "cancelled"]
  <2>1. latest > 0 /\ row[latest].status \in OPEN /\ Write(c, r, entries[latest])
    BY <1>2 DEF Cancel, MayCall
  <2>2. row[latest] \in Row
    BY <2>1, LatestRow DEF Inv
  <2>3. r \in Row /\ r.status = "cancelled" /\ r.spec = row[latest].spec /\ r.closed = row[latest].closed
        /\ r.round = row[latest].round
    BY <2>2 DEF Row
  <2> HIDE DEF r
  <2> QED BY <2>1, <2>3, PhaseEarns DEF OPEN
<1>3. ASSUME NEW s \in Sessions, advance_coordination(s) PROVE AllEarned'
  BY <1>3, AdvanceEarns DEF advance_coordination, MayCall
<1>4. CASE advance_operator_coordination
  BY <1>4, AdvanceEarns DEF advance_operator_coordination, MayCall
<1>5. ASSUME NEW c \in Callers, Read(c) PROVE AllEarned'
  BY <1>0, <1>5 DEF Read
<1>6. CASE DeadlinePasses \/ UNCHANGED vars \/ \E s \in Sessions : LivenessChanges(s)
  BY <1>0, <1>6 DEF DeadlinePasses, LivenessChanges, vars
<1>7. CASE cancel_operator_coordination \/ get_operator_coordination
  BY <1>2, <1>5, <1>7 DEF cancel_operator_coordination, get_operator_coordination, Callers
<1>8. ASSUME NEW s \in Sessions, cancel_coordination(s) \/ get_coordination(s) PROVE AllEarned'
  BY <1>2, <1>5, <1>8 DEF cancel_coordination, get_coordination, Callers
<1>9. ASSUME NEW s \in Sessions, NEW sp \in Specs, propose_coordination(s, sp) PROVE AllEarned'
  BY <1>1, <1>9 DEF propose_coordination, Callers
<1>10. ASSUME NEW sp \in Specs, propose_operator_coordination(sp) PROVE AllEarned'
  BY <1>1, <1>10 DEF propose_operator_coordination, Callers
<1> QED
  BY <1>3, <1>4, <1>6, <1>7, <1>8, <1>9, <1>10, AcceptEarns, InitialEarns, DiscussionEarns, FinalEarns,
     ReplacementEarns DEF Next

\* The turns of a version are in order from its creation.
THEOREM TurnsInOrder == Spec => [](Inv /\ AllEarned)
<1>1. Init => AllEarned
  BY DEF Init, AllEarned
<1>2. Inv /\ AllEarned /\ [Next]_vars => AllEarned'
  BY NextEarned
<1> QED BY <1>1, <1>2, Invariance, PTL DEF Spec

\* The authors of a kind and of a round, as the model and as the invariant write them.
LEMMA SameReports ==
    ASSUME NEW v
    PROVE  /\ \A kind : Authors(v, kind) = By(entries[v], kind)
           /\ \A s : Spoken(v, s) = Said(entries[v], s)
           /\ \A k : SpokeIn(v, k) = SaidIn(entries[v], k)
           /\ Members(v) = MembersOf(row[v]) /\ Participants(v) = row[v].spec.participants
<1>1. \A kind : Authors(v, kind) = By(entries[v], kind)
  BY DEF Authors, Entries, By
<1>2. \A s : Spoken(v, s) = Said(entries[v], s)
  BY DEF Spoken, Entries, Said
<1>3. \A k : SpokeIn(v, k) = SaidIn(entries[v], k)
  BY DEF SpokeIn, Entries, SaidIn
<1>4. Members(v) = MembersOf(row[v]) /\ Participants(v) = row[v].spec.participants
  BY DEF Members, Participants, MembersOf
<1> QED BY <1>1, <1>2, <1>3, <1>4

\* What the invariant says of one version.
LEMMA OneVersion ==
    ASSUME Inv, AllEarned, NEW v \in 1 .. latest
    PROVE  /\ row[v] \in Row /\ entries[v] \in SUBSET Entry
           /\ Good(row[v], entries[v]) /\ Earned(row[v], entries[v])
<1>1. v \in Versions /\ ~(v > latest)
  BY ConstantsAssumption DEF Inv, TypeOK, Versions
<1>2. row[v] # NoRow /\ row[v] \in Row \cup {NoRow} /\ entries[v] \in SUBSET Entry
  BY <1>1 DEF Inv, TypeOK
<1> QED BY <1>2 DEF Inv, AllGood, AllEarned

\* A completed version has its one final report and skipped no round.
LEMMA FinalHolds == Inv /\ AllEarned => FinalIsEarned
<1> SUFFICES ASSUME Inv, AllEarned, NEW v \in 1 .. latest, row[v].status = "completed"
             PROVE  /\ Entries(v, "final") = {Report("final", row[v].spec.owner, 0)}
                    /\ Authors(v, "initial") = Participants(v)
                    /\ row[v].spec.mode = "rounds" =>
                          \A k \in 1 .. row[v].spec.rounds : SpokeIn(v, k) = Participants(v)
                    /\ row[v].spec.mode = "threaded" /\ row[v].spec.rounds > 0 =>
                          Authors(v, "discussion") = Participants(v)
  BY DEF FinalIsEarned, Report
<1> DEFINE r == row[v]
           es == entries[v]
<1>1. r \in Row /\ Good(r, es) /\ Earned(r, es)
  BY OneVersion
<1>2. /\ r.spec.rounds \in 0 .. 3 /\ r.round \in 0 .. 4 /\ r.closed \in BOOLEAN
  BY <1>1, Limits
<1>3. r.closed /\ By(es, "initial") = r.spec.participants
  BY <1>1, <1>2 DEF Good
<1>4. Report("final", r.spec.owner, 0) \in es /\ (r.round = 0 \/ r.round > r.spec.rounds)
  BY <1>1 DEF Earned, ReportsInOrder
<1>5. Report("final", r.spec.owner, 0).kind = "final"
  BY DEF Report
<1>6. Entries(v, "final") = {Report("final", r.spec.owner, 0)}
  BY <1>1, <1>4, <1>5 DEF Earned, ReportsInOrder, Entries
<1>7. Authors(v, "initial") = Participants(v)
  BY <1>3, SameReports
<1>8. ASSUME r.spec.mode = "rounds", NEW k \in 1 .. r.spec.rounds PROVE SpokeIn(v, k) = Participants(v)
  <2>1. r.round = 0 <=> r.spec.rounds = 0
    BY <1>1, <1>3, <1>8 DEF Earned, SharedInOrder
  <2>2. k < r.round
    BY <1>2, <1>4, <1>8, <2>1
  <2>3. SaidIn(es, k) = r.spec.participants
    BY <1>1, <1>8, <2>2 DEF Earned, SharedInOrder
  <2> QED BY <2>3, SameReports
<1>9. ASSUME r.spec.mode = "threaded", r.spec.rounds > 0 PROVE Authors(v, "discussion") = Participants(v)
  <2>1. r.round >= 1
    BY <1>1, <1>3, <1>9 DEF Earned, ThreadInOrder
  <2>2. r.round > r.spec.rounds
    BY <1>2, <1>4, <2>1
  <2>3. By(es, "discussion") = r.spec.participants
    BY <1>1, <1>9, <2>2 DEF Earned, ThreadInOrder
  <2> QED BY <2>3, SameReports
<1> QED BY <1>6, <1>7, <1>8, <1>9

\* Reports numbered within 1 .. n are at most n.
LEMMA FewReports ==
    ASSUME NEW kind, NEW s, NEW n \in Nat, NEW T, T \subseteq {Report(kind, s, k) : k \in 1 .. n}
    PROVE  IsFiniteSet(T) /\ Cardinality(T) \in Nat /\ Cardinality(T) <= n
<1> DEFINE U == {Report(kind, s, k) : k \in 1 .. n}
<1>1. IsFiniteSet(U) /\ Cardinality(U) = n
  BY ReportsCount
<1>2. T \subseteq U
  OBVIOUS
<1> HIDE DEF U
<1>3. IsFiniteSet(T) /\ Cardinality(T) <= n
  BY <1>1, <1>2, FS_Subset
<1> QED BY <1>3, FS_CardinalityType

\* Nobody exceeds its budget of turns.
LEMMA TurnsHold == Inv /\ AllEarned => TurnsAreBounded
<1> SUFFICES ASSUME Inv, AllEarned, NEW v \in 1 .. latest, NEW s \in Sessions
             PROVE  /\ Cardinality({e \in Entries(v, "initial") : e.author = s}) <= 1
                    /\ Cardinality(Spoken(v, s)) <= IF row[v].spec.mode = "threaded" THEN row[v].spec.turns
                                                                                     ELSE row[v].spec.rounds
  BY DEF TurnsAreBounded
<1> DEFINE r == row[v]
           es == entries[v]
           I == {e \in Entries(v, "initial") : e.author = s}
<1>1. r \in Row /\ es \in SUBSET Entry /\ Earned(r, es)
  BY OneVersion
<1>2. /\ r.spec.rounds \in 0 .. 3 /\ r.spec.turns \in 1 .. 3 /\ r.spec.mode \in {"rounds", "threaded"}
  BY <1>1, Limits
<1>3. Cardinality(I) <= 1
  <2>1. \A e \in I : e = Report("initial", s, 0)
    BY <1>1, EntryIsReport DEF Earned, ReportsInOrder, Entries
  <2>2. I = {} \/ I = {Report("initial", s, 0)}
    BY <2>1
  <2> HIDE DEF I
  <2>3. Cardinality(I) = 0 \/ Cardinality(I) = 1
    BY <2>2, FS_EmptySet, FS_Singleton
  <2> QED BY <2>3
<1>4. CASE r.spec.mode = "threaded"
  <2>1. PICK n \in 0 .. r.spec.turns : Said(es, s) = {Report("discussion", s, k) : k \in 1 .. n}
    BY <1>1, <1>4 DEF Earned, ThreadInOrder
  <2>2. Cardinality(Said(es, s)) = n /\ n <= r.spec.turns
    BY <1>2, <2>1, ReportsCount
  <2> QED BY <1>3, <1>4, <2>2, SameReports
<1>5. CASE r.spec.mode = "rounds"
  <2>1. \A e \in Said(es, s) : e.round \in 1 .. r.spec.rounds /\ e = Report("discussion", s, e.round)
    BY <1>1, <1>5, EntryIsReport DEF Earned, SharedInOrder, Said
  <2>2. Said(es, s) \subseteq {Report("discussion", s, k) : k \in 1 .. r.spec.rounds}
    BY <2>1
  <2>3. Cardinality(Said(es, s)) <= r.spec.rounds
    BY <1>2, <2>2, FewReports
  <2> QED BY <1>3, <1>5, <2>3, SameReports
<1> QED BY <1>2, <1>4, <1>5

\* Before its deadline an open version has a next step.
LEMMA ForwardHolds == Inv /\ AllEarned => AlwaysAWayForward
<1> SUFFICES ASSUME Inv, AllEarned, latest > 0, IsOpen(latest)
             PROVE  \/ row[latest].status = "planned" /\ Members(latest) # Authors(latest, "accept")
                    \/ \E s \in Sessions : MayReport(latest, s) \/ MayDiscuss(latest, s)
                    \/ Agreed(latest) \/ InitialsIn(latest) \/ FinalReady(latest)
                    \/ RoundSpoken(latest) /\ NextRound(row[latest]) <= MaxRound
  BY DEF AlwaysAWayForward
<1> DEFINE r == row[latest]
           es == entries[latest]
<1>1. latest \in 1 .. latest
  BY LatestRow DEF Inv, Versions
<1>2. r \in Row /\ Good(r, es) /\ Earned(r, es)
  BY <1>1, OneVersion
<1>3. /\ r.spec.rounds \in 0 .. 3 /\ r.spec.turns \in 1 .. 3 /\ r.spec.mode \in {"rounds", "threaded"}
      /\ r.round \in 0 .. 4 /\ r.spec.participants \subseteq Sessions /\ r.closed \in BOOLEAN
  BY <1>2, Limits
<1>4. /\ \A kind : Authors(latest, kind) = By(es, kind)
      /\ \A s : Spoken(latest, s) = Said(es, s)
      /\ \A k : SpokeIn(latest, k) = SaidIn(es, k)
      /\ Members(latest) = MembersOf(r) /\ Participants(latest) = r.spec.participants
  BY SameReports
<1>5. CASE r.status = "planned"
  BY <1>2, <1>4, <1>5 DEF Earned
<1>6. CASE r.status = "accepted"
  BY <1>2, <1>4, <1>6 DEF Good, Agreed
<1>7. CASE r.status = "collecting"
  <2>1. By(es, "initial") \subseteq r.spec.participants
    BY <1>2 DEF Earned, ReportsInOrder, By
  <2>2. CASE By(es, "initial") = r.spec.participants
    BY <1>4, <1>7, <2>2 DEF InitialsIn
  <2>3. CASE By(es, "initial") # r.spec.participants
    <3>1. PICK s \in r.spec.participants : s \notin By(es, "initial")
      BY <2>1, <2>3
    <3> QED BY <1>3, <1>4, <1>7, <3>1 DEF MayReport
  <2> QED BY <2>2, <2>3
<1>8. CASE r.status = "discussing"
  <2>0. r.closed
    BY <1>2, <1>3, <1>8 DEF Good
  <2>1. CASE r.round = 0 \/ r.round > r.spec.rounds
    BY <1>8, <2>1 DEF FinalReady
  <2>2. CASE r.round \in 1 .. r.spec.rounds /\ r.spec.mode = "rounds"
    <3>1. NextRound(r) <= MaxRound
      BY <1>3, <2>2 DEF NextRound, MaxRound
    <3>2. SaidIn(es, r.round) \subseteq r.spec.participants
      BY <1>2 DEF Earned, ReportsInOrder, SaidIn
    <3>3. CASE SaidIn(es, r.round) = r.spec.participants
      BY <1>4, <1>8, <2>2, <3>1, <3>3 DEF RoundSpoken
    <3>4. CASE SaidIn(es, r.round) # r.spec.participants
      <4>1. PICK s \in r.spec.participants : s \notin SaidIn(es, r.round)
        BY <3>2, <3>4
      <4>2. Turn(latest, s) = r.round
        BY <2>2 DEF Turn
      <4>3. \A e \in Spoken(latest, s) : e.round # Turn(latest, s)
        BY <1>4, <4>1, <4>2 DEF Said, SaidIn
      <4>4. MayDiscuss(latest, s)
        BY <1>4, <1>8, <2>2, <4>1, <4>3 DEF MayDiscuss
      <4> QED BY <1>3, <4>1, <4>4
    <3> QED BY <3>3, <3>4
  <2>3. CASE r.round \in 1 .. r.spec.rounds /\ r.spec.mode = "threaded"
    <3>1. NextRound(r) <= MaxRound
      BY <1>3, <2>3 DEF NextRound, MaxRound
    <3>2. By(es, "discussion") \subseteq r.spec.participants
      BY <1>2 DEF Earned, ReportsInOrder, By
    <3>3. CASE By(es, "discussion") = r.spec.participants
      BY <1>3, <1>4, <1>8, <2>3, <3>1, <3>3 DEF RoundSpoken
    <3>4. CASE By(es, "discussion") # r.spec.participants
      <4>1. PICK s \in r.spec.participants : s \notin By(es, "discussion")
        BY <3>2, <3>4
      <4>2. Spoken(latest, s) = {}
        BY <1>4, <4>1 DEF Said, By
      <4>3. Turn(latest, s) = 1
        BY <2>3, <4>2, FS_EmptySet DEF Turn
      <4>4. MayDiscuss(latest, s)
        BY <1>3, <1>4, <1>8, <2>3, <4>1, <4>2, <4>3 DEF MayDiscuss
      <4> QED BY <1>3, <4>1, <4>4
    <3> QED BY <3>3, <3>4
  <2> QED BY <1>3, <2>1, <2>2, <2>3
<1> QED BY <1>5, <1>6, <1>7, <1>8 DEF IsOpen, OPEN

\* submit_coordination and _advance, for every set of peers and specifications: a final
\* report comes after everyone's turns, nobody exceeds its budget, and no open version
\* is stuck.
THEOREM DiscussionEarned == Spec => []DiscussionIsEarned
<1>1. Inv /\ AllEarned => DiscussionIsEarned
  BY FinalHolds, TurnsHold, ForwardHolds DEF DiscussionIsEarned
<1> QED BY <1>1, TurnsInOrder, PTL

=============================================================================
