---------------------------- MODULE Coordination ----------------------------
(***************************************************************************)
(* Existing-peer deliberation: control/coordination.py.                    *)
(*                                                                         *)
(* One proposal code with its versions.  Codes do not interact except      *)
(* through creation keys, and a known key returns a snapshot.  A version   *)
(* is an immutable specification; acceptances and reports are append-only  *)
(* entries of it.  Phases: planned, accepted, collecting, discussing, then *)
(* completed or cancelled.                                                 *)
(*                                                                         *)
(* Every mutation reserves the writer before it reads, so it is one step.  *)
(* What is not atomic is the caller: it acts on the snapshot an earlier    *)
(* call returned, and the exact version and revision of that snapshot are  *)
(* the only fence.  seen keeps each caller's last snapshot, unfiltered, to *)
(* compare what the fence lets through with what the caller knew.          *)
(*                                                                         *)
(* All Sessions belong to one operator and one visible Workspace.  A retry *)
(* under a known contribution key, a repeated acceptance and a repeated    *)
(* cancellation change nothing and return a snapshot: they are reads here. *)
(***************************************************************************)
EXTENDS Integers, FiniteSets

CONSTANTS
    Sessions,   \* the peers' Sessions
    Operator,   \* the human behind the operator API
    Specs,      \* the specifications a caller may propose
    MaxVersion  \* bound: versions of the code

ASSUME ConstantsAssumption ==
    /\ Operator \notin Sessions
    /\ MaxVersion \in Nat \ {0}
    /\ Specs \subseteq [participants: SUBSET Sessions, owner: Sessions, rounds: 0 .. 3,
                        mode: {"rounds", "threaded"}, turns: 1 .. 3]
    /\ \A sp \in Specs : Cardinality(sp.participants) \in 2 .. 8

VARIABLES
    latest,  \* the newest version, 0 before the proposal exists
    row,     \* the coordination_proposals rows, by version
    entries, \* the coordination_contributions rows, by version
    late,    \* the newest version's deadline has passed
    live,    \* the Sessions require_live_session lets through
    seen     \* each caller's last snapshot

vars == <<latest, row, entries, late, live, seen>>

Callers == Sessions \cup {Operator}
Versions == 1 .. MaxVersion
OPEN == {"planned", "accepted", "collecting", "discussing"}
Kinds == {"accept", "initial", "discussion", "final"}

\* ck_coordination_round: the database refuses a higher round.
MaxRound == 4

Entry == [kind: Kinds, author: Sessions, round: 0 .. 3]
Row == [status: OPEN \cup {"completed", "cancelled"}, revision: Nat, round: 0 .. MaxRound,
        closed: BOOLEAN, requester: Callers, spec: Specs]
NoRow == [status |-> "absent", revision |-> -1]

Snapshot(v) == [version |-> v, row |-> row[v], entries |-> entries[v]]

Participants(v) == row[v].spec.participants
Members(v) == Participants(v) \cup {row[v].spec.owner} \cup ({row[v].requester} \ {Operator})
Entries(v, kind) == {e \in entries[v] : e.kind = kind}
Authors(v, kind) == {e.author : e \in Entries(v, kind)}
Spoken(v, s) == {e \in Entries(v, "discussion") : e.author = s}
SpokeIn(v, r) == {e.author : e \in {d \in Entries(v, "discussion") : d.round = r}}
IsOpen(v) == row[v].status \in OPEN /\ ~late

\* Mistaken variants, named Bug..., stand before the definitions they replace in the
\* checks that a property can fail.
BugUnblinds(v, c) == {e \in entries[v] : e.kind # "accept" /\ (row[v].status # "collecting" \/ e.author = c)}
BugForgets(v, c) == {e \in entries[v] : e.kind # "accept" /\ row[v].status \in {"discussing", "completed"}}

\* _snapshot: what a caller is shown of a version's reports.
Visible(v, c) ==
    {e \in entries[v] : /\ e.kind # "accept"
                        /\ row[v].closed \/ (e.kind = "initial" /\ e.author = c)}

\* _transaction: a peer calls through its own live Session.
LiveCaller(s) == s \in live

\* _access: a peer reaches a proposal it is a member of, the operator any of its own.
MayCall(c) ==
    /\ latest > 0
    /\ c # Operator => LiveCaller(c) /\ c \in Members(latest)

\* _revision: the call names the newest version and its revision.
Fence(c) ==
    /\ seen[c].version = latest
    /\ seen[c].row.revision = row[latest].revision

-----------------------------------------------------------------------------

\* _cas: a changed row moves its revision by one.
Cas(r) == [r EXCEPT !.revision = @ + 1]

\* The write and the snapshot it returns, common to accept, advance, submit and cancel.
Write(c, r, es) ==
    /\ row' = [row EXCEPT ![latest] = Cas(r)]
    /\ entries' = [entries EXCEPT ![latest] = es]
    /\ seen' = [seen EXCEPT ![c] = [version |-> latest, row |-> Cas(r), entries |-> es]]
    /\ UNCHANGED <<latest, late, live>>

Accepted(s) == [kind |-> "accept", author |-> s, round |-> 0]

\* A new version: planned, with its requester's own acceptance if that is a Session.
Planned(c, sp, revision) ==
    [status |-> "planned", revision |-> revision, round |-> 0, closed |-> FALSE,
     requester |-> c, spec |-> sp]

Create(c, sp, v, revision, old) ==
    LET es == {Accepted(s) : s \in {c} \ {Operator}}
        r == Planned(c, sp, revision)
    IN  /\ latest' = v
        /\ row' = [old EXCEPT ![v] = r]
        /\ entries' = [entries EXCEPT ![v] = es]
        /\ seen' = [seen EXCEPT ![c] = [version |-> v, row |-> r, entries |-> es]]
        /\ late' = FALSE
        /\ UNCHANGED live

\* _peer for every participant and the result owner.
PeersLive(sp) == sp.participants \cup {sp.owner} \subseteq live

propose_coordination(s, sp) ==
    /\ latest = 0 /\ LiveCaller(s)
    /\ sp.owner \in sp.participants \cup {s} /\ PeersLive(sp)
    /\ Create(s, sp, 1, 0, row)

\* The revision alone fences a replacement: the version compared is the row's own.
replace_coordination(s, sp) ==
    /\ latest \in 1 .. MaxVersion - 1
    /\ MayCall(s) /\ s = row[latest].requester
    /\ seen[s].row.revision = row[latest].revision
    /\ IsOpen(latest)
    /\ sp.owner \in sp.participants \cup {s} /\ PeersLive(sp)
    /\ LET old == Cas([row[latest] EXCEPT !.status = "cancelled"])
       IN  Create(s, sp, latest + 1, old.revision + 1, [row EXCEPT ![latest] = old])

propose_operator_coordination(sp) ==
    /\ latest = 0
    /\ PeersLive(sp)
    /\ Create(Operator, sp, 1, 0, row)

accept_coordination(s) ==
    LET v == latest
        accepted == Authors(v, "accept") \cup {s}
    IN  /\ MayCall(s) /\ Fence(s) /\ IsOpen(v)
        /\ s \notin Authors(v, "accept")
        /\ row[v].status = "planned"
        /\ Write(s, [row[v] EXCEPT !.status = IF accepted = Members(v) THEN "accepted" ELSE "planned"],
                 entries[v] \cup {Accepted(s)})

BugRoundSpoken(v) == row[v].status = "discussing" /\ row[v].round \in 1 .. row[v].spec.rounds

\* _advance_blocked: what each phase still waits for.
Agreed(v) == row[v].status = "accepted" /\ Authors(v, "accept") = Members(v)
InitialsIn(v) == row[v].status = "collecting" /\ Authors(v, "initial") = Participants(v)
RoundSpoken(v) ==
    /\ row[v].status = "discussing"
    /\ LET sp == row[v].spec
       IN  \/ /\ sp.mode = "threaded"
              /\ Authors(v, "discussion") = Participants(v)
              /\ row[v].round <= sp.rounds \/ sp.rounds = 0
           \/ /\ sp.mode = "rounds"
              /\ row[v].round \in 1 .. sp.rounds
              /\ SpokeIn(v, row[v].round) = Participants(v)

NextRound(r) ==
    IF r.spec.mode = "threaded" /\ r.spec.rounds > r.round THEN r.spec.rounds + 1 ELSE r.round + 1

\* _advance: open collection, close it, or close a discussion round.
Advance(c) ==
    LET r == row[latest]
    IN  /\ IsOpen(latest)
        /\ \/ /\ Agreed(latest)
              /\ Write(c, [r EXCEPT !.status = "collecting"], entries[latest])
           \/ /\ InitialsIn(latest)
              /\ Write(c, [r EXCEPT !.status = "discussing", !.closed = TRUE,
                                    !.round = IF r.spec.rounds > 0 \/ r.spec.mode = "threaded"
                                              THEN 1 ELSE 0],
                       entries[latest])
           \/ /\ RoundSpoken(latest) /\ NextRound(r) <= MaxRound
              /\ Write(c, [r EXCEPT !.round = NextRound(r)], entries[latest])

advance_coordination(s) ==
    /\ MayCall(s) /\ s = row[latest].requester /\ Fence(s)
    /\ row[latest].status = "accepted" => Members(latest) \subseteq live
    /\ Advance(s)

advance_operator_coordination ==
    /\ MayCall(Operator) /\ Fence(Operator)
    /\ PeersLive(row[latest].spec)
    /\ Advance(Operator)

FinalReady(v) ==
    /\ row[v].status = "discussing"
    /\ row[v].round = 0 \/ row[v].round > row[v].spec.rounds

\* The turn a discussion report fills: the caller's own count, or the shared round.
Turn(v, s) ==
    IF row[v].spec.mode = "threaded" THEN Cardinality(Spoken(v, s)) + 1 ELSE row[v].round

MayReport(v, s) ==
    /\ s \in Participants(v) /\ row[v].status = "collecting"
    /\ s \notin Authors(v, "initial")

MayDiscuss(v, s) ==
    /\ s \in Participants(v) /\ row[v].status = "discussing"
    /\ LET sp == row[v].spec
       IN  \/ /\ sp.mode = "threaded"
              /\ Turn(v, s) <= sp.turns
              /\ row[v].round <= sp.rounds \/ sp.rounds = 0
           \/ /\ sp.mode = "rounds"
              /\ row[v].round \in 1 .. sp.rounds
    /\ \A e \in Spoken(v, s) : e.round # Turn(v, s)

Submit(s, r, e) ==
    /\ MayCall(s) /\ Fence(s) /\ IsOpen(latest)
    /\ Write(s, r, entries[latest] \cup {e})

submit_initial(s) ==
    /\ latest > 0 /\ MayReport(latest, s)
    /\ Submit(s, row[latest], [kind |-> "initial", author |-> s, round |-> 0])

submit_discussion(s) ==
    /\ latest > 0 /\ MayDiscuss(latest, s)
    /\ Submit(s, row[latest], [kind |-> "discussion", author |-> s, round |-> Turn(latest, s)])

submit_final(s) ==
    /\ latest > 0 /\ s = row[latest].spec.owner /\ FinalReady(latest)
    /\ Submit(s, [row[latest] EXCEPT !.status = "completed"],
              [kind |-> "final", author |-> s, round |-> 0])

\* Expired proposals can still be cancelled.
Cancel(c) ==
    /\ MayCall(c) /\ Fence(c)
    /\ row[latest].status \in OPEN
    /\ Write(c, [row[latest] EXCEPT !.status = "cancelled"], entries[latest])

cancel_coordination(s) == Cancel(s) /\ s = row[latest].requester

cancel_operator_coordination == Cancel(Operator)

\* Reads, and every call that returns a snapshot without a change.
Read(c) ==
    /\ MayCall(c)
    /\ seen' = [seen EXCEPT ![c] = Snapshot(latest)]
    /\ UNCHANGED <<latest, row, entries, late, live>>

get_coordination(s) == Read(s)

get_operator_coordination == Read(Operator)

DeadlinePasses ==
    /\ latest > 0 /\ late' = TRUE
    /\ UNCHANGED <<latest, row, entries, live, seen>>

\* A Session ends or lapses, and a lapsed one may wake.
LivenessChanges(s) ==
    /\ live' = IF s \in live THEN live \ {s} ELSE live \cup {s}
    /\ UNCHANGED <<latest, row, entries, late, seen>>

Init ==
    /\ latest = 0
    /\ row = [v \in Versions |-> NoRow]
    /\ entries = [v \in Versions |-> {}]
    /\ late = FALSE
    /\ live = Sessions
    /\ seen = [c \in Callers |-> [version |-> 0, row |-> NoRow, entries |-> {}]]

Next ==
    \/ \E s \in Sessions :
        \/ \E sp \in Specs : propose_coordination(s, sp) \/ replace_coordination(s, sp)
        \/ accept_coordination(s) \/ advance_coordination(s)
        \/ submit_initial(s) \/ submit_discussion(s) \/ submit_final(s)
        \/ cancel_coordination(s) \/ get_coordination(s)
        \/ LivenessChanges(s)
    \/ \E sp \in Specs : propose_operator_coordination(sp)
    \/ advance_operator_coordination \/ cancel_operator_coordination \/ get_operator_coordination
    \/ DeadlinePasses

Spec == Init /\ [][Next]_vars

-----------------------------------------------------------------------------
SnapshotType == [version: 0 .. MaxVersion, row: Row \cup {NoRow}, entries: SUBSET Entry]

\* Every table keeps its types, and exactly the versions up to the newest exist.
TypeOK ==
    /\ latest \in 0 .. MaxVersion
    /\ row \in [Versions -> Row \cup {NoRow}]
    /\ \A v \in Versions : row[v] = NoRow <=> v > latest
    /\ entries \in [Versions -> SUBSET Entry]
    /\ late \in BOOLEAN
    /\ live \subseteq Sessions
    /\ seen \in [Callers -> SnapshotType]

\* accept_coordination and _advance_blocked: no member reports on, and no phase
\* follows, a specification that some member has not accepted.
NothingBeforeAgreement ==
    \A v \in 1 .. latest :
        (row[v].status \notin {"planned", "cancelled"} \/ \E e \in entries[v] : e.kind # "accept")
            => Authors(v, "accept") = Members(v)

\* _snapshot's filter: whoever is shown another author's report of any version, old,
\* cancelled or completed, is shown it after every participant's initial report is in;
\* so no initial report was written by someone who could read a peer's.
InitialsAreIndependent ==
    \A v \in 1 .. latest, c \in Callers :
        (\E e \in Visible(v, c) : e.author # c) => Authors(v, "initial") = Participants(v)

\* submit_coordination and _advance: a completed version has one final report, by its
\* result owner, and no round was skipped on the way: in rounds mode everyone spoke in
\* every configured round, in a threaded discussion with rounds everyone spoke.
FinalIsEarned ==
    \A v \in 1 .. latest : row[v].status = "completed" =>
        /\ Entries(v, "final") = {[kind |-> "final", author |-> row[v].spec.owner, round |-> 0]}
        /\ Authors(v, "initial") = Participants(v)
        /\ row[v].spec.mode = "rounds" =>
              \A r \in 1 .. row[v].spec.rounds : SpokeIn(v, r) = Participants(v)
        /\ row[v].spec.mode = "threaded" /\ row[v].spec.rounds > 0 =>
              Authors(v, "discussion") = Participants(v)

\* _revision and the revision of a replacement: a caller whose snapshot carries the
\* current revision knows the current version, its row and all its entries, so the
\* fence, even the replacement's, which compares no version, admits no stale decision.
FenceIsExact ==
    latest > 0 =>
        \A c \in Callers : seen[c].row.revision = row[latest].revision => seen[c] = Snapshot(latest)

\* The protocol is fenced, across replacements, retries and stale snapshots: nothing
\* happens before every member agreed to this version, no initial report is written by
\* somebody who saw another's, and no call acts on a state it has not read.
ProtocolIsFenced == TypeOK /\ NothingBeforeAgreement /\ InitialsAreIndependent /\ FenceIsExact

\* The turn budget of a threaded discussion, and the slots of all reports: a peer
\* never has two reports in one slot nor more discussion reports than its budget.
TurnsAreBounded ==
    \A v \in 1 .. latest, s \in Sessions :
        /\ Cardinality({e \in Entries(v, "initial") : e.author = s}) <= 1
        /\ Cardinality(Spoken(v, s)) <= IF row[v].spec.mode = "threaded" THEN row[v].spec.turns
                                                                         ELSE row[v].spec.rounds

\* The phases leave no version stuck: before its deadline an open version always waits
\* for an acceptance, a report, a final or an advance that its state allows.
AlwaysAWayForward ==
    latest > 0 /\ IsOpen(latest) =>
        \/ row[latest].status = "planned" /\ Members(latest) # Authors(latest, "accept")
        \/ \E s \in Sessions : MayReport(latest, s) \/ MayDiscuss(latest, s)
        \/ Agreed(latest) \/ InitialsIn(latest) \/ FinalReady(latest)
        \/ RoundSpoken(latest) /\ NextRound(row[latest]) <= MaxRound

\* A discussion is earned and never stuck: with zero, one or more rounds, shared or
\* threaded, a final report comes after everyone's turns, nobody exceeds its budget, and
\* some member can always move on.
DiscussionIsEarned == FinalIsEarned /\ TurnsAreBounded /\ AlwaysAWayForward

\* The append-only history: what a caller can be shown of a version is never taken
\* back, a settled version never moves again, and a version's scope never changes.
HistoryIsKept ==
    [][\A v \in 1 .. latest :
        /\ \A c \in Callers : Visible(v, c) \subseteq Visible(v, c)'
        /\ row[v].status \notin OPEN => row'[v] = row[v] /\ entries'[v] = entries[v]
        /\ row'[v].spec = row[v].spec /\ row'[v].requester = row[v].requester]_vars

------------------------------------------------------------
(* What the repository says and the code does not do.                      *)

\* docs/MCP.md on the phases: with zero discussion rounds a version is ready for its
\* final report at round 0.
ZeroRoundsAreReadyAtZero ==
    \A v \in 1 .. latest :
        FinalReady(v) /\ row[v].spec.rounds = 0 => row[v].round = 0

=============================================================================
