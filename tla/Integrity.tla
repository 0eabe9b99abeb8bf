----------------------------- MODULE Integrity -----------------------------
(* The repair of a store (storage/integrity.py): under the write lock,     *)
(* findings are observed, the deterministic ones are planned and executed  *)
(* in phases, and the plan is made again until nothing is left to do.      *)
(*                                                                         *)
(* One row stands for each kind the repair treats differently: a Workspace *)
(* and its optional Org; a Session; a claim, which is a lease; records,    *)
(* which need their Workspace and may reply to each other; a decision,     *)
(* which needs its record; and a note, which only points at others.        *)
EXTENDS Integers, FiniteSets

CONSTANTS Records, Orgs, None, Gone,
          Damage        \* which parts of the store may be damaged together

\* What a store is made of: the Workspace with its Orgs, and the rows.
Parts == {"org", "session", "claim", "decision", "note"} \cup Records

ASSUME IntegrityAssumption ==
    /\ None # Gone /\ {None, Gone} \cap (Records \cup Orgs \cup {"default", "session", "session_end", "session_reaped"}) = {}
    /\ "session" \notin Records /\ IsFiniteSet(Orgs) /\ Damage \subseteq SUBSET Parts

MAX_REPAIR_PASSES == 4

VARIABLES db,       \* the rows
          saved,    \* ... as the transaction found them
          repair    \* the repair: its phase, its passes, whether orphans may go, the tables it looks at
integrityVars == <<db, saved, repair>>

TERMINAL_SESSION_STATES == {"completed", "failed"}
NoClaim == [held |-> FALSE, by |-> None, expired |-> FALSE]
NoSession == [there |-> FALSE, home |-> TRUE, state |-> "running", ended |-> FALSE, dated |-> TRUE, event |-> None]
NoRecord == [there |-> FALSE, home |-> TRUE, reply |-> None]
Sound == [orgs |-> {"default"}, org |-> "default", session |-> NoSession, claim |-> NoClaim,
          record |-> [r \in Records |-> NoRecord], decision |-> None, note |-> None]

\* What a Session, a Workspace and its claim may look like; and what records may.
SessionRows == {NoSession} \cup
    [there : {TRUE}, home : BOOLEAN, state : {"running"} \cup TERMINAL_SESSION_STATES, ended : BOOLEAN,
     dated : BOOLEAN, event : {None, "session_end", "session_reaped"}]
ClaimRows == {NoClaim} \cup [held : {TRUE}, by : {"session", Gone}, expired : BOOLEAN]
RecordRows == {NoRecord} \cup [there : {TRUE}, home : BOOLEAN, reply : Records \cup {None, Gone}]
DecisionRefs == Records \cup {None, Gone}
NoteRefs == Records \cup {None, Gone, "session"}

\* Orgs, the Workspace by its Org, and the rest.
Tables == DOMAIN Sound

IntegrityTypeOK ==
    /\ db.orgs \subseteq Orgs \cup {"default"} /\ db.org \in Orgs \cup {"default", None, Gone}
    /\ db.session \in SessionRows /\ db.claim \in ClaimRows /\ db.record \in [Records -> RecordRows]
    /\ db.decision \in DecisionRefs /\ db.note \in NoteRefs
    /\ repair.at \in {"idle", "passing", "committed", "refused"} /\ repair.passes \in 0..MAX_REPAIR_PASSES
    /\ repair.looks \subseteq Tables

AtRepair == [at |-> "idle", passes |-> 0, orphans |-> FALSE, looks |-> Tables]

\* A part that may be damaged is any of its rows, sound ones included.
Of(parts, part, rows, sound) == IF part \in parts THEN rows ELSE {sound}
IntegrityInit ==
    /\ \E parts \in Damage :
         \E orgs \in Of(parts, "org", SUBSET (Orgs \cup {"default"}), Sound.orgs),
            session \in Of(parts, "session", SessionRows, Sound.session),
            claim \in Of(parts, "claim", ClaimRows, Sound.claim),
            record \in {rows \in [Records -> RecordRows] : \A r \in Records \ parts : rows[r] = Sound.record[r]},
            decision \in Of(parts, "decision", DecisionRefs, Sound.decision),
            note \in Of(parts, "note", NoteRefs, Sound.note) :
         \E org \in Of(parts, "org", orgs \cup {None, Gone}, Sound.org) :
           db = [orgs |-> orgs, org |-> org, session |-> session, claim |-> claim,
                 record |-> record, decision |-> decision, note |-> note]
    /\ saved = db /\ repair = AtRepair

----------------------------------------------------------------------------
(* Diagnosis.                                                              *)

Here(d, r) == r \in Records /\ d.record[r].there
Claimant(d) == d.claim.held /\ d.claim.by = "session" /\ d.session.there
\* foreign_key_violations, per table and parent.
Orphaned(d, table) ==
    CASE table = "org" -> d.org \notin d.orgs \cup {None}
      [] table = "session"   -> d.session.there /\ ~d.session.home
      [] table = "claim"     -> d.claim.held /\ ~Claimant(d)
      [] table = "reply"     -> \E r \in Records : d.record[r].there /\ d.record[r].reply # None /\ ~Here(d, d.record[r].reply)
      [] table = "record"    -> \E r \in Records : d.record[r].there /\ ~d.record[r].home
      [] table = "decision"  -> d.decision # None /\ ~Here(d, d.decision)
      [] table = "note"      -> d.note # None /\ ~Here(d, d.note) /\ ~(d.note = "session" /\ d.session.there)
TableOf(finding) == IF finding = "reply" THEN "record" ELSE finding
\* _finding_foreign_keys: an optional reference can be cleared, a lease dropped; the rest is the operator's.
Deterministic(finding) == finding \in {"org", "claim", "reply", "note"}
ForeignKeys == {"org", "session", "claim", "reply", "record", "decision", "note"}

EndedWithoutState(d) == d.session.there /\ d.session.ended /\ d.session.state \notin TERMINAL_SESSION_STATES /\ d.session.event # None
StateWithoutEnd(d) == d.session.there /\ ~d.session.ended /\ d.session.state \in TERMINAL_SESSION_STATES /\ d.session.dated
\* _resolve_default_org: the default Org, or the only one.
_resolve_default_org(d) ==
    IF "default" \in d.orgs THEN "default" ELSE IF Cardinality(d.orgs) = 1 THEN CHOOSE o \in d.orgs : TRUE ELSE None
OrglessWorkspace(d) == d.org = None /\ (_resolve_default_org(d) # None \/ d.orgs = {})
HeldByEnded(d) == Claimant(d) /\ d.session.ended

\* diagnose: what can be repaired without a guess, among the foreign keys of these tables.
Findings(d, tables, orphans) ==
    {f \in ForeignKeys : TableOf(f) \in tables /\ Orphaned(d, f) /\ (Deterministic(f) \/ orphans)}
    \cup {f \in {"state"} : EndedWithoutState(d)} \cup {f \in {"end"} : StateWithoutEnd(d)}
    \cup {f \in {"orgless"} : OrglessWorkspace(d)}
    \cup {f \in {"expired"} : d.claim.held /\ d.claim.expired} \cup {f \in {"held"} : HeldByEnded(d)}

----------------------------------------------------------------------------
(* Repair, one operator per action; each does what was planned and looks   *)
(* at the rows it meets.                                                   *)

synchronize_terminal_state(d, plan) ==
    IF "state" \notin plan \/ ~EndedWithoutState(d) THEN d
    ELSE [d EXCEPT !.session = [@ EXCEPT !.state = IF d.session.event = "session_reaped" THEN "failed" ELSE "completed"]]
StampEndedAt(d, plan) ==
    IF "end" \notin plan \/ ~StateWithoutEnd(d) THEN d ELSE [d EXCEPT !.session = [@ EXCEPT !.ended = TRUE]]
AssignOrg(d, plan) ==
    IF "orgless" \notin plan \/ d.org # None THEN d
    ELSE IF _resolve_default_org(d) # None THEN [d EXCEPT !.org = _resolve_default_org(d)]
    ELSE [d EXCEPT !.org = "default", !.orgs = @ \cup {"default"}]
ReleaseExpired(d, plan) == IF "expired" \in plan /\ d.claim.expired THEN [d EXCEPT !.claim = NoClaim] ELSE d
ReleaseHeld(d, plan) == IF "held" \in plan /\ HeldByEnded(d) THEN [d EXCEPT !.claim = NoClaim] ELSE d
\* An optional reference into nothing is cleared ...
ToRepair(d, plan, finding) == finding \in plan /\ Orphaned(d, finding)
ClearOrg(d, plan) == IF ToRepair(d, plan, "org") THEN [d EXCEPT !.org = None] ELSE d
ClearNote(d, plan) == IF ToRepair(d, plan, "note") THEN [d EXCEPT !.note = None] ELSE d
WithoutReply(d, r) == IF ~Here(d, d.record[r].reply) THEN [d.record[r] EXCEPT !.reply = None] ELSE d.record[r]
ClearReplies(d, plan) ==
    IF ToRepair(d, plan, "reply") THEN [d EXCEPT !.record = [r \in Records |-> WithoutReply(d, r)]] ELSE d
\* ... and a row that needs what is missing deleted.  descendant_delete_order: optional references
\* into the doomed rows are cleared, rows that need them are deleted, and a table's references into
\* itself are left to the next pass.
DeleteClaim(d, plan) == IF ToRepair(d, plan, "claim") THEN [d EXCEPT !.claim = NoClaim] ELSE d
DeleteDecision(d, plan) == IF ToRepair(d, plan, "decision") THEN [d EXCEPT !.decision = None] ELSE d
DeleteSession(d, plan) ==
    IF ~ToRepair(d, plan, "session") THEN d
    ELSE [d EXCEPT !.session = NoSession, !.note = IF @ = "session" THEN None ELSE @,
                   !.claim = IF Claimant(d) THEN NoClaim ELSE @]
Doomed(d) == {r \in Records : d.record[r].there /\ ~d.record[r].home}
DeleteRecords(d, plan) ==
    IF ~ToRepair(d, plan, "record") THEN d
    ELSE [d EXCEPT !.record = [r \in Records |-> IF r \in Doomed(d) THEN NoRecord ELSE d.record[r]],
                   !.decision = IF @ \in Doomed(d) THEN None ELSE @, !.note = IF @ \in Doomed(d) THEN None ELSE @]

\* plan_repair and _execute_actions: in the order of _ACTION_PHASES, findings by table within the last.
_execute_actions(d, plan) ==
    LET d1 == synchronize_terminal_state(d, plan)
        d2 == StampEndedAt(d1, plan)
        d3 == AssignOrg(d2, plan)
        d4 == ReleaseExpired(d3, plan)
        d5 == ReleaseHeld(d4, plan)
        d6 == DeleteSession(d5, plan)
        d7 == DeleteDecision(d6, plan)
        d8 == ClearNote(d7, plan)
        d9 == ClearReplies(d8, plan)
        d10 == DeleteRecords(d9, plan)
        d11 == DeleteClaim(d10, plan)
    IN ClearOrg(d11, plan)

\* _replan_scope: the tables a pass wrote to, and those that refer to them.
WrittenTables(d, e) == {t \in Tables : d[t] # e[t]}
Children == [orgs |-> {"org"}, org |-> {"session", "claim", "record"}, session |-> {"claim", "note"},
             claim |-> {}, record |-> {"record", "decision", "note"}, decision |-> {}, note |-> {}]
Bug_replan_scope(written) == {}
_replan_scope(written) == written \cup UNION {Children[t] : t \in written}

\* repair_database takes the lock, and what it finds is what it will repair.
repair_database ==
    /\ repair.at = "idle"
    /\ \E orphans \in BOOLEAN : repair' = [AtRepair EXCEPT !.at = "passing", !.orphans = orphans]
    /\ UNCHANGED <<db, saved>>
Plan == Findings(db, repair.looks, repair.orphans)
\* One pass of _converge_within_transaction; one too many refuses the whole repair.
_converge_within_transaction ==
    /\ repair.at = "passing" /\ Plan # {}
    /\ IF repair.passes = MAX_REPAIR_PASSES
       THEN db' = saved /\ repair' = [repair EXCEPT !.at = "refused"]
       ELSE /\ db' = _execute_actions(db, Plan)
            /\ repair' = [repair EXCEPT !.passes = @ + 1, !.looks = _replan_scope(WrittenTables(db, _execute_actions(db, Plan)))]
    /\ UNCHANGED saved
Converged == Plan = {}
Commit ==
    /\ repair.at = "passing" /\ Converged
    /\ repair' = [repair EXCEPT !.at = "committed"] /\ UNCHANGED <<db, saved>>
\* A statement fails, or the process dies: SQLite rolls the transaction back.
Rollback ==
    /\ repair.at = "passing" /\ db' = saved /\ repair' = AtRepair /\ UNCHANGED saved

IntegrityNext == repair_database \/ _converge_within_transaction \/ Commit \/ Rollback

----------------------------------------------------------------------------
\* "Ordering makes one pass enough for the dependencies we know about; the bound exists for the
\* ones we do not" (integrity.py:140): whatever the store holds, the repair ends by itself and not
\* by its bound, and what one pass leaves undone, or brings about, one more settles.
RepairConverges == repair.at # "refused" /\ repair.passes <= 2

\* "Repair until no deterministic finding remains": although only the tables a pass could have
\* broken are looked at again, the full diagnosis after the commit finds nothing it could repair.
CommitIsClean == repair.at = "committed" => Findings(db, Tables, repair.orphans) = {}

\* A durable row goes only if the operator said so and something it needs was already missing.
Lost(r) == saved.record[r].there /\ ~db.record[r].there
DurableRowsStand ==
    /\ \A r \in Records : Lost(r) => repair.orphans /\ ~saved.record[r].home
    /\ saved.session.there /\ ~db.session.there => repair.orphans /\ ~saved.session.home
    /\ saved.decision # None /\ db.decision = None => repair.orphans /\ (~Here(saved, saved.decision) \/ Lost(saved.decision))

\* "Rows whose correct value cannot be derived from stored evidence are never guessed at": what
\* the repair writes into a Session or a Workspace has its evidence in the store.
NothingGuessed ==
    /\ db.session.there /\ db.session.state # saved.session.state => saved.session.event # None
    /\ db.session.there /\ db.session.ended # saved.session.ended => saved.session.dated
    /\ db.org # saved.org /\ db.org # None =>
        saved.orgs = {} \/ db.org = "default" \/ saved.orgs = {db.org}

\* Over every combination of damaged rows in parts that Damage lets be damaged together: the
\* repair ends in two passes, ends clean, gives up no durable row it was not told to, and writes
\* nothing the store does not prove.
RepairIsSound == IntegrityTypeOK /\ RepairConverges /\ CommitIsClean /\ DurableRowsStand /\ NothingGuessed
=============================================================================
