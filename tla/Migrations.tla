----------------------------- MODULE Migrations -----------------------------
(* The migration runner and its ledger (storage/migrations.py,             *)
(* storage/migration_ledger.py, storage/migration_registry.py).  Every     *)
(* entry point of every process runs run_migrations(apply=True); its lock  *)
(* is a thread lock, so two processes, possibly of different builds, go    *)
(* through one ledger at once, each deciding on the copy it read first.    *)
(* A ledger write and a delta are transactions of their own, and a process *)
(* may die between any two of them.                                        *)
EXTENDS Integers, FiniteSets

CONSTANTS Runners,      \* processes
          Builds,       \* builds of the program
          Newest,       \* the build with the longest corpus
          Ids,          \* migrations 1..n, in corpus order; 1 is the baseline
          Ships,        \* build -> the migrations of its corpus
          Implements,   \* build -> backend -> the migrations with an implementation there
          Covered,      \* migrations whose target state the baseline provisions
          MaxSetbacks   \* bound: deaths and failed executions

\* Migrations are added as new numbered deltas and never edited; one without an implementation
\* for an engine is covered by the baseline, or no build gets past it there; and a later build
\* implements nothing for an engine behind what an earlier one has run on it.
ASSUME MigrationsAssumption ==
    /\ Newest \in Builds /\ 1 \in Ids /\ Ids \subseteq Nat \ {0} /\ Covered \subseteq Ids \ {1} /\ MaxSetbacks \in Nat
    /\ Ships[Newest] = Ids
    /\ \A b \in Builds : /\ 1 \in Ships[b] /\ Ships[b] \subseteq Ids
                         /\ \A m \in Ships[b], earlier \in Ids : earlier < m => earlier \in Ships[b]
    /\ \A b \in Builds, e \in {"sqlite", "postgresql"} :
         /\ Implements[b][e] \subseteq Ships[b] \cap Implements[Newest][e] /\ Ships[b] \ Implements[b][e] \subseteq Covered
         /\ \A m \in Implements[b][e], earlier \in Implements[Newest][e] : earlier < m => earlier \in Implements[b][e]

VARIABLES backend,      \* the engine of the store
          birth,        \* the deltas the store was born with
          schema,       \* the deltas in the live schema
          shape,        \* the ledger table: "none", "old" (before checksums) or "new"
          ledger,       \* migration -> its row
          runner,       \* process -> where its run is
          setbacks
migrationVars == <<backend, birth, schema, shape, ledger, runner, setbacks>>

Backends == {"sqlite", "postgresql"}
NoRow == [status |-> "absent", checksum |-> "none", origin |-> "none"]
LegacyRow == [status |-> "null", checksum |-> "none", origin |-> "none"]
Idle == [at |-> "idle", build |-> Newest, next |-> 1, view |-> [m \in Ids |-> NoRow],
         executed |-> FALSE, verified |-> FALSE]

MigrationTypeOK ==
    /\ backend \in Backends /\ schema \subseteq Ids /\ shape \in {"none", "old", "new"}
    /\ ledger \in [Ids -> [status : {"absent", "null", "running", "failed", "applied", "skipped"},
                           checksum : {"none", "body", "unimplemented"},
                           origin : {"none", "runner", "legacy-adopted", "legacy-unproven"}]]
    /\ \A m \in Ids : ledger[m].status = "skipped" <=> ledger[m].checksum = "unimplemented"
    /\ \A p \in Runners : runner[p].at \in {"idle", "ensure", "adopt", "read", "decide", "execute", "finish",
                                            "failed", "verify", "ready", "refused", "drift"}
    /\ setbacks \in 0..MaxSetbacks

\* A store nobody used, or one the pre-checksum runner wrote: on SQLite its rows ran,
\* on any other engine they are sentinels and the tables came from elsewhere.
MigrationInit ==
    /\ backend \in Backends
    /\ \E rows \in SUBSET (Ids \ {1}) :
        /\ shape = IF rows = {} THEN "none" ELSE "old"
        /\ ledger = [m \in Ids |-> IF m \in rows THEN LegacyRow ELSE NoRow]
        /\ birth \in IF rows = {} THEN {{}} ELSE IF backend = "sqlite" THEN {rows} ELSE SUBSET rows
    /\ schema = birth
    /\ runner = [p \in Runners |-> Idle]
    /\ setbacks = 0

----------------------------------------------------------------------------
Supports(b, m) == m \in Implements[b][backend]
ChecksumFor(b, m) == IF Supports(b, m) THEN "body" ELSE "unimplemented"
EffectiveStatus(row) == IF row.status = "null" THEN "applied" ELSE row.status
Settled(row) == EffectiveStatus(row) \in {"applied", "skipped"}
Reapplicable(b, m, row) == EffectiveStatus(row) = "skipped" /\ Supports(b, m)

\* The findings of _analyze_ledger that are errors, and the checksum test of every settled row.
Fatal(b, rows) ==
    \/ \E m \in Ids \ Ships[b] : rows[m] # NoRow
    \/ \E m \in Ships[b] :
        /\ rows[m] = NoRow
        /\ \E later \in Ships[b] : later > m /\ Settled(rows[later]) /\ rows[later].checksum # "none"
    \/ \E m \in Ships[b] :
        /\ Settled(rows[m]) /\ ~Reapplicable(b, m, rows[m])
        /\ rows[m].checksum \notin {"none", ChecksumFor(b, m)}

Proceed(p, place) == runner' = [runner EXCEPT ![p].at = place]

\* A call enters the runner: the history is refused before anything is written.
Preflight(p) ==
    /\ runner[p].at \in {"idle", "ready"}
    /\ \E b \in IF runner[p].at = "ready" THEN {runner[p].build} ELSE Builds :
        runner' = [runner EXCEPT ![p] = [Idle EXCEPT !.build = b, !.verified = runner[p].verified,
                                         !.at = IF Fatal(b, ledger) THEN "refused" ELSE "ensure"]]
    /\ UNCHANGED <<backend, birth, schema, shape, ledger, setbacks>>

\* The ledger is created, or gains its columns ...
EnsureColumns(p) ==
    /\ runner[p].at = "ensure"
    /\ shape' = "new"
    /\ Proceed(p, IF shape = "new" THEN "read" ELSE "adopt")
    /\ UNCHANGED <<backend, birth, schema, ledger, setbacks>>
\* ... and rows of before say that they are applied.
AdoptStatus(p) ==
    /\ runner[p].at = "adopt"
    /\ ledger' = [m \in Ids |-> [ledger[m] EXCEPT !.status = IF @ = "null" THEN "applied" ELSE @]]
    /\ Proceed(p, "read")
    /\ UNCHANGED <<backend, birth, schema, shape, setbacks>>

\* The copy every later decision of this call is taken on.
ReadLedger(p) ==
    /\ runner[p].at = "read"
    /\ runner' = [runner EXCEPT ![p].at = "decide", ![p].view = ledger]
    /\ UNCHANGED <<backend, birth, schema, shape, ledger, setbacks>>

\* The corpus of the build, one migration after another.
Pending(p) == {m \in Ships[runner[p].build] : m >= runner[p].next}
Due(p) == CHOOSE m \in Pending(p) : \A other \in Pending(p) : m <= other
Deciding(p) == runner[p].at = "decide" /\ Pending(p) # {}
Advance(p, wrote) == runner' = [runner EXCEPT ![p].at = "decide", ![p].next = Due(p) + 1,
                                              ![p].executed = @ \/ wrote]
Recorded(m, status, checksum, origin) ==
    ledger' = [ledger EXCEPT ![m] = [status |-> status, checksum |-> checksum, origin |-> origin]]

\* A settled row: verified, or adopted for what it is worth on this engine.
SettleRecorded(p) ==
    /\ Deciding(p)
    /\ LET b == runner[p].build
           m == Due(p)
           row == runner[p].view[m]
       IN /\ Settled(row) /\ ~Reapplicable(b, m, row)
          /\ \/ /\ row.checksum = "none"
                /\ IF ~Supports(b, m) THEN Recorded(m, "skipped", "unimplemented", "legacy-unproven")
                   ELSE IF backend = "sqlite" THEN Recorded(m, "applied", "body", "legacy-adopted")
                   ELSE Recorded(m, "applied", "body", "legacy-unproven")
                /\ Advance(p, FALSE)
             \/ /\ row.checksum = ChecksumFor(b, m)
                /\ Advance(p, FALSE) /\ UNCHANGED ledger
             \/ /\ row.checksum \notin {"none", ChecksumFor(b, m)}
                /\ Proceed(p, "refused") /\ UNCHANGED ledger
    /\ UNCHANGED <<backend, birth, schema, shape, setbacks>>

Unsettled(p) ==
    LET row == runner[p].view[Due(p)] IN ~Settled(row) \/ Reapplicable(runner[p].build, Due(p), row)

\* Nothing runs on this engine: recorded as skipped when the baseline covers it, else refused.
Skip(p) ==
    /\ Deciding(p) /\ Unsettled(p) /\ ~Supports(runner[p].build, Due(p))
    /\ IF Due(p) \in Covered
       THEN Recorded(Due(p), "skipped", "unimplemented", "runner") /\ Advance(p, TRUE)
       ELSE Proceed(p, "refused") /\ UNCHANGED ledger
    /\ UNCHANGED <<backend, birth, schema, shape, setbacks>>

\* Inserted, or written over whatever another process recorded since.
BeginAttempt(p) ==
    /\ Deciding(p) /\ Unsettled(p) /\ Supports(runner[p].build, Due(p))
    /\ Recorded(Due(p), "running", "body", "runner")
    /\ Proceed(p, "execute")
    /\ UNCHANGED <<backend, birth, schema, shape, setbacks>>

\* One write transaction.  The deltas test what they add, so one that ran before changes
\* nothing; the baseline provisions the tables an empty store lacks.
Execute(p) ==
    /\ runner[p].at = "execute"
    /\ schema' = schema \cup {Due(p)} \cup IF Due(p) = 1 /\ birth = {} THEN Covered ELSE {}
    /\ Proceed(p, "finish")
    /\ UNCHANGED <<backend, birth, shape, ledger, setbacks>>
ExecuteFails(p) ==
    /\ runner[p].at = "execute" /\ setbacks < MaxSetbacks
    /\ setbacks' = setbacks + 1
    /\ Proceed(p, "failed")
    /\ UNCHANGED <<backend, birth, schema, shape, ledger>>

Finish(p, m, status) == ledger' = [ledger EXCEPT ![m].status = status]
FinishApplied(p) ==
    /\ runner[p].at = "finish"
    /\ Finish(p, Due(p), "applied") /\ Advance(p, TRUE)
    /\ UNCHANGED <<backend, birth, schema, shape, setbacks>>
FinishFailed(p) ==
    /\ runner[p].at = "failed"
    /\ Finish(p, Due(p), "failed")
    /\ runner' = [runner EXCEPT ![p] = Idle]
    /\ UNCHANGED <<backend, birth, schema, shape, setbacks>>

BugVerifySchema(p) ==
    /\ runner[p].at = "decide" /\ Pending(p) = {}
    /\ LET looks == runner[p].executed
           current == Ships[runner[p].build] \subseteq schema
       IN runner' = [runner EXCEPT ![p].at = IF looks /\ ~current THEN "drift" ELSE "ready",
                                   ![p].verified = ~looks \/ current]
    /\ UNCHANGED <<backend, birth, schema, shape, ledger, setbacks>>
\* The live schema against the declared models, once per process unless something ran.
VerifySchema(p) ==
    /\ runner[p].at = "decide" /\ Pending(p) = {}
    /\ LET looks == runner[p].executed \/ ~runner[p].verified
           current == Ships[runner[p].build] \subseteq schema
       IN runner' = [runner EXCEPT ![p].at = IF looks /\ ~current THEN "drift" ELSE "ready",
                                   ![p].verified = ~looks \/ current]
    /\ UNCHANGED <<backend, birth, schema, shape, ledger, setbacks>>

\* The process dies, or its call raised: it is started again, perhaps as another build.
Restart(p) ==
    /\ \/ runner[p].at \in {"refused", "drift"} /\ UNCHANGED setbacks
       \/ /\ runner[p].at \notin {"idle", "refused", "drift"} /\ setbacks < MaxSetbacks
          /\ setbacks' = setbacks + 1
    /\ runner' = [runner EXCEPT ![p] = Idle]
    /\ UNCHANGED <<backend, birth, schema, shape, ledger>>

RunnerStep(p) ==
    \/ EnsureColumns(p) \/ AdoptStatus(p) \/ ReadLedger(p) \/ SettleRecorded(p) \/ Skip(p)
    \/ BeginAttempt(p) \/ Execute(p) \/ FinishApplied(p) \/ FinishFailed(p) \/ VerifySchema(p)
MigrationNext == \E p \in Runners : Preflight(p) \/ RunnerStep(p) \/ ExecuteFails(p) \/ Restart(p)

----------------------------------------------------------------------------
\* A row that says applied is a delta that committed, whatever died in between and whoever
\* else wrote the row: only a row of the old runner on an engine it never ran on may lie, and
\* such a row is labelled (FinishApplied after Execute; _legacy_adoption).
Proven(m) == ledger[m].origin = "runner" \/ backend = "sqlite"
AppliedIsReal == \A m \in Ids : EffectiveStatus(ledger[m]) = "applied" /\ Proven(m) => m \in schema

\* The runner adds a delta only to a schema that has every earlier one this engine can run,
\* however stale the copies are that the processes decide on (run_migrations's corpus order).
InOrder ==
    \A m \in schema \ (birth \cup Covered) : \A earlier \in Implements[Newest][backend] :
        earlier < m => earlier \in schema \/ ~Proven(earlier)

\* A process that goes on to serve has every object its build declares, even when it skipped,
\* adopted or left migrations to another process (_verify_schema and its cache).
ReadyMeansCurrent == \A p \in Runners : runner[p].at = "ready" => Ships[runner[p].build] \subseteq schema

\* No death, failure or race leaves a ledger the newest build refuses: every store can still
\* be brought forward (the fatal findings of _analyze_ledger, MigrationChecksumError).
NewestNeverRefused == \A p \in Runners : runner[p].at = "refused" => runner[p].build # Newest

\* However processes of one build race, fail and die: the ledger tells the truth about the
\* schema, deltas keep their order, who serves has its schema, and no store is wedged.
LedgerIsTrue ==
    MigrationTypeOK /\ AppliedIsReal /\ InOrder /\ ReadyMeansCurrent /\ NewestNeverRefused
=============================================================================
