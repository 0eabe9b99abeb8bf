# brains, specified

TLA+ models of the coordination control plane of `brains` (`src/brains`), the TLC
configurations that check them on small instances, and TLAPS proofs of what matters
most for every instance. Paths below are relative to the repository's `src/brains`.

## 1. The system

`brains` lets several coding agents and the people behind them work in the same
Workspaces. The agents are other programs; `brains` holds the state they coordinate
through: one SQLite database, a few files, and three kinds of process that use them:
the HTTP gateway, the MCP server and every command-line call. There is no central
loop. Each call opens a transaction, changes rows and returns, and a maintenance tick
of the MCP server sweeps what has expired. Interleavings therefore come from callers
in different processes, from calls that read before they lock, and from processes that
die between two transactions.

SQLite admits one writer at a time. A call that writes (or reserves the writer) before
it reads is one atomic step of a model; a call that reads first and writes later is
split where the code leaves the window open. Postgres adapters exist and are withdrawn
(`docs/ARCHITECTURE.md`), so the models follow the SQLite paths.

### Components

| Component | State | Operations | What is hard | Module |
|---|---|---|---|---|
| Sessions (`control/sessions.py`, `session_liveness.py`) | Session rows, leases, successor links | start with reuse and succession, heartbeat, report a state, end, reap, sweep, link | reaper and start read before they lock; leases lapse under a working holder | Sessions |
| Claims and tasks (`control/claims.py`, `tasks.py`) | one claim per Workspace, task rows with dependencies | claim, release, expire; create, claim, complete, release, hand off | ownership must follow the owner's end, dormancy and succession | Sessions |
| Session commands (`control/session_commands.py`, `exec/session_dispatch.py`) | a queue per Session | enqueue, claim, settle, release, expire, cancel | a late acknowledgement against a new claim; a Session that ends meanwhile | SessionCommands |
| Work assignments (`control/work_assignments.py`) | assignment rows, attempts | create, accept, settle, cancel, retry, reconcile | lock-free reconciliation; cancellation races a completion | WorkAssignments |
| Peer coordination (`control/coordination.py`) | proposal versions, append-only contributions | propose, replace, accept, advance, report, cancel | callers act on old snapshots; blinded first reports; several ways to run a discussion | Coordination |
| Durable mailbox (`control/durable_mailbox.py`) | mailbox row, attachments, intents, a secret in a file | register, resume, detach; create, rotate, recover, revoke and reconcile a binding | file and database cannot change together; crashes in between | DurableMailbox |
| Durable mail (`control/durable_mail.py`) | deliveries, cursors, notification attempts | send with retries, read, wait, take and settle nudges | retried sends, several readers, claims that expire | DurableMail |
| SMTP copies (`control/durable_smtp.py`) | outbox rows, a verified destination | request, verify, claim, send, settle, recover | a send that outlives its lease; an outcome that cannot be recorded | SmtpCopies |
| Peer help (`control/help.py`) | requests, offers, answers | ask (blocking or not), claim, answer, release, cancel, expire | read in one transaction and change in the next; two deadlines | Help |
| Handoffs (`control/handoffs.py`) | one active handoff per Workspace | set, pick, clear, age | pick and clear read without a lock | Handoffs |
| Topic boards (`control/topics.py`) | posts, one cursor per subscription and topic | post, subscribe, read, unsubscribe, take over | one id space over all topics, bounded pages | Topics |
| Governed actions (`govern`, `exec/gate.py`), asks (`control/decisions.py`) | action rows with attempts, approval requests | reserve, ask, resolve, spend, execute, beat, complete, sweep | retries by several processes, stalls past a lease, approvals spent once | Governance |
| Audit chain (`audit`) | signed head, hash chain | append, verify, adopt, two-phase effects | concurrent appends; a crash between effect and record | Audit, Ledger |
| Realtime events (`events`, `api/ws.py`, `frontend/src/realtime`) | event rows, a bus per process, a tab's cursor | publish, replay, prune, subscribe, reconnect | hand-over from replay to live; several processes | Realtime |
| Credential store (`authz/credentials.py`) | credential rows, key files, two caches per process | resolve, adopt, issue, remove, revoke | adoption over files that change, in two transactions | Credentials |
| Runtimes and enrolment (`control/runtimes.py`, `enrolment.py`) | one row per tool, tokens, Runtime credentials | mint, redeem, register, heartbeat, sweep, revoke | the owner of a machine is read before it is written | Machines |
| Issue dispatch and the daemon (`control/issue_evidence.py`, `assignments.py`, `daemon`) | Issues, their Sessions, the daemon's own threads | assign, dispatch, poll, claim, run, report, acknowledge, stop, reconcile | lost answers, crashes, stale lists of what is owned | SpawnQueue |
| Integration deliveries and webhooks (`control/integration_deliveries.py`, `github.py`, `webhooks.py`, `recurring.py`) | delivery keys, recurring runs | claim, act, settle, release; look up, fire, record | redelivery, death between effect and record | Deliveries |
| Migrations (`storage/migrations.py`, `migration_ledger.py`) | schema, ledger | preflight, bootstrap, adopt, attempt, execute, finish, verify | a crash inside a migration; two processes, two builds | Migrations |
| Integrity (`storage/integrity.py`) | the rows of a store | find, plan, repair in phases and passes | one pass makes work for the next | Integrity |
| Backup and restore (`backup`) | database file, write-ahead log, archives | back up, restore, roll back, repair | a file replaced under its log and its writers | Recovery |
| Supervisor (`control/supervisor.py`) | child processes, threads, stop flags | start, watch, restart, shut down | three threads and two flags without a lock | Supervisor |
| Native service (`service/macos.py`, `common.py`) | the job, the PID file | unload, verify, signal, wait, clean up | supervisors come and go while it waits; PIDs are reused | ServiceStop |
| Wiring of clients (`wire`) | another program's settings file, a journal, two files beside it | wire, unwire, recover | the file is edited by others at any time; four files cannot change together | SettingsFile, PidLock |
| OpenCode lifecycle (`control/opencode_lifecycle.py`) | a managed mailbox and the Sessions of one native session | message, deletion | every event is a process of its own that may die; a lock made of a file | OpenCode, PidLock |
| Knowledge, snapshots, legacy messages, queue health, the wiring of plugins and manifests, MCP tools, HTTP API, console, classifier, authorization tables | rows or nothing of their own | one control call each | little | none |

At this commit `docs/ARCHITECTURE.md:104-111` calls the execution model, automation, the
model edge, advanced context and alternate services withdrawn: not mounted, registered
or packaged. The parts of them that other code still rests on (Runtimes, the daemon, the
spawn queue, deliveries, SMTP copies) are modelled as the code stands; the others are not.

### How they interact

Sessions are in the middle. Almost every operation first asks `require_live_session`
whether its caller may act, and ends with `append_event`, which renews the caller's
lease. The transitions that end a Session or make it dormant release its claim and
tasks and detach its mailbox in the same transaction; a succession moves claim and
tasks on. Work assignments read the Session and lease of an attempt's source. Durable
mail is read through the mailbox attachment, and its nudges die with the attachment.
The operator reaches assignments, coordination and mail through calls of their own
that no Session backs.

## 2. Modules

A `.tla` file per component, an `MC` module per small instance, a `Proofs` module where
theorems are proved. Action names are the names of the functions they model. Every step
is one transaction (or one system call) of one process; a call that reads in one
transaction and writes in the next is two actions, with what it read in a variable.

**Ownership.** *WorkAssignments*: `row` and `attempts` are the two tables, `sessions` the
state and lease of each Session, `now` the clock. Every mutation reserves SQLite's writer
first and is one action; `reconcile_assignment_attempts` takes no lock and is four, with
`reconciler` holding what it has read. *Sessions*: one Workspace: `session`, `lease`,
`quiet`, `alive`, `successor`, `claim`, `task`. Handles are Sessions without a process,
agents have one. `call` is the call in progress (the reap that claim and start begin
with, the choices `start_session` makes on rows it read earlier). *SessionCommands*: the
queue of one Session; operators between read and insert, consumers with the lease they
were given, the expiry and the cancellation between their read and their writes. `agent` is
the consumer that holds the handle of the running process, `exited` the one that holds that of
an exited process and has not noticed; any other consumer is answered `not_owned`.

**Talking.** *Coordination*: one proposal code, `row` and `entries` by version, and
`seen`, the last snapshot each caller was given, whose version and revision are its only
fence. *DurableMailbox*: the row, attachments, the intent row `trans`, the binding `file`
and the step each process is at; `Crash` kills a process between any two, `FileLost`
loses the file from outside. *DurableMail*: one recipient, with the human senders whose
lookup precedes their transaction and a waiting client's `floor`. *Help*: requests whose
claim, answer, release and cancellation read first, both deadlines, and the blocking
`ask_peer`. *Handoffs* and *Topics*: one table each. *SmtpCopies*: the outbox with
processors that die, stall and outlive leases.

**Authority and record.** *Governance*: `row`, `ask`, the calling processes with the
tier of their own call (the row's is only reported), people with a half-written answer, a sweep with a row it has read, and the history of `effects`.
*Audit*: rows, signed head, the write lock, appenders, a verifier. A hash is the sequence
it commits to, a signature the triple it signs. *Ledger* is the abstract specification:
entries are only ever added at the end, and none once some were lost. `AppendOnly` shows
that Audit implements it under a refinement mapping. *Realtime*: the event log, the bus,
one socket, the wire and a tab with one cursor. *Credentials*: files, rows, the source
cache, negative cache and synced fingerprint of each process.

**Machines.** *Machines*: one machine, its tools, tokens and callers. *SpawnQueue*: one
Issue, the Sessions opened for it, daemons, dispatchers and the hub's half-done requests.
*Deliveries*: one delivery key, and one webhook of one recurring task.

**Custody of the store and the host.** *Migrations*: processes of several builds over one
ledger. *Integrity*: one row for each kind of table the repair treats differently;
`Damage` says which parts of the store may be damaged together.
*Recovery*: a store of two pages over a file and its write-ahead frames, one operator's
command and a service that writes. *Supervisor*: one Child with its threads; the signal comes at
any of their points. *ServiceStop*: supervisors with PIDs the system reuses, and one stop
whose programs (`launchctl`, `ps`, `/bin/kill`) and looks at the PID file are a step each, so
that a PID or the file may change hands between any two (`raced` records that it did). *SettingsFile*: the settings file of
another program, the journal, the displaced bytes, the backup and the manifest around it,
and processes that install or remove our hook, one file at a time. *OpenCode*: one native
session; `hook` is the event, the step and the Session each short-lived process is at.
*PidLock*: the lock file both of them take, with the look at its owner apart from the
unlinking of a stale one.

**Composition.** `Sessions` is the composition of Sessions, claims and tasks, `Governance`
of actions and asks, `DurableMail` of inbox and attachment, `Deliveries` of the delivery
row and the world it acts on. `OpenCode` instances DurableMailbox, whose operations its
processes run step by step, and PidLock; `SettingsFile` instances PidLock too. The
remaining modules do not share variables: each keeps the
part of a Session its component looks at (a lease, a liveness flag, a life). What they
assume of Sessions, that one which ended never becomes live again and that ending and
dormancy are atomic with their releases, is what `Sessions` checks and proves. The MC
modules run several such components in one instance, one of them moving at a time while
the others rest in their initial state; no run claims anything about their interplay.

Abstractions in common: titles, bodies, evidence and payloads are one opaque value or left
out; a secret and its hash are one number; authorization, visibility across Workspaces,
views and log lines are left out. An operation that would be refused is disabled, and a
replay that changes nothing is a read or a stutter. Counters are capped in guards by the
constants named `Max...`.

## 3. What is checked

A run's properties are conjunctions of named parts, each with its own definition and
comment. Every property is shown able to fail: `PROJECT.json` pairs it with a mutant
(`Bug...`) of a definition that models code.

| Run | Properties and their parts |
|---|---|
| `work_assignments` | **TypeOK**. **AttemptsAreFenced**: one unresolved attempt, agreeing with its row; the lock-free reconciliation writes only on what it read; requested cancellation is never answered by a completion. **ShownIsTrue**: what a reader is told (source available, may cancel) is what would succeed. **RevisionsAreHistory**: no change without a new revision, and a settled attempt stays settled. |
| `sessions` | **OwnershipIsSound**: nothing is held by an ended or dormant Session; no task starts before what it depends on. **LifecycleStands**: holdings leave only by release or succession; links and ends are final. **CommandsAreSound**: one open stop; a stop is never inert. **CommandsStand**: a settled command is never rewritten and only its holder reports. **NothingIsHeldForEver** (liveness): a silent handle keeps neither claim nor task, and every command settles. |
| `agents` | OwnershipIsSound and LifecycleStands for a process-bound Session, with the reaper's read and write apart, and for two tasks with every dependency text. |
| `coordination` | **ProtocolIsFenced**: nothing before agreement, first reports are independent, a fenced call is never stale. **DiscussionIsEarned**: every round was earned, turns are bounded, an open version has a way forward. **HistoryIsKept**: nothing shown is taken back. **MailboxIsBound**: without an open intent the file proves the mailbox; one writer; one attachment. **MailIsAccounted**: one delivery per operation, nothing skipped behind a floor, nudges are about unread mail. **MailboxStands**: no takeover from a reachable Session, a version names a secret, first reads and outcomes stand. |
| `governance` | **EffectsAreSound**: every effect was approved by an ask of its own, it ran once unless its owner overran its lease, and its row tells the truth. **RecordStands**: a live execution is not abandoned, a settled action stays. **OrphansAreSettled** (liveness): what a dead process left is settled. |
| `console` | **CursorIsSafe**: no event owed to the tab lies behind its cursor. **EventuallyApplied** (liveness): each is applied or the tab told to reset. **SessionsSettle** (liveness): every Session the hub shows running is settled. |
| `boards` | **ChainIsSound**: one linear chain, damage shows, an effect has evidence. **AppendOnly**: Audit implements Ledger. **HelpIsSound**: one worker per request, and the asker is told. **AsksReturn** (liveness): blocking asks return. **BoardsAreSound**: one active handoff, handed over once; no post skipped; a copy leaves once and its row is honest. **SlowReadersDoNoHarm**: no false alarm of a verification; finished requests stay finished; a claim shields its request. |
| `fleet` | **MachinesAreSound**: one Org per machine, one credential per token. **QueueIsSound**: one agent at work unless somebody reopened the Issue. **DeliveriesAreSound**: one handler at its effect, which happens once and is what the row says. **LateWritesDoNoHarm**: sweeps, reconciliations and late handlers settle nothing newer than what they read. |
| `platform` | **LedgerIsTrue**: the ledger matches the schema, order is kept, who serves has its schema. **HostIsHonest**: one process per Child; a stop reports the truth (`StopIsTrue`) and strikes only what it recorded, except where the PID changed hands after the last `ps` (`OnlyTheRecorded`). **HostRecordsStand**: a revocation and an issue survive somebody else's stale step, and so does a PID record but for one written between the read back and the unlink (`ReplacementKept`). **Supervised** (liveness): dead and deaf processes are replaced, a signal ends it all but a process it passed over while that was being started (`Survivor`). |
| `custody` | **FilesAreSafe**: a verified rollback point is what the replacement takes away (`RecoveryIsSound`); the latest edit of a settings file is in the file, beside it or in the backup; a hook of ours can be told from anybody's and what a manifest promises to put back is there; a native session has one reachable Session and none once its deletion was acknowledged. **CustodyStands**: an archive is the store at one instant, a refused restore is undone, a repair's archive is what was repaired. **RepairIsSound**: the repair ends within two passes, ends clean, gives up no durable row it was not told to and guesses nothing. |

Two runs look for a counterexample to a sentence of the repository, and find one; each is
a finding with its quotation in `PROJECT.json`.

| Run | The repository says | The code does |
|---|---|---|
| `effect_once` | "A retry does not duplicate the effect" (`govern/__init__.py:26`) | `mark_executing` compares neither status nor attempt: an owner that outlived its lease runs the effect a retry has run |
| `restore_takes_effect` | the attempt entry "survives in the pre-restore database rather than in the restored one" (`cli/app.py:4439`) | the file is replaced under the write-ahead log of the command's own connection, whose pages then lie over the restored file |

### Divergences met while modelling

Definitions under *What the repository says and the code does not do* at the end of a
module state such sentences. They are properties the code does not have, and no run
checks them. Where a property of a run meets such a case, its formula excepts it by a
variable named below, and nothing else.

- `FreshActivityWins` (`control/sessions.py:315`): the reaper writes on rows read earlier and
  ends a Session that has become active. `EndedMovesWithState` (`:386`): reuse writes
  `running` on a handle that ended between the query and the lock.
- `UncertainStaysUnresolved` (`control/work_assignments.py:8`): past the deadline the
  reconciliation settles uncertain attempts.
- `ZeroRoundsAreReadyAtZero` (`docs/MCP.md:397`): a threaded discussion with zero rounds
  opens at round 1.
- `EndedIsDetached` (`docs/ARCHITECTURE.md:156`): a settlement attaches a Session that ended
  while the file was written. `ReconcileConverges` (`control/durable_mailbox.py:1425`): an
  empty file left by a crash inside its creation blocks every later reconciliation.
- `PickedUpLater` (`events/store.py:34`): an event committed by another process is not
  announced here, and the next announced one carries the tab's cursor past it.
- `FreshKeyIsAdopted` (`authz/credentials.py`): a key that missed while another process
  wrote it can stay in a stale cache.
- `StopHolds` (`finalize_session`): the daemon's acknowledgement reopens the Issue of a
  Session that was stopped.
- `put_back` (`wire/__init__.py:545-550`: "its displaced bytes are retained and restored when
  safe", or the call fails "instead of discarding either version") compares the file and then
  exchanges it: an edit in between is discarded with the displaced file (`overrun`).
- "signal only the recorded process instance" (`service/macos.py:174`): the `ps` that verifies
  and the `/bin/kill` are two programs, and a PID that is handed on between them is struck
  (`struck.raced` in ServiceStop).
- "Do not follow or discard a replacement supervisor's PID record" (`service/macos.py:248`): a
  record written between the read back and the unlink is removed, as the docstring of
  `cleanup_stale_pidfile` admits (`service/common.py:977-978`: "not an atomic
  compare-and-unlink").
- "SIGTERM / SIGINT propagation for graceful shutdown" (`control/supervisor.py:17`): a `stop()`
  that runs between the test of `_stop` and the assignment of the new process ends nothing, and
  the supervisor waits for that process as long as it lives (`overlooked` in Supervisor).
- The "Fail-closed cross-process lock" (`wire/__init__.py:668`) lets two in when both found the
  same stale owner and one unlinks the other's new file (`crowded`); so does `_native_lock`
  (`opencode_lifecycle.py:46`, "Serialize one native identity"), where a file whose PID is not
  written yet counts as stale (`paired`). Then an acknowledged deletion can leave a live
  Session on a retired mailbox.
- `OwnArchiveServes` (`cli/app.py:4672`): `db repair --apply --backup X` cannot succeed, as the
  command's own attempt entry changes the store before the freshness check.

Smaller observations, kept out of the properties by a named condition:

- `replay` reads the earliest row and the page in two statements; a prune between them is
  the `raced` events of Realtime. A cursor of 0 means no cursor.
- A restart, or a death between claim and `open_session`, strands an Issue
  `in_progress`; a leftover spawning row blocks it elsewhere; a concurrent dispatch
  reopens a running Issue (`reopened`), and `block_issue` writes over a review.
- A retry of a governed action may come with another tier than the row reports: nothing
  compares them, and each call is approved by its own.
- A lost acknowledgement makes a command execute again; a delivery left `processing`
  waits for an operator's release; a webhook fires twice when redelivered before its row
  is there (`excused`), which `storage/models.py:1813` denies.
- `clear_handoff` overwrites a pick; a Session's message cursors merge by maximum.
- Two builds can wedge one ledger for the older; a migration said to be rolled back
  may have been committed by a process that died.
- A supervisor that leaves removes the PID file without a look at whose it is; the watcher does not escalate a SIGTERM that is ignored.
- What is written between a restore's rollback check and `os.replace` is lost, and
  the message after a failed check says that the rollback was restored when there was none.
- `verify_smtp_destination` takes a code while a copy is on its way; a batch of copies reads
  the clock once, so that a late claim has lapsed when it is given.
- A crash that leaves a binding file partial makes `attach_opencode_session` report
  "proof-unavailable" from then on, though the plugin's comment says that missed events
  "still converge through lease expiry and the next awaited turn"; the deletion of a native
  session whose Session is dormant is refused and retires nothing.
- A death between the plugin file and its manifest leaves a plugin that is "not
  Brains-managed" to the next wire; some deaths leave a settings file "recovery-required"
  until somebody removes the journal.
- A daemon's `heartbeat_once` says online and so undoes a drain; registrations after a redeemed
  token's commit may fail; an unreachable incarnation of a mailbox is replaced without
  closing its attempts.

### Bounds, and why they are enough

Each instance has two of whatever can race (callers, processes, daemons, handlers,
operators) and three where a bystander matters (Sessions in coordination, secrets of
a mailbox). Counters allow one repetition of what may repeat: two attempts, two
versions, one release, one retry more than succeeds.

- *Work assignments.* Six revisions cover create, accept, cancel, settle, retry, accept;
  the requests are a budget without a deadline and one cut short by it; keys share
  nothing but the clock. No deadlock check, as clock and revisions stop.
- *Sessions.* Lengths 0 and 1 separate "expires now" from "has time left". The agent is
  recorded on another machine, so the reaper may take it whether it runs or not.
  `SecondTaskAlone` keeps the second task out of states with a handle: dependencies and
  succession meet only in `MoveOwnership`, which changes no status. Two commands, two
  claims; `CommandsApart` lets the second come with fewer races, keeps presses
  and expiries, which touch different commands, apart in time, lets a Session end once its
  agent is gone, and leaves the handle of an agent that exited by itself alone with one
  command and one consumer at work.
- *Coordination.* The specifications take the owner inside and outside the panel, zero to
  two rounds, both modes. `ReplacesScopes` lets two of them be replaced, as a
  replacement looks at nothing of its predecessor's. The view `Staleness` identifies
  states that differ in how a stale snapshot is stale: it passes no fence.
- *Mailbox and mail.* Two processes are an operation and a reconciliation; two deliveries
  are what a floor can skip between; two requests share an operation key.
  `TwoOfOneKind` keeps two deliveries and two attachments apart.
- *Governance.* Two processes on one key and a gate on its own, two attempts, two asks.
  `InTurn` orders interchangeable processes and people; `GatesAlone`: a gate shares only
  the sweep.
- *Console.* Four events with a retention of two and pages of two: one event is pruned
  under a cursor, one page is partial. `RealtimeApart` and `DispatchApart` limit how much
  happens at once, not what.
- *Boards.* Six audit entries are both appenders' attempt and outcome, a genesis and one more;
  two requests with depth 1 ask in a circle. `Apart` collects one bound per component.
- *Fleet, platform, custody.* Two tokens, tools, handlers; three migrations of which one is
  skipped on an engine; three starts, two PIDs for two supervisors and strangers; six
  versions of a page. `OneBuild` keeps processes that migrate at one time to one build:
  the ledger a mixed pair leaves is an observation above. The repair begins with any
  damage to any three parts of the store (the Workspace with its Orgs, the Session, the claim,
  each record, the decision, the note), and with any to all parts but the Workspace and the
  Session (`Damaged`): a note, a claim and an ended Session damaged together are what a
  deletion cascades through. The theorem is for every `Damage`. `HandsApart`: of three processes that wire or unwire two
  contend at a time, with four edits and deaths between them, or one where two got into the
  lock, which is what takes three processes. Two Sessions, two secrets and one death of a
  hook: a successor, a rotation of nothing (hooks never rotate), a crash at each step.

Symmetry is used in `coordination`, `fleet` and `custody`, which check no liveness; components
that never move together share model values, so a permutation is one of each.

### Fairness

None is asked of agents, operators or people: that somebody stops calling is the case.

- *Sessions*: time passes, and `sweep_stale_session_leases` runs; the MCP server's
  maintenance loop (`mcp/server.py:407`) and every `start_session` call it.
- *SessionCommands*: a consumer's poll loop goes on, a lease runs out, the expiry every poll
  begins with runs, a request that began ends.
- *Governance*: the same maintenance loop runs the sweep, and time passes.
- *Realtime*: the socket's two tasks go on; the client's timer reconnects and a frame
  that arrives is handled.
- *Help*: `ask_peer` polls until its own deadline; deadlines are times.
- *SpawnQueue*: the daemon's thread goes on; a daemon that runs reconciles again and again
  (strong fairness, as each run may be lost); a Session grows old.
- *Supervisor*: threads are scheduled; probes and processes take their course.

At rest a component has no fair step enabled, so the fairness of one says nothing of
another in the same run.

## 4. What is proved

Every theorem holds for all values of the constants that meet the assumptions named in
the component's module. They say that sentinels (no Session, no file, no owner) are not
members of the sets they stand beside, that bounds and lengths are natural numbers, and
what the code enforces of its own settings: a discussion has two to eight participants, a
page has room for a post, a request a deadline. Constants are only capped where a guard
caps them; nothing is assumed about how many Sessions, processes or messages there are.

**WorkAssignmentsProofs**: `TypeCorrect`, `OneLiveAttempt`, `CancellationFences` and
`ReconcilerKnowsItsTarget`, together `AttemptsFenced`; `RevisionsNameStates` and
`HistoryStands`; `ShownTrue`. The inductive invariant joins types, the agreement of row and
attempts, the cancellation fence, and what the reconciliation may rely on. The last part is
needed because its write happens long after its read; it is preserved because whatever
changes a row moves its revision, so the compare-and-set fails on everything the
reconciliation has not seen (`RevisionFencesReconciler`).

**SessionsProofs**: `OwnershipHolds` (types, awake owners, dependencies first), and
`EndingIsFinal`, `NothingIsStolen` and `SuccessionIsFinal`, together `LifecycleIsFinal`.
The invariant says what a start or a reap in progress still knows of the handle it chose
(`CallKnows`: a handle read as ended is ended), that tasks are minted in order, and that
what is in progress has an owner. Without `CallKnows` a start working on what it read
could make an ended handle live. Of SessionCommands it proves
`CommandsHold` and `CommandsStay`: sequence numbers and stop
epochs are handed out without gaps, and an operator obtains an epoch only when every
earlier stop is settled: that is what makes the unique key on (Session, epoch) leave one
stop open, although the press reads before it inserts. Whoever holds a row made its latest
claim, so an acknowledgement that comes after another claim finds that it lost the row.
`HeldSessionHolds` states both for the composition that the run `sessions` checks.

**CoordinationProofs**: `TypeCorrect`, `FenceExact`, `AgreementFirst`, `Independence`,
together `ProtocolFenced`; `HistoryKept`; `TurnsInOrder` and `DiscussionEarned`. Every
mutation is a `Write` of the newest version or a `Create` of the next one, so the invariant
is on a row with its entries (`Good`: they agree on the phase) and on snapshots
(`SeenLags`: none is ahead, and one that is level is equal). The discussion needs the
entries of each phase counted (`AllEarned`): shared rounds are complete before the next
one opens, threaded turns are numbered from one, and a budget that is spent ends them.

**DurableMailboxProofs**: `TypeCorrect`, `FileProvesMailbox`, `OneWriter`, `OneAttachment`,
together `MailboxBound`; `VersionsNameSecrets`, `ReachableKeepsMailbox`; of the inbox
`MailAccounted`; and `MessagingKept`, the two side by side. That the file proves the
mailbox speaks of states without an open intent; the invariant adds what an open intent
guarantees (`IntentOK`: the row still holds the old secret, and the file holds the old one,
the new one, or nothing readable). The inbox adds that a floor never passes its end; a page
is closed below (who is in it has all its unread predecessors in it), so nothing unread is
left behind; and a nudge only moves forward (`NudgesMove`), closed ones not at all.

**GovernanceProofs**: `EffectsHold` and `RecordsStand`. The invariant is in three parts: types
(`Typed`), that every effect of an outward action was approved by a person on an ask its own
process filed and that an ask is spent once (`Approved`), both without exception; and, as
long as nobody overran its lease, that every call is in step with its row (`InStep`: who is
engaged with a key owns it, two never do, a row says executing only while its owner knows,
and the sweep's row is still as it was read or out of its reach). That an effect happens
once and its row tells the truth follows from the third part and is therefore claimed short
of an overrun, whose counterexample is the run `effect_once`.

**BoardsProofs**: `BoardsHold` and `SlowReadersAreSafe`, from the parts.
`ChainHolds`, `NoAlarmIsFalse`: rows are linked from the genesis on, the head commits to a
beginning of them until rows are lost and to all of them unless an append stands between its
two writes, and what an appender claims under the lock is fresh. `LedgerIsKept`: *Audit
implements Ledger*, step by step: every action of Audit is an extension, a loss, or a
stutter of the abstract ledger. `HelpHolds`, `HelpStands`: a caller between its read and its
change knows of the row what no other call can undo. `HandoffsHold`: the active one is the
newest, and is stamped when picked. `TopicsHold`: a cursor is the greatest post ever returned
below which nothing was left out. `CopiesHold`: an attempt that left has its claim's number,
and a claim's number is never given twice. That a set of numbers has a least and a greatest
member is shown by well-foundedness, as induction over data is out of reach.

**PlatformProofs**: `HostStaysHonest`, `HostRecordsHold` and `HostLedgersAreTrue`, from the
parts. `OneProcessAtATime`: only the newest start can be alive, and nothing is at the points
from which another one is started (`SuperInv`). `StopsAreTrue`: a PID belongs to one
supervisor that runs (`PidsApart`), so what the system says of a recorded PID tells whether its
supervisor is gone. Since a supervisor that is gone does not come back, one seen to be over
stays so until the stop judges by it and removes its file (`RecordsAreTrue`). The signal and
the unlink are the two steps that rely on more, on nothing having changed since the last look:
unless `raced` says that something did, nobody else has the PID, and the file is the one read
back or gone (`LooksHold`). The theorems claim no more than that a signal or a removal goes
astray there and nowhere else (`ServiceInv`). `RevocationsStand`: step by step from the types. `LedgersAreTrue`: processes
decide on old copies of the ledger, and what keeps them from harm is that a row which was
there before the runner (`Inherited`) is never begun by anybody who supports the migration,
a begun one is never adopted, and nobody goes past a migration that is neither in the
schema nor labelled as unproven (`CopyIsApt`, `PassedAre`, `AttemptIsApt`). It is claimed
for processes of one build at a time (`[]OneBuild`, a hypothesis of the theorem and a
constraint of the run), and from `MigrationsAssumption`: a corpus only grows at its end, no
implementation is withdrawn, and none is added later for an engine *behind* one that
already ran there. The code does not test the last one: a delta that the baseline covers
and that gained an implementation for PostgreSQL only after later deltas had run would run
behind them.

The same module proves the custody of what is kept outside one transaction.
`RepairsAreSound`: whatever parts of the store `Damage` lets be damaged together, all of them
included, the first pass of a repair leaves only what it can have caused itself (a Workspace whose Org it removed, a claim of a Session
it ended, a reply to a record it deleted), and the second leaves nothing, so a third finds
nothing to do and is never begun (`RepairInv`).
`CommandsAreHonest` and `NothingIsLost`: a repair holds the write lock from its archive to
its commit, and a restore keeps its rollback point until it is through (`RecoveryInv`); of
the settings file, unless two processes got into the lock or somebody wrote between the
look and the put-back, one process is inside, what it knows depends on its step, the journal,
the manifest, the backup and the settings agree with each other, and an edit from outside is
newer than anything recorded (`SettingsInv`). `IntegrityAssumption` says that the markers
`None` and `Gone` are no rows, that the Orgs are finitely many, and that `Damage` is about
parts of the store. Of a native session
`OpenCodeInv` has two parts. That its mailbox is bound (`BoxInv`: the file proves it, one
writer, one attachment) holds whoever is inside the lock of the hooks, since the intent row
admits one of them. The rest is claimed until two hooks have been inside (`paired`): every
reachable Session of an active identity is the attached one, which is the latest; what a
retired identity leaves reachable is the latest at most (`IdentityAgrees`), and that is the
one a deletion run again finds and ends; and each step of the hook inside has something to
rely on (`Relies`: a revocation that is settled concerns the Session it will finalize, a
registration finds nobody else attached). Hooks that die are covered: the invariant says of
an intent whose it is or was (`IntentIsOwned`). `OpenCodeAssumption` says that Sessions are
numbered in the order of their birth.

**FleetProofs**: `FleetIsSound`, `LateWritesAreHarmless` and `ConsoleIsSound`, from the parts. `OneOrgHolds`:
whoever declares to own the machine or holds a live credential for it is the same Org
(`OneClaimant`), since a claim read before the write lock only says what to try and the one
read under it decides; and what a sweep read is silent still or was heard of (`SweepIsApt`).
`HandledOnceHolds`: short of an attempt released under its handler, whoever is engaged with
a key is alone and the row says *processing* with its attempt (`OneEngaged`), and what a
completed key stands for has happened (`EffectIsSaid`); tasks in the making are counted
against the runs recorded for them (`RunsLead`). `OneAgentHolds`: until the Issue is opened
under an agent, one daemon is at work and the Issue is not open; a name of a Session is one
daemon's, and no settlement is about to end the Session of an agent, for one that is asked
for finds it too young (`AgentsAreSafe`). The last rests on the assumption of `Age`, that
the grace is longer than a request waits to be served.

`CursorHolds`: the tab keeps one cursor for all its topics, and everything but a reset moves
it to the greatest number it saw. So the invariant (`RealtimeInv`) speaks of what is
*outstanding*: owed to the tab, not applied, and not one of the two exceptions, which are
events of another process and events pruned between the two reads of a replay. Four parts
carry it. *It is on its way* (`OnItsWay`): an outstanding event is on the wire or behind a
reset there, in the queue of the socket, being announced, or about to be read by a replay
that speaks for the whole connection. *Nothing overtakes it* (`WireInOrder`, `QueueInOrder`):
whatever would move the cursor past it, a live frame, a receipt, an entry of the queue, comes
behind it or behind a reset, or is a frame of a batch that speaks for some topics only and
moves nothing (`Quiet`). *Who resumes begins before it* (`AsksBegin`): the tab's cursor,
and every cursor it asked with on this connection, is below it. *What is acknowledged is
held* (`TopicsAreHeld`): the hub publishes to the socket what the tab counts on, which takes
the references of `unsubscribe` and `subscribe` that are still under way. A live event is left
out of the queue's delivery when a batch carried it; `DeliveredIsSent` says that the batch is
on the wire then. A batch is a finite set of rows in their order (`InOrderFacts`,
`BatchFacts`, `FramesFacts`); what a frame moves is stated once per kind of frame.
`RealtimeAssumption` says that there are topics and that bounds are natural numbers.

With this every invariant and every action property that a passing run checks is stated by
a theorem. Only model-checked: all liveness, and `ENABLED`, which the provers do not treat.

## 5. What is not modelled

`PROJECT.json` lists every component with its reason, and under *partly* what a module
leaves out of its component. In short: text, ranking, layout and command-line
classification are data without control; adapters (MCP tools, HTTP routes, CLI) are one
call each; authorization is a table; SQLite, the file system and processes are external
and appear through how the code uses them. Withdrawn code is modelled only where other
code rests on it; the withdrawn Postgres adapters, and with them advisory locks, are not.

Adapters, rendering, wiring and withdrawn features are most of the implementation's
lines: the modules translate the state machines, and the share of lines they map stays
far below the share of state changes they cover.

Queue health (`control/queue_health.py`) repairs by calling sweeps that are modelled with
their components; the reviewers of `control/help_execution.py` are withdrawn at this commit.

A crash between a transaction and the events or views written after it loses a line of
history and no state, and is left out. So are two processes creating the audit key file at
once and a death inside the rotation of the admin key.

## 6. Plan

1. The feedback inbox and the routing of approvals; membership and operator administration;
   the rotation of the admin key; the tick of recurring tasks.
2. A composition of Sessions with DurableMailbox and SessionCommands over one life of a
   Session, in place of the copy each keeps of it.
