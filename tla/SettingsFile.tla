---------------------------- MODULE SettingsFile ----------------------------
(***************************************************************************)
(* The hook that wire and unwire put into and take out of a settings file  *)
(* that belongs to another program (wire/__init__.py: _wire_wakeup,        *)
(* _unwire_wakeup, _transactional_replace).  The other program, or a       *)
(* person, edits the file whenever it likes and takes no lock; the         *)
(* processes here take one, keep a journal, and may die between any two    *)
(* steps.  A digest is the content it stands for.                          *)
(***************************************************************************)
EXTENDS Integers

CONSTANTS
    Hands,      \* processes that wire and unwire
    Nobody,
    MaxEdits,   \* bound: edits from outside
    MaxDeaths   \* bound: processes that die

ASSUME HandsAssumption == Nobody \notin Hands /\ MaxEdits \in Nat /\ MaxDeaths \in Nat

VARIABLES
    settings,  \* settings.json: the last edit it holds, and whether our hook is in it
    journal,   \* transaction.json
    displaced,   \* displaced-settings.bin: first what is to be put in place, then what was displaced
    backup,    \* prior-settings.bin
    manifest,  \* manifest.json: what was there before and what was installed
    hand,      \* per process: the operation, its step, what it expects and what it wants
    handLock, handAt, handAlive,
    edits, deaths,
    latest,    \* the last edit from outside, 0 once somebody outside deleted the file
    placed,    \* is the file as this code put it there
    crowded,   \* two processes have been inside the lock
    overrun    \* an edit came between the last look at the file and its putting back

fileVars == <<settings, journal, displaced, backup, manifest>>
handVars == <<fileVars, hand, handLock, handAt, handAlive, edits, deaths, latest, placed, crowded, overrun>>

Lock == INSTANCE PidLock WITH Contenders <- Hands, NoOwner <- Nobody, BlankIsStale <- FALSE,
                              lock <- handLock, at <- handAt, alive <- handAlive

Absent == [text |-> -1, hook |-> FALSE]
NoJournal == [op |-> "none", expected |-> Absent, desired |-> Absent]
NoManifest == [prior |-> Absent, installed |-> Absent]
NoOperation == [op |-> "none", step |-> "none", expected |-> Absent, desired |-> Absent]

\* The document that was read, or an empty one, with the hook appended.
WithHook(content) == [text |-> IF content = Absent THEN 0 ELSE content.text, hook |-> TRUE]

Entry(p) == [op |-> hand[p].op, expected |-> hand[p].expected, desired |-> hand[p].desired]
Doing(p, op, step) == handAt[p] = "in" /\ hand[p].op = op /\ hand[p].step = step
GoTo(p, step) == hand' = [hand EXCEPT ![p].step = step]
Over(p) == GoTo(p, "over")

Outside == UNCHANGED <<handLock, handAt, handAlive, edits, deaths, latest, crowded, overrun>>
Still == UNCHANGED fileVars /\ UNCHANGED placed

\* The journal's operation was carried out and only its record is missing.
CarriedOut == settings = journal.desired /\ displaced = journal.expected
\* The journal's operation was not begun.
NotBegun == settings = journal.expected /\ displaced = Absent

-----------------------------------------------------------------------------
\* wire: what was left behind is completed or dropped, otherwise the file is read.
install_check(p) ==
    /\ Doing(p, "install", "check")
    /\ LET dropped == journal.op = "install" /\ NotBegun /\ manifest = NoManifest
           goes ==
             IF manifest # NoManifest
             THEN IF manifest.installed = settings /\ journal.op = "install" /\ CarriedOut THEN "uncapture" ELSE "over"
             ELSE IF journal = NoJournal \/ dropped THEN "read"
             ELSE IF journal.op = "install" /\ CarriedOut THEN "backup" ELSE "over"
       IN  /\ hand' = [hand EXCEPT ![p] = IF goes = "backup"
                 THEN [@ EXCEPT !.step = goes, !.expected = journal.expected, !.desired = journal.desired]
                 ELSE [@ EXCEPT !.step = goes]]
           /\ journal' = IF goes = "read" THEN NoJournal ELSE journal
    /\ UNCHANGED <<settings, displaced, backup, manifest, placed>> /\ Outside

\* prepare reads the bytes that are expected and then the document.
prepare(p) ==
    /\ \/ /\ Doing(p, "install", "read")
          /\ hand' = [hand EXCEPT ![p] = [@ EXCEPT !.expected = settings, !.step = "document"]]
       \/ /\ Doing(p, "install", "document")
          /\ hand' = [hand EXCEPT ![p] = [@ EXCEPT !.desired = WithHook(settings),
                                                   !.step = IF settings.hook THEN "over" ELSE "journal"]]
    /\ Still /\ Outside

\* unwire: needs the manifest and the backup it promises, or the end of an earlier removal.
remove_check(p) ==
    /\ Doing(p, "remove", "check")
    /\ LET goes ==
             IF manifest = NoManifest THEN IF journal.op = "remove" /\ CarriedOut THEN "unbackup" ELSE "over"
             ELSE IF manifest.prior # Absent /\ backup # manifest.prior THEN "over"
             ELSE IF journal.op = "remove" /\ CarriedOut THEN "late_unbackup"
             ELSE IF journal # NoJournal /\ ~(journal.op = "remove" /\ NotBegun) THEN "over"
             ELSE IF manifest.installed # settings THEN "over" ELSE "journal"
       IN  /\ hand' = [hand EXCEPT ![p] = [@ EXCEPT !.step = goes, !.expected = settings, !.desired = manifest.prior]]
           /\ journal' = IF journal.op = "remove" /\ NotBegun /\ goes \in {"journal", "over"} /\ manifest # NoManifest
                            /\ (manifest.prior # Absent => backup = manifest.prior)
                         THEN NoJournal ELSE journal
    /\ UNCHANGED <<settings, displaced, backup, manifest, placed>> /\ Outside

-----------------------------------------------------------------------------
\* _transactional_replace

Transacts(p, step) == Doing(p, "install", step) \/ Doing(p, "remove", step)
NextStep(p) == IF hand[p].op = "install" THEN "backup" ELSE "unmanifest"

write_journal(p) ==
    /\ Transacts(p, "journal")
    /\ IF journal = NoJournal \/ (journal = Entry(p) /\ NotBegun)
       THEN journal' = Entry(p) /\ GoTo(p, "swap")
       ELSE /\ UNCHANGED journal
            /\ GoTo(p, IF journal = Entry(p) /\ CarriedOut THEN NextStep(p) ELSE "over")
    /\ UNCHANGED <<settings, displaced, backup, manifest, placed>> /\ Outside

\* No file was there: it is created, unless somebody else has created one.
create(p) ==
    /\ Transacts(p, "swap") /\ hand[p].expected = Absent
    /\ IF settings = Absent
       THEN settings' = hand[p].desired /\ placed' = TRUE /\ GoTo(p, "verify") /\ UNCHANGED journal
       ELSE journal' = NoJournal /\ Over(p) /\ UNCHANGED <<settings, placed>>
    /\ UNCHANGED <<displaced, backup, manifest>> /\ Outside

\* No file was there before the install: it is moved away.
take_away(p) ==
    /\ Transacts(p, "swap") /\ hand[p].expected # Absent /\ hand[p].desired = Absent
    /\ IF settings # Absent
       THEN displaced' = settings /\ settings' = Absent /\ placed' = TRUE /\ GoTo(p, "verify") /\ UNCHANGED journal
       ELSE journal' = NoJournal /\ displaced' = Absent /\ Over(p) /\ UNCHANGED <<settings, placed>>
    /\ UNCHANGED <<backup, manifest>> /\ Outside

write_replacement(p) ==
    /\ Transacts(p, "swap") /\ hand[p].expected # Absent /\ hand[p].desired # Absent
    /\ displaced' = hand[p].desired /\ GoTo(p, "exchange")
    /\ UNCHANGED <<settings, journal, backup, manifest, placed>> /\ Outside

\* _exchange_files fails on a file that has gone.
exchange(p) ==
    /\ Transacts(p, "exchange")
    /\ IF settings # Absent
       THEN settings' = displaced /\ displaced' = settings /\ placed' = TRUE /\ GoTo(p, "verify") /\ UNCHANGED journal
       ELSE displaced' = Absent /\ journal' = NoJournal /\ Over(p) /\ UNCHANGED <<settings, placed>>
    /\ UNCHANGED <<backup, manifest>> /\ Outside

\* Was the displaced file the expected one, and is the wanted one in place?
AsPlanned(p) == settings = hand[p].desired /\ (hand[p].expected = Absent \/ displaced = hand[p].expected)

verify(p) ==
    /\ Transacts(p, "verify")
    /\ GoTo(p, IF AsPlanned(p) THEN NextStep(p)
               ELSE IF settings = hand[p].desired /\ displaced # Absent THEN "put_back" ELSE "over")
    /\ Still /\ Outside

put_back(p) ==
    /\ Transacts(p, "put_back")
    /\ IF hand[p].desired # Absent /\ settings = Absent THEN UNCHANGED <<settings, displaced, journal, placed>>
       ELSE /\ journal' = NoJournal
            /\ IF hand[p].desired # Absent \/ settings = Absent
               THEN settings' = displaced /\ displaced' = Absent /\ placed' = FALSE
               ELSE UNCHANGED <<settings, displaced, placed>>
    /\ Over(p)
    /\ UNCHANGED <<backup, manifest>> /\ Outside

-----------------------------------------------------------------------------
\* What follows a replacement, one file at a time.

Displaced(p) == IF hand[p].expected = Absent THEN Absent ELSE displaced

write_backup(p) ==
    /\ Doing(p, "install", "backup")
    /\ backup' = IF Displaced(p) # Absent THEN Displaced(p) ELSE backup
    /\ GoTo(p, "manifest")
    /\ UNCHANGED <<settings, journal, displaced, manifest, placed>> /\ Outside

write_manifest(p) ==
    /\ Doing(p, "install", "manifest")
    /\ manifest' = [prior |-> Displaced(p), installed |-> hand[p].desired]
    /\ GoTo(p, "uncapture")
    /\ UNCHANGED <<settings, journal, displaced, backup, placed>> /\ Outside

unlink_manifest(p) ==
    /\ \/ Doing(p, "remove", "unmanifest") /\ GoTo(p, "unbackup")
       \/ Doing(p, "remove", "late_unmanifest") /\ GoTo(p, "uncapture")
    /\ manifest' = NoManifest
    /\ UNCHANGED <<settings, journal, displaced, backup, placed>> /\ Outside

\* A removal that is completed later unlinks the backup before the manifest.
unlink_backup(p) ==
    /\ \/ Doing(p, "remove", "unbackup") /\ GoTo(p, "uncapture")
       \/ Doing(p, "remove", "late_unbackup") /\ GoTo(p, "late_unmanifest")
    /\ backup' = Absent
    /\ UNCHANGED <<settings, journal, displaced, manifest, placed>> /\ Outside

\* _finish_transaction
_finish_transaction(p) ==
    /\ \/ Transacts(p, "uncapture") /\ displaced' = Absent /\ UNCHANGED journal /\ GoTo(p, "unjournal")
       \/ Transacts(p, "unjournal") /\ journal' = NoJournal /\ UNCHANGED displaced /\ Over(p)
    /\ UNCHANGED <<settings, backup, manifest, placed>> /\ Outside

-----------------------------------------------------------------------------
Begins(p, op) ==
    /\ handAlive[p] /\ handAt[p] = "out"
    /\ op = "remove" => manifest # NoManifest \/ journal # NoJournal
    /\ hand' = [hand EXCEPT ![p] = [NoOperation EXCEPT !.op = op, !.step = "check"]]
    /\ handAt' = [handAt EXCEPT ![p] = "waiting"]
    /\ Still /\ UNCHANGED <<handLock, handAlive, edits, deaths, latest, crowded, overrun>>

TakesLock(p) ==
    /\ Lock!Contends(p)
    /\ crowded' = (crowded \/ \E q, r \in Hands : q # r /\ handAt'[q] = "in" /\ handAt'[r] = "in")
    /\ Still /\ UNCHANGED <<hand, handAlive, edits, deaths, latest, overrun>>

Ends(p) ==
    /\ \/ hand[p].step = "over" /\ Lock!Leaves(p)
       \/ Lock!GivesUp(p)
    /\ hand' = [hand EXCEPT ![p] = NoOperation]
    /\ Still /\ UNCHANGED <<handAlive, edits, deaths, latest, crowded, overrun>>

Dies(p) ==
    /\ handAlive[p] /\ handAt[p] # "out" /\ deaths < MaxDeaths
    /\ deaths' = deaths + 1
    /\ hand' = [hand EXCEPT ![p] = NoOperation]
    /\ handAt' = [handAt EXCEPT ![p] = "out"]
    /\ handAlive' = [handAlive EXCEPT ![p] = FALSE]
    /\ Still /\ UNCHANGED <<handLock, edits, latest, crowded, overrun>>

\* Another process; its PID is not one that the lock file still names.
Restarts(p) ==
    /\ ~handAlive[p] /\ handLock.by # p
    /\ handAlive' = [handAlive EXCEPT ![p] = TRUE]
    /\ Still /\ UNCHANGED <<hand, handLock, handAt, edits, deaths, latest, crowded, overrun>>

\* The program the file belongs to writes it, with our hook or without, or deletes it.
EditedOutside ==
    /\ edits < MaxEdits
    /\ edits' = edits + 1
    /\ \/ \E hook \in {FALSE, settings.hook} :
             settings' = [text |-> edits + 1, hook |-> hook] /\ latest' = edits + 1
       \/ settings # Absent /\ settings' = Absent /\ latest' = 0
    /\ placed' = FALSE
    /\ overrun' = (overrun \/ \E p \in Hands : Transacts(p, "put_back"))
    /\ UNCHANGED <<journal, displaced, backup, manifest, hand, handLock, handAt, handAlive, deaths, crowded>>

Works(p) ==
    \/ install_check(p) \/ prepare(p) \/ remove_check(p)
    \/ write_journal(p) \/ create(p) \/ take_away(p) \/ write_replacement(p) \/ exchange(p) \/ verify(p) \/ put_back(p)
    \/ write_backup(p) \/ write_manifest(p) \/ unlink_manifest(p) \/ unlink_backup(p) \/ _finish_transaction(p)

SettingsInit ==
    /\ settings = Absent /\ latest = 0 /\ edits = 0
    /\ journal = NoJournal /\ manifest = NoManifest /\ displaced = Absent /\ backup = Absent
    /\ hand = [p \in Hands |-> NoOperation]
    /\ handLock = Lock!Free /\ handAt = [p \in Hands |-> "out"] /\ handAlive = [p \in Hands |-> TRUE]
    /\ deaths = 0 /\ placed = FALSE /\ crowded = FALSE /\ overrun = FALSE

SettingsNext ==
    \/ \E p \in Hands : Begins(p, "install") \/ Begins(p, "remove") \/ TakesLock(p) \/ Works(p)
                        \/ Ends(p) \/ Dies(p) \/ Restarts(p)
    \/ EditedOutside

-----------------------------------------------------------------------------
Shared == crowded \/ overrun

\* The latest edit from outside is never lost: while _transactional_replace, its recovery or
\* its removal runs, dies or fails, the edit is in the file, in the displaced file or in the backup.
EditsSurvive == latest # 0 /\ ~Shared => \E c \in {settings, displaced, backup} : c.text = latest

\* A hook this code put there can always be told from anybody's: the manifest or the journal
\* names the file that holds it, so that unwire or a later wire knows it.
HookIsNamed ==
    settings.hook /\ placed /\ ~Shared =>
        \/ manifest.installed = settings
        \/ journal.desired = settings
        \/ journal.op = "remove" /\ journal.expected = settings

\* What a manifest promises to put back is there, but for a removal that is being completed.
PriorIsKept == manifest.prior # Absent /\ ~Shared => backup = manifest.prior \/ journal.op = "remove"
=============================================================================
