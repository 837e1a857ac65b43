---------------------------- MODULE ObsidianVault ----------------------------
(***************************************************************************)
(* The Obsidian hub (noeticbraid_obsidian): the writer of generated        *)
(* dashboards and create-only records, the ingestion of records, the       *)
(* polled inbox of the user's dropzone, and the one-shot migration of note *)
(* types.  All of them work on the Markdown files of a vault in which the  *)
(* user goes on writing.                                                   *)
(*                                                                         *)
(* The hub runs one call at a time; the migration is a command of its own. *)
(* A page is a path of the vault (an id and a month make a record's path), *)
(* and what is in it is what the user wrote there, whether the line the    *)
(* writer looks for is there, and whether it has a note type of the old    *)
(* contract.  Of a dashboard only what stands under its "Manual notes" is  *)
(* the user's.  The log of synchronizations is left out.                   *)
(***************************************************************************)
EXTENDS Integers, Sequences, FiniteSets

CONSTANTS
    Pages, Zone,        \* the paths and the folder each is in
    PageOrder,          \* the order in which the folders list them
    HeadedRecords,      \* the records that are rendered with a heading for notes
    Batches,            \* what is ingested: sequences of [page, valid]
    MaxVaultCalls,      \* bound on the calls of the hub and the runs of the migration
    MaxWords,           \* bound on the times the user writes
    MaxVaultFaults      \* bound on deaths, failed writes and callbacks that raise

ASSUME VaultAssumption ==
    /\ {MaxVaultCalls, MaxWords, MaxVaultFaults} \subseteq Nat
    /\ Zone \in [Pages -> {"dashboard", "records", "dropzone", "user_raw"}]
    /\ PageOrder \in Seq(Pages) /\ {PageOrder[k] : k \in DOMAIN PageOrder} = Pages
    /\ Batches \subseteq Seq([page : {p \in Pages : Zone[p] = "records"}, valid : BOOLEAN])

VARIABLES
    page,       \* page[p]: the file
    backup,     \* backup[p]: the user's words in the copies the migration made of p
    hub,        \* the call of the hub
    migrant,    \* the run of the migration
    seen,       \* InboxWatcher._seen
    handed,     \* handed[p]: the tasks made of p
    noted,      \* noted[p]: their run records
    vaultPast   \* history: the bounds; own[p], what the user wrote in p; late[p], what of it
                \* was written after somebody read p to replace it; again[p], the reasons to
                \* hand p over once more

vaultVars == <<page, backup, hub, migrant, seen, handed, noted, vaultPast>>

Absent == [there |-> FALSE, text |-> TRUE, heading |-> FALSE, legacy |-> FALSE, said |-> {}]
Empty == [Absent EXCEPT !.there = TRUE]
NoCounts == [written |-> 0, skipped |-> 0, dry_run |-> 0]
HubAtRest == [at |-> "idle", op |-> "none", page |-> "none", put |-> Absent, left |-> <<>>, all |-> <<>>,
              live |-> FALSE, strict |-> FALSE, recorder |-> FALSE, made |-> {}, counts |-> NoCounts]
MigrantAtRest == [at |-> "idle", plan |-> [p \in {} |-> Absent], copied |-> {}, open |-> FALSE]

\* What is there at first is of the old contract, and has something the user wrote.
Older(p) == [Empty EXCEPT !.heading = Zone[p] \in {"dashboard", "records"}, !.legacy = TRUE, !.said = {0}]
VaultWith(old) ==
    /\ page = [p \in Pages |-> IF p \in old THEN Older(p) ELSE Absent]
    /\ backup = [p \in Pages |-> {}] /\ hub = HubAtRest /\ migrant = MigrantAtRest /\ seen = {}
    /\ handed = [p \in Pages |-> 0] /\ noted = handed
    /\ vaultPast = [calls |-> 0, words |-> 0, faults |-> 0, own |-> [p \in Pages |-> page[p].said],
                    late |-> [p \in Pages |-> {}], again |-> handed]
VaultInit == \E old \in SUBSET Pages : VaultWith(old)

\* ModeEnforcer: the folders the hub may write in.
AllowedWritePath(p) == Zone[p] \in {"dashboard", "records"}

Counted == vaultPast.calls < MaxVaultCalls /\ vaultPast' = [vaultPast EXCEPT !.calls = @ + 1]
Fault == vaultPast.faults < MaxVaultFaults /\ vaultPast' = [vaultPast EXCEPT !.faults = @ + 1]

-----------------------------------------------------------------------------
(* VaultWriter.                                                            *)

Putting(op, p, text) == [HubAtRest EXCEPT !.op = op, !.at = "put", !.page = p, !.put = text]
Begins == hub.at = "idle" /\ Counted
ApartFromHub == UNCHANGED <<page, backup, migrant, seen, handed, noted>>

\* preserve_manual_notes: the notes are kept when the file has the heading.
Merged(old, headed) ==
    [Empty EXCEPT !.heading = headed \/ old.heading, !.said = IF old.heading THEN old.said ELSE {}]

\* A dry run stops at the preview.  A body without the heading cannot be merged with a file
\* that has it: the call raises.
WriteDashboard(p, headed) ==
    /\ Begins /\ Zone[p] = "dashboard" /\ (page[p].heading => headed)
    /\ hub' = Putting("dashboard", p, Merged(page[p], headed))
    /\ ApartFromHub

AppendToHeading(p) ==
    /\ Begins /\ AllowedWritePath(p) /\ page[p].there /\ page[p].heading
    /\ hub' = Putting("append", p, page[p])
    /\ ApartFromHub

\* _atomic_write_text: the temporary file takes the place of whatever is there now.
ReplacePage ==
    /\ hub.at = "put"
    /\ page' = [page EXCEPT ![hub.page] = hub.put]
    /\ hub' = IF hub.op = "ingest"
              THEN [hub EXCEPT !.at = "ingest", !.left = Tail(@), !.made = @ \cup {hub.page}, !.counts.written = @ + 1]
              ELSE HubAtRest
    /\ UNCHANGED <<backup, migrant, seen, handed, noted, vaultPast>>

\* The write fails and takes its temporary file away.
ReplaceFails ==
    /\ hub.at = "put" /\ Fault
    /\ hub' = HubAtRest
    /\ ApartFromHub

-----------------------------------------------------------------------------
(* Ingestion: one record, or a sequence of them with on_existing.          *)

Ingest(batch, strict, live) ==
    /\ Begins
    /\ hub' = [HubAtRest EXCEPT !.op = "ingest", !.at = "ingest", !.left = batch, !.all = batch,
                                !.strict = strict, !.live = live]
    /\ ApartFromHub

Next1 == Head(hub.left)
Existing == page[Next1.page].there
Ingesting == hub.at = "ingest" /\ hub.left # <<>>
Rendered(p) == [Empty EXCEPT !.heading = p \in HeadedRecords]

\* What does not validate ends the batch, with what was written before it in place.
IngestRaises ==
    /\ Ingesting /\ (~Next1.valid \/ (Existing /\ hub.strict))
    /\ hub' = HubAtRest
    /\ ApartFromHub /\ UNCHANGED vaultPast

SkipExisting ==
    /\ Ingesting /\ Next1.valid /\ Existing /\ ~hub.strict
    /\ hub' = [hub EXCEPT !.left = Tail(@), !.counts.skipped = @ + 1]
    /\ ApartFromHub /\ UNCHANGED vaultPast

CreateRecord ==
    /\ Ingesting /\ Next1.valid /\ ~Existing
    /\ hub' = IF hub.live
              THEN [hub EXCEPT !.at = "put", !.page = Next1.page, !.put = Rendered(Next1.page)]
              ELSE [hub EXCEPT !.left = Tail(@), !.counts.dry_run = @ + 1]
    /\ ApartFromHub /\ UNCHANGED vaultPast

IngestEnds ==
    /\ hub.at = "ingest" /\ hub.left = <<>>
    /\ hub' = HubAtRest
    /\ ApartFromHub /\ UNCHANGED vaultPast

-----------------------------------------------------------------------------
(* InboxWatcher.scan_once.                                                 *)

Listed == SelectSeq(PageOrder, LAMBDA p : Zone[p] = "dropzone" /\ page[p].there)

ScanDropzone(recorder) ==
    /\ Begins
    /\ hub' = [HubAtRest EXCEPT !.op = "scan", !.at = "scan", !.left = Listed, !.recorder = recorder]
    /\ ApartFromHub

Scanning == hub.at = "scan" /\ hub.left # <<>>

PassSeen ==
    /\ Scanning /\ Next1 \in seen
    /\ hub' = [hub EXCEPT !.left = Tail(@)]
    /\ ApartFromHub /\ UNCHANGED vaultPast

\* A file that is gone or is not text raises out of the scan, before the files after it.
UnreadableFile ==
    /\ Scanning /\ Next1 \notin seen /\ ~(page[Next1].there /\ page[Next1].text)
    /\ hub' = HubAtRest
    /\ ApartFromHub /\ UNCHANGED vaultPast

Again(p) == [vaultPast EXCEPT !.faults = @ + 1, !.again[p] = @ + 1]

\* on_task; when it raises, before or after the task was made, the scan ends.
HandTask ==
    /\ Scanning /\ Next1 \notin seen /\ page[Next1].there /\ page[Next1].text
    /\ \/ /\ handed' = [handed EXCEPT ![Next1] = @ + 1]
          /\ hub' = [hub EXCEPT !.at = "record"] /\ UNCHANGED vaultPast
       \/ /\ UNCHANGED handed
          /\ hub' = HubAtRest /\ Fault
       \/ /\ handed' = [handed EXCEPT ![Next1] = @ + 1]
          /\ hub' = HubAtRest /\ vaultPast.faults < MaxVaultFaults /\ vaultPast' = Again(Next1)
    /\ UNCHANGED <<page, backup, migrant, seen, noted>>

\* on_run_record, if there is one; only then is the file a seen one.
RecordRun ==
    /\ hub.at = "record"
    /\ \/ /\ noted' = [noted EXCEPT ![Next1] = IF hub.recorder THEN @ + 1 ELSE @]
          /\ seen' = seen \cup {Next1}
          /\ hub' = [hub EXCEPT !.at = "scan", !.left = Tail(@)] /\ UNCHANGED vaultPast
       \/ /\ hub.recorder /\ vaultPast.faults < MaxVaultFaults /\ vaultPast' = Again(Next1)
          /\ hub' = HubAtRest /\ UNCHANGED <<seen, noted>>
    /\ UNCHANGED <<page, backup, migrant, handed>>

ScanEnds ==
    /\ hub.at = "scan" /\ hub.left = <<>>
    /\ hub' = HubAtRest
    /\ ApartFromHub /\ UNCHANGED vaultPast

\* The process of the hub dies, and forgets what it has seen.
HubDies ==
    /\ vaultPast.faults < MaxVaultFaults /\ (hub # HubAtRest \/ seen # {})
    /\ vaultPast' = [vaultPast EXCEPT !.faults = @ + 1,
                        !.again = [p \in Pages |-> IF handed[p] > 0 THEN @[p] + 1 ELSE @[p]]]
    /\ hub' = HubAtRest /\ seen' = {}
    /\ UNCHANGED <<page, backup, migrant, handed, noted>>

-----------------------------------------------------------------------------
(* migration/note_type_v2.py, applied.                                     *)

ApartFromMigrant == UNCHANGED <<hub, seen, handed, noted>>
Pending == DOMAIN migrant.plan
FirstOf(set) == PageOrder[CHOOSE k \in DOMAIN PageOrder :
                    PageOrder[k] \in set /\ \A j \in 1..k - 1 : PageOrder[j] \notin set]

\* plan_migration reads every file of the vault; one that is not text raises.
PlanMigration ==
    /\ migrant.at = "idle" /\ Counted
    /\ \A p \in Pages : page[p].text
    /\ \E p \in Pages : page[p].legacy
    /\ migrant' = [MigrantAtRest EXCEPT !.at = "copy",
                        !.plan = [p \in {q \in Pages : page[q].legacy} |-> [page[p] EXCEPT !.legacy = FALSE]]]
    /\ UNCHANGED <<page, backup>> /\ ApartFromMigrant

\* Faulty variant of BackUp: the copy is what was planned from.
BackUpPlanned ==
    /\ migrant.at = "copy" /\ migrant.copied # Pending
    /\ LET p == FirstOf(Pending \ migrant.copied)
       IN  /\ backup' = [backup EXCEPT ![p] = @ \cup migrant.plan[p].said]
           /\ migrant' = [migrant EXCEPT !.copied = @ \cup {p}]
    /\ UNCHANGED <<page, vaultPast>> /\ ApartFromMigrant

\* _backup_changes copies the files as they are now; one that is gone raises. The copies
\* of a run are in a directory named by its second; two runs are taken not to share one.
BackUp ==
    /\ migrant.at = "copy" /\ migrant.copied # Pending
    /\ LET p == FirstOf(Pending \ migrant.copied)
       IN  /\ backup' = [backup EXCEPT ![p] = @ \cup page[p].said]
           /\ migrant' = IF page[p].there THEN [migrant EXCEPT !.copied = @ \cup {p}] ELSE MigrantAtRest
    /\ UNCHANGED <<page, vaultPast>> /\ ApartFromMigrant

CopiesMade ==
    /\ migrant.at = "copy" /\ migrant.copied = Pending
    /\ migrant' = [migrant EXCEPT !.at = "write"]
    /\ UNCHANGED <<page, backup, vaultPast>> /\ ApartFromMigrant

\* write_text truncates the file and then fills it.
Truncate ==
    /\ migrant.at = "write" /\ Pending # {} /\ ~migrant.open
    /\ page' = [page EXCEPT ![FirstOf(Pending)] = Empty]
    /\ migrant' = [migrant EXCEPT !.open = TRUE]
    /\ UNCHANGED <<backup, vaultPast>> /\ ApartFromMigrant

WriteMigrated ==
    /\ migrant.at = "write" /\ migrant.open
    /\ LET p == FirstOf(Pending)
       IN  /\ page' = [page EXCEPT ![p] = migrant.plan[p]]
           /\ migrant' = [migrant EXCEPT !.open = FALSE, !.plan = [q \in Pending \ {p} |-> migrant.plan[q]]]
    /\ UNCHANGED <<backup, vaultPast>> /\ ApartFromMigrant

MigrationEnds ==
    /\ migrant.at = "write" /\ Pending = {}
    /\ migrant' = MigrantAtRest
    /\ UNCHANGED <<page, backup, vaultPast>> /\ ApartFromMigrant

MigrationDies ==
    /\ migrant.at # "idle" /\ Fault
    /\ migrant' = MigrantAtRest
    /\ UNCHANGED <<page, backup>> /\ ApartFromMigrant

-----------------------------------------------------------------------------
(* The user, in Obsidian, in an editor or through a synchronized device.   *)

\* Somebody holds a text that will take the place of p, and no copy is still to be made.
BeingReplaced(p) ==
    \/ hub.at = "put" /\ hub.page = p
    \/ p \in Pending /\ p \in migrant.copied

UserWrites(p) ==
    /\ vaultPast.words < MaxWords /\ (Zone[p] = "dashboard" => page[p].heading)
    /\ LET word == vaultPast.words + 1
           text == IF page[p].there THEN page[p] ELSE Empty
       IN  /\ page' = [page EXCEPT ![p] = [text EXCEPT !.said = @ \cup {word}]]
           /\ vaultPast' = [vaultPast EXCEPT !.words = word, !.own[p] = @ \cup {word},
                                !.late[p] = IF BeingReplaced(p) THEN @ \cup {word} ELSE @]
    /\ UNCHANGED <<backup, hub, migrant, seen, handed, noted>>

\* A file is put in the dropzone that is not text.
UserDrops(p) ==
    /\ vaultPast.words < MaxWords /\ Zone[p] = "dropzone" /\ ~page[p].there
    /\ page' = [page EXCEPT ![p] = [Empty EXCEPT !.text = FALSE]]
    /\ vaultPast' = [vaultPast EXCEPT !.words = @ + 1]
    /\ UNCHANGED <<backup, hub, migrant, seen, handed, noted>>

UserTakes(p) ==
    /\ vaultPast.words < MaxWords /\ Zone[p] = "dropzone" /\ page[p].there
    /\ page' = [page EXCEPT ![p] = Absent]
    /\ vaultPast' = [vaultPast EXCEPT !.words = @ + 1, !.own[p] = {}]
    /\ UNCHANGED <<backup, hub, migrant, seen, handed, noted>>

HubCalled ==
    \/ \E p \in Pages : AppendToHeading(p) \/ \E headed \in BOOLEAN : WriteDashboard(p, headed)
    \/ \E batch \in Batches, strict, live \in BOOLEAN : Ingest(batch, strict, live)
    \/ \E recorder \in BOOLEAN : ScanDropzone(recorder)

HubGoes ==
    \/ ReplacePage \/ ReplaceFails
    \/ IngestRaises \/ SkipExisting \/ CreateRecord \/ IngestEnds
    \/ PassSeen \/ UnreadableFile \/ HandTask \/ RecordRun \/ ScanEnds
    \/ HubDies

Migrates ==
    \/ PlanMigration \/ BackUp \/ CopiesMade \/ Truncate \/ WriteMigrated \/ MigrationEnds \/ MigrationDies

VaultNext ==
    \/ HubCalled \/ HubGoes \/ Migrates
    \/ \E p \in Pages : UserWrites(p) \/ UserDrops(p) \/ UserTakes(p)

VaultSpec == VaultInit /\ [][VaultNext]_vaultVars

-----------------------------------------------------------------------------
(* Properties.                                                             *)

\* What the user wrote under the manual notes of a dashboard, in a record, in the dropzone
\* or among the raw records is still in the file, or in a copy the migration made: whatever
\* the order of the hub's calls, the migration, failed writes and deaths.  Only what was
\* written after a text was read that then took its place may be gone.
UserTextKept ==
    \A p \in Pages : vaultPast.own[p] \ vaultPast.late[p] \subseteq page[p].said \cup backup[p]

\* A file of the dropzone becomes a task once for each life of the watcher, and once more
\* for each callback that raised behind the task; what it has seen has become one, and a run
\* record is about one.
TasksAreExplained ==
    \A p \in Pages :
        /\ handed[p] <= 1 + vaultPast.again[p] /\ noted[p] <= handed[p]
        /\ p \in seen => handed[p] > 0

\* The summary of an ingestion accounts for every record of it: the written ones are those
\* it created, a dry run creates none, and a live one leaves a file for each.
BatchIsAccounted ==
    hub.at = "ingest" /\ hub.left = <<>> =>
        /\ hub.counts.written + hub.counts.skipped + hub.counts.dry_run = Len(hub.all)
        /\ hub.counts.written = Cardinality(hub.made)
        /\ IF hub.live
           THEN hub.counts.dry_run = 0 /\ \A k \in DOMAIN hub.all : page[hub.all[k].page].there
           ELSE hub.made = {}

\* The hub and the migration leave the user's text alone, and account for what they take
\* in (writer.py, inbox_watcher.py, _ingest.py, note_type_v2.py).
VaultHolds == UserTextKept /\ TasksAreExplained /\ BatchIsAccounted
=============================================================================
