-------------------------- MODULE UserGrowth_proofs --------------------------
(***************************************************************************)
(* Theorems about ObsidianVault, SideNoteDetector, NotebookOps and         *)
(* VaultMirror: the hub that writes records into the user's vault, the     *)
(* detector that writes notes for the user, the operations on the          *)
(* notebooks, and the mirror of a vault, for any pages, folders, batches,  *)
(* processes, projects, days, callers, accounts, notes and bounds.         *)
(***************************************************************************)
EXTENDS SideNoteDetector, VaultMirror, NotebookOps, ObsidianVault, FiniteSetTheorems, SequenceTheorems, WellFoundedInduction, TLAPS

-----------------------------------------------------------------------------
(* Types and the inductive invariant.                                      *)

Page == [there : BOOLEAN, text : BOOLEAN, heading : BOOLEAN, legacy : BOOLEAN, said : SUBSET Nat]
Records == {p \in Pages : Zone[p] = "records"}
Item == [page : Records, valid : BOOLEAN]
Summary == [written : Nat, skipped : Nat, dry_run : Nat]

Past == [calls : Nat, words : Nat, faults : Nat, own : [Pages -> SUBSET Nat], late : [Pages -> SUBSET Nat],
         again : [Pages -> Nat]]

\* What the hub has listed to scan is left untyped.
HubTypeOK ==
    /\ hub = [at |-> hub.at, op |-> hub.op, page |-> hub.page, put |-> hub.put, left |-> hub.left,
              all |-> hub.all, live |-> hub.live, strict |-> hub.strict, recorder |-> hub.recorder,
              made |-> hub.made, counts |-> hub.counts]
    /\ hub.at \in {"idle", "put", "ingest", "scan", "record"}
    /\ hub.put \in Page /\ hub.counts \in Summary /\ hub.live \in BOOLEAN

MigrantTypeOK ==
    /\ migrant = [at |-> migrant.at, plan |-> migrant.plan, copied |-> migrant.copied, open |-> migrant.open]
    /\ migrant.at \in {"idle", "copy", "write"} /\ migrant.open \in BOOLEAN
    /\ Pending \subseteq Pages /\ migrant.plan \in [Pending -> Page]
    /\ migrant.open => Pending # {}

VaultTypeOK ==
    /\ page \in [Pages -> Page] /\ backup \in [Pages -> SUBSET Nat]
    /\ HubTypeOK /\ MigrantTypeOK
    /\ handed \in [Pages -> Nat] /\ noted \in [Pages -> Nat]
    /\ vaultPast \in Past

\* What of the user's words in p nobody may lose.
Owed(p) == vaultPast.own[p] \ vaultPast.late[p]

\* What may not be lost of a text without a heading in a dashboard is in the backup: the
\* next dashboard will not take it over.
Unheaded(p, text) == Zone[p] = "dashboard" /\ ~text.heading => Owed(p) \subseteq backup[p]

\* Files: what is not there is nothing; a dashboard without its heading is backed up.
FilesHold ==
    \A p \in Pages : (~page[p].there => page[p] = Absent) /\ Unheaded(p, page[p])

\* The text that is to take the place of hub.page has what it may not lose.
PutHolds ==
    hub.at = "put" =>
        /\ hub.page \in Pages /\ hub.put.there
        /\ Owed(hub.page) \subseteq hub.put.said \cup backup[hub.page]
        /\ Unheaded(hub.page, hub.put)

\* What the migration is about to replace has its copy.
MigrationHolds ==
    /\ \A p \in Pending :
           /\ migrant.plan[p].there
           /\ p \in migrant.copied => Owed(p) \subseteq backup[p]
    /\ migrant.at = "write" => Pending \subseteq migrant.copied

TextInv == UserTextKept /\ FilesHold /\ PutHolds /\ MigrationHolds

\* A file that is not a seen one has been handed over as often as there was a reason to,
\* and once more while its run record is made.
TasksHold ==
    \A p \in Pages :
        /\ p \notin seen /\ ~(hub.at = "record" /\ p = Next1) => handed[p] <= vaultPast.again[p]
        /\ hub.at = "record" /\ p = Next1 => p \notin seen /\ noted[p] < handed[p]

TasksInv == TasksAreExplained /\ TasksHold

\* What is done of a batch, in the order of the batch.
Done == Len(hub.all) - Len(hub.left)
Listing(all, left) ==
    /\ all \in Seq(Item) /\ left \in Seq(Item) /\ Len(left) <= Len(all)
    /\ \A k \in 1..Len(left) : left[k] = all[Len(all) - Len(left) + k]
Recorded(set, n) == IsFiniteSet(set) /\ n = Cardinality(set) /\ \A p \in set : p \in Records /\ page[p].there
AllThere(all, n) == \A k \in 1..n : page[all[k].page].there
BatchHolds ==
    /\ hub.at = "ingest" => hub.op = "ingest"
    /\ hub.at \in {"ingest", "put"} /\ hub.op = "ingest" =>
        /\ Listing(hub.all, hub.left)
        /\ hub.counts.written + hub.counts.skipped + hub.counts.dry_run = Done
        /\ Recorded(hub.made, hub.counts.written)
        /\ IF hub.live THEN hub.counts.dry_run = 0 /\ AllThere(hub.all, Done) ELSE hub.made = {}
        /\ hub.at = "put" => hub.live /\ hub.left # <<>> /\ hub.page = Next1.page /\ hub.page \notin hub.made

VaultInv == VaultTypeOK /\ TextInv /\ TasksInv /\ BatchHolds

-----------------------------------------------------------------------------
(* The order of the folders, and the records the model writes.             *)

LEMMA HasLeast ==
    ASSUME NEW S, S \subseteq Nat, S # {}
    PROVE  \E m \in S : \A k \in S : m <= k
  <1> DEFINE R == OpToRel(<, Nat)
  <1>1. \A x, y \in Nat : <<x, y>> \in R <=> x < y
    BY DEF OpToRel
  <1>2. IsWellFoundedOn(R, Nat)
    BY NatLessThanWellFounded
  <1> HIDE DEF R
  <1>3. PICK m \in S : \A k \in S : ~ <<k, m>> \in R
    BY <1>2, WFMin
  <1>4. ASSUME NEW k \in S PROVE m <= k
    <2>1. k \in Nat /\ m \in Nat
      OBVIOUS
    <2>2. ~(k < m)
      BY <1>1, <1>3, <2>1
    <2> QED
      BY <2>1, <2>2
  <1> QED
    BY <1>4

\* The first of a set of pages, in the order of the folders, is one of them.
LEMMA FirstIsOne ==
    ASSUME NEW S, S \subseteq Pages, S # {}
    PROVE  FirstOf(S) \in S
  <1> DEFINE K == {k \in DOMAIN PageOrder : PageOrder[k] \in S}
  <1>1. DOMAIN PageOrder = 1..Len(PageOrder) /\ Len(PageOrder) \in Nat
    BY VaultAssumption
  <1>2. K \subseteq Nat /\ K # {}
    BY <1>1, VaultAssumption
  <1>3. PICK m \in K : \A k \in K : m <= k
    BY <1>2, HasLeast
  <1>4. PageOrder[m] \in S /\ \A j \in 1..m - 1 : PageOrder[j] \notin S
    BY <1>1, <1>3
  <1>5. \E k \in DOMAIN PageOrder : PageOrder[k] \in S /\ \A j \in 1..k - 1 : PageOrder[j] \notin S
    BY <1>3, <1>4
  <1> QED
    BY <1>5 DEF FirstOf

LEMMA TextFacts ==
    /\ Absent \in Page /\ Empty \in Page /\ Empty.there /\ Empty.said = {} /\ ~Empty.legacy
    /\ ~Absent.there /\ Absent.said = {} /\ ~Absent.legacy /\ ~Absent.heading /\ ~Empty.heading
  BY DEF Absent, Empty, Page

LEMMA MergedFacts ==
    ASSUME NEW old \in Page, NEW headed \in BOOLEAN
    PROVE  /\ Merged(old, headed) \in Page /\ Merged(old, headed).there /\ ~Merged(old, headed).legacy
           /\ Merged(old, headed).said = IF old.heading THEN old.said ELSE {}
           /\ Merged(old, headed).heading = (headed \/ old.heading)
  <1> DEFINE h == headed \/ old.heading
             w == IF old.heading THEN old.said ELSE {}
  <1>1. h \in BOOLEAN /\ w \in SUBSET Nat
    BY DEF Page
  <1>2. Merged(old, headed) = [Empty EXCEPT !.heading = h, !.said = w]
    BY DEF Merged
  <1> HIDE DEF h, w
  <1>3. Merged(old, headed) \in Page
    BY <1>1, <1>2, TextFacts DEF Page
  <1>4. /\ Merged(old, headed).there = Empty.there /\ Merged(old, headed).legacy = Empty.legacy
        /\ Merged(old, headed).said = w /\ Merged(old, headed).heading = h
    BY <1>1, <1>2, TextFacts DEF Page
  <1> QED
    BY <1>3, <1>4, TextFacts DEF h, w

LEMMA RenderedFacts ==
    ASSUME NEW p
    PROVE  Rendered(p) \in Page /\ Rendered(p).there /\ Rendered(p).said = {} /\ ~Rendered(p).legacy
  <1> DEFINE h == p \in HeadedRecords
  <1>1. h \in BOOLEAN
    OBVIOUS
  <1>2. Rendered(p) = [Empty EXCEPT !.heading = h]
    BY DEF Rendered
  <1> HIDE DEF h
  <1>3. Rendered(p) \in Page
    BY <1>1, <1>2, TextFacts DEF Page
  <1>4. /\ Rendered(p).there = Empty.there /\ Rendered(p).legacy = Empty.legacy
        /\ Rendered(p).said = Empty.said
    BY <1>1, <1>2, TextFacts DEF Page
  <1> QED
    BY <1>3, <1>4, TextFacts

\* The hub at rest, and the hub with a text to put.
LEMMA RestFacts ==
    ASSUME hub' = HubAtRest
    PROVE  HubTypeOK' /\ hub'.at = "idle" /\ hub'.op = "none"
  BY TextFacts DEF HubTypeOK, HubAtRest, NoCounts, Summary

LEMMA PuttingFacts ==
    ASSUME NEW op, NEW p, NEW text \in Page, hub' = Putting(op, p, text)
    PROVE  /\ HubTypeOK' /\ hub'.at = "put" /\ hub'.op = op /\ hub'.page = p /\ hub'.put = text
  BY TextFacts DEF HubTypeOK, Putting, HubAtRest, NoCounts, Summary

LEMMA MigrantRestFacts ==
    ASSUME migrant' = MigrantAtRest
    PROVE  MigrantTypeOK' /\ migrant'.at = "idle" /\ Pending' = {} /\ ~migrant'.open
  BY DEF MigrantTypeOK, MigrantAtRest, Pending
\* What a step that goes on with a call makes of the hub.
LEMMA NextFacts ==
    ASSUME HubTypeOK, hub' = [hub EXCEPT !.left = Tail(@)]
    PROVE  HubTypeOK' /\ hub'.at = hub.at /\ hub'.op = hub.op
  BY DEF HubTypeOK

LEMMA RecordFacts ==
    ASSUME HubTypeOK, hub' = [hub EXCEPT !.at = "record"]
    PROVE  HubTypeOK' /\ hub'.at = "record" /\ hub'.op = hub.op /\ hub'.left = hub.left
  BY DEF HubTypeOK

LEMMA RecordedFacts ==
    ASSUME HubTypeOK, hub' = [hub EXCEPT !.at = "scan", !.left = Tail(@)]
    PROVE  HubTypeOK' /\ hub'.at = "scan" /\ hub'.op = hub.op
  BY DEF HubTypeOK

\* What ingestion keeps from step to step.
SameBatch ==
    /\ hub'.op = hub.op /\ hub'.all = hub.all /\ hub'.live = hub.live

LEMMA CreateFacts ==
    ASSUME HubTypeOK, NEW p, NEW text \in Page, hub' = [hub EXCEPT !.at = "put", !.page = p, !.put = text]
    PROVE  /\ HubTypeOK' /\ SameBatch /\ hub'.at = "put" /\ hub'.page = p /\ hub'.put = text
           /\ hub'.left = hub.left /\ hub'.made = hub.made /\ hub'.counts = hub.counts
  BY DEF HubTypeOK, SameBatch

LEMMA SkipFacts ==
    ASSUME HubTypeOK, hub' = [hub EXCEPT !.left = Tail(@), !.counts.skipped = @ + 1]
    PROVE  /\ HubTypeOK' /\ SameBatch /\ hub'.at = hub.at /\ hub'.left = Tail(hub.left) /\ hub'.made = hub.made
           /\ hub'.counts.written = hub.counts.written /\ hub'.counts.dry_run = hub.counts.dry_run
           /\ hub'.counts.skipped = hub.counts.skipped + 1
  <1> DEFINE c == [hub.counts EXCEPT !.skipped = @ + 1]
  <1>1. c \in Summary /\ c.written = hub.counts.written /\ c.dry_run = hub.counts.dry_run
        /\ c.skipped = hub.counts.skipped + 1
    BY DEF HubTypeOK, Summary
  <1>2. hub' = [hub EXCEPT !.left = Tail(@), !.counts = c]
    BY DEF HubTypeOK
  <1> HIDE DEF c
  <1> QED
    BY <1>1, <1>2 DEF HubTypeOK, SameBatch

LEMMA DryRunFacts ==
    ASSUME HubTypeOK, hub' = [hub EXCEPT !.left = Tail(@), !.counts.dry_run = @ + 1]
    PROVE  /\ HubTypeOK' /\ SameBatch /\ hub'.at = hub.at /\ hub'.left = Tail(hub.left) /\ hub'.made = hub.made
           /\ hub'.counts.written = hub.counts.written /\ hub'.counts.skipped = hub.counts.skipped
           /\ hub'.counts.dry_run = hub.counts.dry_run + 1
  <1> DEFINE c == [hub.counts EXCEPT !.dry_run = @ + 1]
  <1>1. c \in Summary /\ c.written = hub.counts.written /\ c.skipped = hub.counts.skipped
        /\ c.dry_run = hub.counts.dry_run + 1
    BY DEF HubTypeOK, Summary
  <1>2. hub' = [hub EXCEPT !.left = Tail(@), !.counts = c]
    BY DEF HubTypeOK
  <1> HIDE DEF c
  <1> QED
    BY <1>1, <1>2 DEF HubTypeOK, SameBatch

LEMMA WrittenFacts ==
    ASSUME HubTypeOK,
           hub' = [hub EXCEPT !.at = "ingest", !.left = Tail(@), !.made = @ \cup {hub.page},
                              !.counts.written = @ + 1]
    PROVE  /\ HubTypeOK' /\ SameBatch /\ hub'.at = "ingest" /\ hub'.left = Tail(hub.left)
           /\ hub'.made = hub.made \cup {hub.page}
           /\ hub'.counts.skipped = hub.counts.skipped /\ hub'.counts.dry_run = hub.counts.dry_run
           /\ hub'.counts.written = hub.counts.written + 1
  <1> DEFINE c == [hub.counts EXCEPT !.written = @ + 1]
             m == hub.made \cup {hub.page}
  <1>1. c \in Summary /\ c.dry_run = hub.counts.dry_run /\ c.skipped = hub.counts.skipped
        /\ c.written = hub.counts.written + 1
    BY DEF HubTypeOK, Summary
  <1>2. hub' = [hub EXCEPT !.at = "ingest", !.left = Tail(@), !.made = m, !.counts = c]
    BY DEF HubTypeOK
  <1> HIDE DEF c, m
  <1>3. /\ HubTypeOK' /\ SameBatch /\ hub'.at = "ingest" /\ hub'.left = Tail(hub.left)
        /\ hub'.made = m /\ hub'.counts = c
    BY <1>1, <1>2 DEF HubTypeOK, SameBatch
  <1> QED
    BY <1>1, <1>3 DEF m

LEMMA IngestFacts ==
    ASSUME NEW batch, NEW strict \in BOOLEAN, NEW live \in BOOLEAN, Ingest(batch, strict, live)
    PROVE  /\ HubTypeOK' /\ hub'.at = "ingest" /\ hub'.op = "ingest" /\ hub'.left = batch /\ hub'.all = batch
           /\ hub'.live = live /\ hub'.made = {} /\ hub'.counts = NoCounts
  BY TextFacts DEF Ingest, HubTypeOK, HubAtRest, NoCounts, Summary

LEMMA ScanFacts ==
    ASSUME NEW recorder \in BOOLEAN, ScanDropzone(recorder)
    PROVE  HubTypeOK' /\ hub'.at = "scan" /\ hub'.op = "scan"
  <1> DEFINE l == Listed
  <1>1. hub' = [HubAtRest EXCEPT !.op = "scan", !.at = "scan", !.left = l, !.recorder = recorder]
    BY DEF ScanDropzone
  <1> HIDE DEF l
  <1> QED
    BY <1>1, TextFacts DEF HubTypeOK, HubAtRest, NoCounts, Summary
-----------------------------------------------------------------------------
(* What the steps of the migration and the bounds make of the state.       *)

SameOwn == vaultPast'.own = vaultPast.own /\ vaultPast'.late = vaultPast.late

LEMMA FaultFacts ==
    ASSUME vaultPast \in Past, Fault \/ Counted
    PROVE  vaultPast' \in Past /\ SameOwn /\ vaultPast'.again = vaultPast.again
  BY DEF Past, Fault, Counted, SameOwn

LEMMA AgainFacts ==
    ASSUME vaultPast \in Past, NEW p, vaultPast' = Again(p)
    PROVE  /\ vaultPast' \in Past /\ SameOwn
           /\ \A q \in Pages : vaultPast'.again[q] = IF p = q THEN vaultPast.again[q] + 1 ELSE vaultPast.again[q]
  <1> DEFINE a == [vaultPast.again EXCEPT ![p] = @ + 1]
  <1>1. vaultPast.again \in [Pages -> Nat]
    BY DEF Past
  <1>7. \A q \in Pages : a[q] = IF p = q THEN vaultPast.again[q] + 1 ELSE vaultPast.again[q]
    BY <1>1
  <1>8. a \in [Pages -> Nat]
    <2>1. CASE p \in Pages
      <3>1. vaultPast.again[p] + 1 \in Nat
        BY <1>1, <2>1
      <3> QED
        BY <1>1, <3>1
    <2>2. CASE p \notin Pages
      BY <1>1, <2>2
    <2> QED
      BY <2>1, <2>2
  <1>2. a \in [Pages -> Nat]
        /\ \A q \in Pages : a[q] = IF p = q THEN vaultPast.again[q] + 1 ELSE vaultPast.again[q]
    BY <1>7, <1>8
  <1>3. vaultPast' = [vaultPast EXCEPT !.faults = @ + 1, !.again = a]
    BY DEF Again, Past
  <1>4. a \in [Pages -> Nat]
    BY <1>2
  <1> DEFINE f == vaultPast.faults + 1
  <1>9. f \in Nat /\ vaultPast' = [vaultPast EXCEPT !.faults = f, !.again = a]
    BY <1>3 DEF Past
  <1> HIDE DEF a, f
  <1>5. vaultPast' \in Past
    BY <1>4, <1>9 DEF Past
  <1>6. SameOwn /\ vaultPast'.again = a
    BY <1>3, <1>4 DEF Past, SameOwn
  <1> QED
    BY <1>2, <1>5, <1>6

LEMMA DeathFacts ==
    ASSUME vaultPast \in Past, HubDies
    PROVE  /\ vaultPast' \in Past /\ SameOwn
           /\ \A q \in Pages : vaultPast'.again[q] =
                  IF handed[q] > 0 THEN vaultPast.again[q] + 1 ELSE vaultPast.again[q]
  <1> DEFINE a == [p \in Pages |-> IF handed[p] > 0 THEN vaultPast.again[p] + 1 ELSE vaultPast.again[p]]
  <1>1. vaultPast.again \in [Pages -> Nat]
    BY DEF Past
  <1>2. a \in [Pages -> Nat]
        /\ \A q \in Pages : a[q] = IF handed[q] > 0 THEN vaultPast.again[q] + 1 ELSE vaultPast.again[q]
    BY <1>1
  <1>3. vaultPast' = [vaultPast EXCEPT !.faults = @ + 1, !.again = a]
    BY DEF HubDies, Past
  <1>4. a \in [Pages -> Nat]
    BY <1>2
  <1> DEFINE f == vaultPast.faults + 1
  <1>9. f \in Nat /\ vaultPast' = [vaultPast EXCEPT !.faults = f, !.again = a]
    BY <1>3 DEF Past
  <1> HIDE DEF a, f
  <1>5. vaultPast' \in Past
    BY <1>4, <1>9 DEF Past
  <1>6. SameOwn /\ vaultPast'.again = a
    BY <1>3, <1>4 DEF Past, SameOwn
  <1> QED
    BY <1>2, <1>5, <1>6

LEMMA PlanFacts ==
    ASSUME VaultTypeOK, PlanMigration
    PROVE  /\ MigrantTypeOK' /\ migrant'.at = "copy" /\ migrant'.copied = {} /\ ~migrant'.open
           /\ Pending' = {p \in Pages : page[p].legacy}
           /\ \A p \in Pending' : migrant'.plan[p] \in Page /\ migrant'.plan[p].there = page[p].there
  <1> DEFINE old == {p \in Pages : page[p].legacy}
             rewritten == [p \in old |-> [page[p] EXCEPT !.legacy = FALSE]]
  <1>1. migrant' = [MigrantAtRest EXCEPT !.at = "copy", !.plan = rewritten]
    BY DEF PlanMigration
  <1>2. \A p \in old : /\ [page[p] EXCEPT !.legacy = FALSE] \in Page
                       /\ [page[p] EXCEPT !.legacy = FALSE].there = page[p].there
    <2>1. \A p \in old : page[p] \in Page
      BY DEF VaultTypeOK
    <2> QED
      BY <2>1 DEF Page
  <1>3. rewritten \in [old -> Page] /\ DOMAIN rewritten = old /\ \A p \in old : rewritten[p].there = page[p].there
    BY <1>2
  <1> HIDE DEF rewritten
  <1>4. migrant' = [at |-> "copy", plan |-> rewritten, copied |-> {}, open |-> FALSE]
    BY <1>1 DEF MigrantAtRest
  <1> QED
    BY <1>3, <1>4 DEF MigrantTypeOK, Pending

LEMMA BackUpFacts ==
    ASSUME VaultTypeOK, BackUp,
           NEW p, p = FirstOf(Pending \ migrant.copied)
    PROVE  /\ MigrantTypeOK' /\ backup' \in [Pages -> SUBSET Nat] /\ (migrant'.open => migrant.open)
           /\ \A q \in Pages : backup'[q] = IF p = q THEN backup[q] \cup page[q].said ELSE backup[q]
           /\ \/ Pending' = {} /\ migrant'.at = "idle"
              \/ /\ migrant'.at = "copy" /\ Pending' = Pending /\ migrant'.plan = migrant.plan
                 /\ migrant'.copied = migrant.copied \cup {p}
  <1>1. backup' = [backup EXCEPT ![p] = @ \cup page[p].said]
    BY DEF BackUp
  <1>2. \A q \in Pages : page[q].said \in SUBSET Nat /\ backup[q] \in SUBSET Nat
    BY DEF VaultTypeOK, Page
  <1>3. backup' \in [Pages -> SUBSET Nat]
    BY <1>1, <1>2 DEF VaultTypeOK
  <1>4. \A q \in Pages : backup'[q] = IF p = q THEN backup[q] \cup page[q].said ELSE backup[q]
    BY <1>1 DEF VaultTypeOK
  <1>5. CASE migrant' = MigrantAtRest
    <2>1. MigrantTypeOK' /\ migrant'.at = "idle" /\ Pending' = {} /\ ~migrant'.open
      BY <1>5, MigrantRestFacts
    <2> QED
      BY <2>1, <1>3, <1>4
  <1>6. CASE migrant' = [migrant EXCEPT !.copied = @ \cup {p}]
    <2>1. /\ migrant'.at = migrant.at /\ migrant'.plan = migrant.plan /\ migrant'.open = migrant.open
          /\ migrant'.copied = migrant.copied \cup {p}
          /\ migrant' = [at |-> migrant'.at, plan |-> migrant'.plan, copied |-> migrant'.copied, open |-> migrant'.open]
      BY <1>6 DEF VaultTypeOK, MigrantTypeOK
    <2>2. MigrantTypeOK' /\ Pending' = Pending
      BY <2>1 DEF VaultTypeOK, MigrantTypeOK, Pending
    <2> QED
      BY <2>1, <2>2, <1>3, <1>4 DEF BackUp
  <1> QED
    BY <1>5, <1>6 DEF BackUp

LEMMA CopiesMadeFacts ==
    ASSUME MigrantTypeOK, CopiesMade
    PROVE  /\ MigrantTypeOK' /\ migrant'.at = "write" /\ migrant'.plan = migrant.plan /\ Pending' = Pending
           /\ migrant'.copied = migrant.copied /\ migrant'.open = migrant.open
  BY DEF MigrantTypeOK, CopiesMade, Pending

LEMMA TruncateFacts ==
    ASSUME MigrantTypeOK, Truncate
    PROVE  /\ MigrantTypeOK' /\ migrant'.at = "write" /\ migrant'.plan = migrant.plan /\ Pending' = Pending
           /\ migrant'.copied = migrant.copied
  BY DEF MigrantTypeOK, Truncate, Pending

LEMMA WriteFacts ==
    ASSUME MigrantTypeOK, WriteMigrated, NEW p, p = FirstOf(Pending)
    PROVE  /\ MigrantTypeOK' /\ migrant'.at = "write" /\ Pending' = Pending \ {p} /\ ~migrant'.open
           /\ migrant'.copied = migrant.copied
           /\ \A q \in Pending' : migrant'.plan[q] = migrant.plan[q]
  <1> DEFINE rewritten == [q \in Pending \ {p} |-> migrant.plan[q]]
  <1>1. migrant' = [migrant EXCEPT !.open = FALSE, !.plan = rewritten]
    BY DEF WriteMigrated
  <1>2. /\ rewritten \in [Pending \ {p} -> Page] /\ DOMAIN rewritten = Pending \ {p}
        /\ \A q \in Pending \ {p} : rewritten[q] = migrant.plan[q]
    BY DEF MigrantTypeOK
  <1> HIDE DEF rewritten
  <1>3. migrant' = [at |-> migrant.at, plan |-> rewritten, copied |-> migrant.copied, open |-> FALSE]
    BY <1>1 DEF MigrantTypeOK
  <1>4. migrant.at = "write"
    BY DEF WriteMigrated
  <1>5. DOMAIN migrant'.plan = Pending \ {p} /\ migrant'.plan = rewritten
    BY <1>2, <1>3
  <1> QED
    BY <1>2, <1>3, <1>4, <1>5 DEF MigrantTypeOK, Pending
\* What the user does to a page, and what is known of it.
LEMMA WordFacts ==
    ASSUME VaultTypeOK, NEW p \in Pages, UserWrites(p),
           NEW text, text = IF page[p].there THEN page[p] ELSE Empty,
           NEW word, word = vaultPast.words + 1
    PROVE  /\ page' \in [Pages -> Page] /\ vaultPast' \in Past /\ vaultPast'.again = vaultPast.again
           /\ page'[p].there /\ page'[p].heading = text.heading /\ page'[p].legacy = text.legacy
           /\ page'[p].said = text.said \cup {word}
           /\ \A q \in Pages : q # p =>
                  page'[q] = page[q] /\ vaultPast'.own[q] = vaultPast.own[q] /\ vaultPast'.late[q] = vaultPast.late[q]
           /\ vaultPast'.own[p] = vaultPast.own[p] \cup {word}
           /\ vaultPast'.late[p] = IF BeingReplaced(p) THEN vaultPast.late[p] \cup {word} ELSE vaultPast.late[p]
  <1>1. text \in Page /\ text.there /\ word \in Nat
    BY TextFacts DEF VaultTypeOK, Past
  <1> DEFINE t == [text EXCEPT !.said = @ \cup {word}]
             own == [vaultPast.own EXCEPT ![p] = @ \cup {word}]
             l == IF BeingReplaced(p) THEN vaultPast.late[p] \cup {word} ELSE vaultPast.late[p]
             late == [vaultPast.late EXCEPT ![p] = l]
  <1>2. t \in Page /\ t.there /\ t.heading = text.heading /\ t.legacy = text.legacy /\ t.said = text.said \cup {word}
    <2> DEFINE w == text.said \cup {word}
    <2>1. w \in SUBSET Nat
      BY <1>1 DEF Page
    <2>2. t = [text EXCEPT !.said = w]
      BY <1>1 DEF Page
    <2> HIDE DEF w
    <2>3. t \in Page /\ t.there /\ t.heading = text.heading /\ t.legacy = text.legacy /\ t.said = w
      BY <1>1, <2>1, <2>2 DEF Page
    <2> QED
      BY <2>3 DEF w
  <1>3. vaultPast.own \in [Pages -> SUBSET Nat] /\ vaultPast.late \in [Pages -> SUBSET Nat]
    BY DEF VaultTypeOK, Past
  <1>4. own \in [Pages -> SUBSET Nat] /\ own[p] = vaultPast.own[p] \cup {word}
        /\ \A q \in Pages : q # p => own[q] = vaultPast.own[q]
    <2>1. vaultPast.own[p] \cup {word} \in SUBSET Nat
      BY <1>1, <1>3
    <2> QED
      BY <1>3, <2>1
  <1>5. l \in SUBSET Nat
    BY <1>1, <1>3
  <1>6. late \in [Pages -> SUBSET Nat] /\ late[p] = l /\ \A q \in Pages : q # p => late[q] = vaultPast.late[q]
    <2> HIDE DEF l
    <2> QED
      BY <1>3, <1>5
  <1>7. page' = [page EXCEPT ![p] = t] /\ vaultPast' = [vaultPast EXCEPT !.words = word, !.own = own, !.late = late]
    BY DEF UserWrites, VaultTypeOK, Past
  <1>8. page' \in [Pages -> Page] /\ page'[p] = t /\ \A q \in Pages : q # p => page'[q] = page[q]
    <2> HIDE DEF t
    <2> QED
      BY <1>2, <1>7 DEF VaultTypeOK
  <1>9. vaultPast' \in Past /\ vaultPast'.again = vaultPast.again /\ vaultPast'.own = own /\ vaultPast'.late = late
    <2> HIDE DEF own, late
    <2> QED
      BY <1>1, <1>4, <1>6, <1>7 DEF VaultTypeOK, Past
  <1> QED
    <2> HIDE DEF t, own, late
    <2> QED
      BY <1>2, <1>4, <1>6, <1>8, <1>9

LEMMA DropFacts ==
    ASSUME VaultTypeOK, NEW p \in Pages, UserDrops(p)
    PROVE  /\ page' \in [Pages -> Page] /\ vaultPast' \in Past /\ vaultPast'.again = vaultPast.again /\ SameOwn
           /\ page'[p].there /\ ~page'[p].legacy /\ page'[p].said = {} /\ \A q \in Pages : q # p => page'[q] = page[q]
  <1> DEFINE t == [Empty EXCEPT !.text = FALSE]
  <1>1. t \in Page /\ t.there /\ ~t.legacy /\ t.said = {}
    BY TextFacts DEF Page
  <1>2. page' = [page EXCEPT ![p] = t] /\ vaultPast' = [vaultPast EXCEPT !.words = @ + 1]
    BY DEF UserDrops
  <1> HIDE DEF t
  <1>3. page' \in [Pages -> Page] /\ page'[p] = t /\ \A q \in Pages : q # p => page'[q] = page[q]
    BY <1>1, <1>2 DEF VaultTypeOK
  <1>4. vaultPast' \in Past /\ vaultPast'.again = vaultPast.again /\ SameOwn
    BY <1>2 DEF VaultTypeOK, Past, SameOwn
  <1> QED
    BY <1>1, <1>3, <1>4

LEMMA TakeFacts ==
    ASSUME VaultTypeOK, NEW p \in Pages, UserTakes(p)
    PROVE  /\ page' \in [Pages -> Page] /\ vaultPast' \in Past /\ vaultPast'.again = vaultPast.again
           /\ page'[p] = Absent /\ \A q \in Pages : q # p => page'[q] = page[q]
           /\ vaultPast'.late = vaultPast.late /\ vaultPast'.own[p] = {}
           /\ \A q \in Pages : q # p => vaultPast'.own[q] = vaultPast.own[q]
  <1> DEFINE own == [vaultPast.own EXCEPT ![p] = {}]
  <1>1. page' = [page EXCEPT ![p] = Absent] /\ vaultPast' = [vaultPast EXCEPT !.words = @ + 1, !.own = own]
    BY DEF UserTakes, VaultTypeOK, Past
  <1>2. own \in [Pages -> SUBSET Nat] /\ own[p] = {} /\ \A q \in Pages : q # p => own[q] = vaultPast.own[q]
    BY DEF VaultTypeOK, Past
  <1> HIDE DEF own
  <1>3. page' \in [Pages -> Page] /\ page'[p] = Absent /\ \A q \in Pages : q # p => page'[q] = page[q]
    BY <1>1, TextFacts DEF VaultTypeOK
  <1> DEFINE n == vaultPast.words + 1
  <1>4. n \in Nat /\ vaultPast' = [vaultPast EXCEPT !.words = n, !.own = own]
    BY <1>1 DEF VaultTypeOK, Past
  <1> HIDE DEF n
  <1>5. vaultPast' \in Past
    BY <1>2, <1>4 DEF VaultTypeOK, Past
  <1>6. vaultPast'.again = vaultPast.again /\ vaultPast'.own = own /\ vaultPast'.late = vaultPast.late
    BY <1>4 DEF VaultTypeOK, Past
  <1> QED
    BY <1>2, <1>3, <1>5, <1>6
-----------------------------------------------------------------------------
(* The types.                                                              *)

\* A step of the hub that leaves the files and the counts of tasks alone.
LEMMA TypesApart ==
    ASSUME VaultTypeOK, ApartFromHub, HubTypeOK', vaultPast' \in Past
    PROVE  VaultTypeOK'
  BY DEF VaultTypeOK, ApartFromHub, MigrantTypeOK, Pending

\* A step of the migration.
LEMMA TypesApartFromMigrant ==
    ASSUME VaultTypeOK, ApartFromMigrant, MigrantTypeOK', vaultPast' \in Past,
           page' \in [Pages -> Page], backup' \in [Pages -> SUBSET Nat]
    PROVE  VaultTypeOK'
  BY DEF VaultTypeOK, ApartFromMigrant, HubTypeOK

\* A step of the user.
LEMMA TypesOfUser ==
    ASSUME VaultTypeOK, UNCHANGED <<backup, hub, migrant, seen, handed, noted>>, vaultPast' \in Past,
           page' \in [Pages -> Page]
    PROVE  VaultTypeOK'
  BY DEF VaultTypeOK, HubTypeOK, MigrantTypeOK, Pending

LEMMA PutPage ==
    ASSUME VaultTypeOK, ReplacePage
    PROVE  page' \in [Pages -> Page] /\ \A q \in Pages : page'[q] = IF q = hub.page THEN hub.put ELSE page[q]
  BY DEF VaultTypeOK, HubTypeOK, ReplacePage

LEMMA TypesHold ==
    ASSUME VaultTypeOK, [VaultNext]_vaultVars
    PROVE  VaultTypeOK'
  <1> USE DEF VaultTypeOK
  <1>1. ASSUME NEW p \in Pages, AppendToHeading(p) PROVE VaultTypeOK'
    BY <1>1, PuttingFacts, FaultFacts, TypesApart DEF AppendToHeading, Begins
  <1>2. ASSUME NEW p \in Pages, NEW headed \in BOOLEAN, WriteDashboard(p, headed) PROVE VaultTypeOK'
    BY <1>2, MergedFacts, PuttingFacts, FaultFacts, TypesApart DEF WriteDashboard, Begins
  <1>3. ASSUME NEW batch \in Batches, NEW strict \in BOOLEAN, NEW live \in BOOLEAN, Ingest(batch, strict, live)
        PROVE  VaultTypeOK'
    BY <1>3, IngestFacts, FaultFacts, TypesApart DEF Ingest, Begins
  <1>4. ASSUME NEW recorder \in BOOLEAN, ScanDropzone(recorder) PROVE VaultTypeOK'
    BY <1>4, ScanFacts, FaultFacts, TypesApart DEF ScanDropzone, Begins
  <1>5. CASE ReplacePage
    <2>1. HubTypeOK'
      BY <1>5, RestFacts, WrittenFacts DEF ReplacePage
    <2> QED
      BY <1>5, <2>1, PutPage DEF ReplacePage, MigrantTypeOK, Pending
  <1>6. CASE ReplaceFails
    BY <1>6, RestFacts, FaultFacts, TypesApart DEF ReplaceFails
  <1>7. CASE IngestRaises
    BY <1>7, RestFacts, TypesApart DEF IngestRaises
  <1>8. CASE SkipExisting
    BY <1>8, SkipFacts, TypesApart DEF SkipExisting
  <1>9. CASE CreateRecord
    <2>1. HubTypeOK'
      <3>1. CASE hub.live
        BY <1>9, <3>1, RenderedFacts, CreateFacts DEF CreateRecord
      <3>2. CASE ~hub.live
        BY <1>9, <3>2, DryRunFacts DEF CreateRecord
      <3> QED
        BY <3>1, <3>2
    <2> QED
      BY <1>9, <2>1, TypesApart DEF CreateRecord
  <1>10. CASE IngestEnds
    BY <1>10, RestFacts, TypesApart DEF IngestEnds
  <1>11. CASE PassSeen
    BY <1>11, NextFacts, TypesApart DEF PassSeen
  <1>12. CASE UnreadableFile
    BY <1>12, RestFacts, TypesApart DEF UnreadableFile
  <1>13. CASE HandTask
    <2>1. HubTypeOK' /\ vaultPast' \in Past
      BY <1>13, RestFacts, RecordFacts, FaultFacts, AgainFacts DEF HandTask
    <2>2. handed' \in [Pages -> Nat]
      BY <1>13 DEF HandTask
    <2> QED
      BY <1>13, <2>1, <2>2 DEF HandTask, MigrantTypeOK, Pending
  <1>14. CASE RecordRun
    <2>1. HubTypeOK' /\ vaultPast' \in Past
      BY <1>14, RestFacts, RecordedFacts, AgainFacts DEF RecordRun
    <2>2. noted' \in [Pages -> Nat]
      BY <1>14 DEF RecordRun
    <2> QED
      BY <1>14, <2>1, <2>2 DEF RecordRun, MigrantTypeOK, Pending
  <1>15. CASE ScanEnds
    BY <1>15, RestFacts, TypesApart DEF ScanEnds
  <1>16. CASE HubDies
    <2>1. HubTypeOK' /\ vaultPast' \in Past
      BY <1>16, RestFacts, DeathFacts DEF HubDies
    <2> QED
      BY <1>16, <2>1 DEF HubDies, MigrantTypeOK, Pending
  <1>17. CASE PlanMigration
    BY <1>17, PlanFacts, FaultFacts, TypesApartFromMigrant DEF PlanMigration
  <1>18. CASE BackUp
    BY <1>18, BackUpFacts, TypesApartFromMigrant DEF BackUp
  <1>19. CASE CopiesMade
    BY <1>19, CopiesMadeFacts, TypesApartFromMigrant DEF CopiesMade
  <1>20. CASE Truncate
    BY <1>20, TruncateFacts, TextFacts, TypesApartFromMigrant DEF Truncate
  <1>21. CASE WriteMigrated
    <2>1. PICK p : p = FirstOf(Pending)
      OBVIOUS
    <2>2. page' = [page EXCEPT ![p] = migrant.plan[p]]
      BY <1>21, <2>1 DEF WriteMigrated
    <2>3. p \in Pending
      BY <1>21, <2>1, FirstIsOne DEF WriteMigrated, MigrantTypeOK
    <2>4. page' \in [Pages -> Page]
      BY <2>2, <2>3 DEF MigrantTypeOK
    <2> QED
      BY <1>21, <2>1, <2>4, WriteFacts, TypesApartFromMigrant DEF WriteMigrated
  <1>22. CASE MigrationEnds
    BY <1>22, MigrantRestFacts, TypesApartFromMigrant DEF MigrationEnds
  <1>23. CASE MigrationDies
    BY <1>23, MigrantRestFacts, FaultFacts, TypesApartFromMigrant DEF MigrationDies
  <1>24. ASSUME NEW p \in Pages, UserWrites(p) \/ UserDrops(p) \/ UserTakes(p) PROVE VaultTypeOK'
    <2>1. page' \in [Pages -> Page] /\ vaultPast' \in Past
      BY <1>24, WordFacts, DropFacts, TakeFacts
    <2> QED
      BY <1>24, <2>1, TypesOfUser DEF UserWrites, UserDrops, UserTakes
  <1>25. CASE UNCHANGED vaultVars
    BY <1>25 DEF vaultVars, HubTypeOK, MigrantTypeOK, Pending
  <1> QED
    BY <1>1, <1>2, <1>3, <1>4, <1>5, <1>6, <1>7, <1>8, <1>9, <1>10, <1>11, <1>12, <1>13, <1>14, <1>15, <1>16,
       <1>17, <1>18, <1>19, <1>20, <1>21, <1>22, <1>23, <1>24, <1>25 DEF VaultNext, HubCalled, HubGoes, Migrates
-----------------------------------------------------------------------------
(* The user's words.                                                       *)

\* A step that leaves the files, the copies and what is due alone, and puts nothing new.
LEMMA TextApart ==
    ASSUME TextInv, UNCHANGED <<page, backup, migrant>>, SameOwn, hub'.at # "put" \/ UNCHANGED hub
    PROVE  TextInv'
  <1>1. \A p \in Pages : Owed(p)' = Owed(p)
    BY DEF Owed, SameOwn
  <1>2. UserTextKept' /\ FilesHold' /\ MigrationHolds'
    BY <1>1 DEF TextInv, UserTextKept, FilesHold, Unheaded, MigrationHolds, Owed, SameOwn, Pending
  <1>3. PutHolds'
    BY <1>1 DEF TextInv, PutHolds, Unheaded, Owed, SameOwn
  <1> QED
    BY <1>2, <1>3 DEF TextInv

\* The hub takes up a text to put: it has what is due, or the backup has.
LEMMA TextToPut ==
    ASSUME TextInv, UNCHANGED <<page, backup, migrant>>, SameOwn,
           NEW p \in Pages, hub'.page = p, hub'.put.there,
           Owed(p) \subseteq hub'.put.said \cup backup[p], Unheaded(p, hub'.put)
    PROVE  TextInv'
  <1>1. \A q \in Pages : Owed(q)' = Owed(q)
    BY DEF Owed, SameOwn
  <1>2. UserTextKept' /\ FilesHold' /\ MigrationHolds'
    BY <1>1 DEF TextInv, UserTextKept, FilesHold, Unheaded, MigrationHolds, Owed, SameOwn, Pending
  <1>3. PutHolds'
    <2>1. SUFFICES /\ Owed(p)' \subseteq hub'.put.said \cup backup[p]
                   /\ Zone[p] = "dashboard" /\ ~hub'.put.heading => Owed(p)' \subseteq backup[p]
      BY DEF PutHolds, Unheaded, Owed
    <2> QED
      BY <1>1 DEF Unheaded
  <1> QED
    BY <1>2, <1>3 DEF TextInv

\* The hub's steps that put nothing new.
LEMMA TextOfCalls ==
    ASSUME VaultTypeOK, TextInv,
           \/ \E batch \in Batches, strict, live \in BOOLEAN : Ingest(batch, strict, live)
           \/ \E recorder \in BOOLEAN : ScanDropzone(recorder)
           \/ ReplaceFails \/ IngestRaises \/ SkipExisting \/ IngestEnds
           \/ PassSeen \/ UnreadableFile \/ HandTask \/ RecordRun \/ ScanEnds \/ HubDies
    PROVE  TextInv'
  <1> USE DEF ApartFromHub
  <1>0. HubTypeOK /\ vaultPast \in Past
    BY DEF VaultTypeOK
  <1>1. ASSUME NEW batch \in Batches, NEW strict \in BOOLEAN, NEW live \in BOOLEAN, Ingest(batch, strict, live)
        PROVE  TextInv'
    BY <1>0, <1>1, IngestFacts, FaultFacts, TextApart DEF Ingest, Begins
  <1>2. ASSUME NEW recorder \in BOOLEAN, ScanDropzone(recorder) PROVE TextInv'
    BY <1>0, <1>2, ScanFacts, FaultFacts, TextApart DEF ScanDropzone, Begins
  <1>3. CASE ReplaceFails
    BY <1>0, <1>3, RestFacts, FaultFacts, TextApart DEF ReplaceFails
  <1>4. CASE IngestRaises \/ IngestEnds \/ UnreadableFile \/ ScanEnds
    <2>1. hub'.at # "put" /\ SameOwn /\ UNCHANGED <<page, backup, migrant>>
      BY <1>4, RestFacts DEF IngestRaises, IngestEnds, UnreadableFile, ScanEnds, SameOwn
    <2> QED
      BY <2>1, TextApart
  <1>5. CASE SkipExisting
    BY <1>0, <1>5, SkipFacts, TextApart DEF SkipExisting, Ingesting, SameOwn
  <1>6. CASE PassSeen
    BY <1>0, <1>6, NextFacts, TextApart DEF PassSeen, Scanning, SameOwn
  <1>7. CASE HandTask
    <2>1. hub'.at # "put" /\ SameOwn
      BY <1>0, <1>7, RestFacts, RecordFacts, FaultFacts, AgainFacts DEF HandTask, SameOwn
    <2> QED
      BY <1>7, <2>1, TextApart DEF HandTask
  <1>8. CASE RecordRun
    <2>1. hub'.at # "put" /\ SameOwn
      BY <1>0, <1>8, RestFacts, RecordedFacts, AgainFacts DEF RecordRun, SameOwn
    <2> QED
      BY <1>8, <2>1, TextApart DEF RecordRun
  <1>9. CASE HubDies
    BY <1>0, <1>9, RestFacts, DeathFacts, TextApart DEF HubDies
  <1> QED
    BY <1>1, <1>2, <1>3, <1>4, <1>5, <1>6, <1>7, <1>8, <1>9

\* The hub's steps that take up a text.
LEMMA TextOfPuts ==
    ASSUME VaultTypeOK, TextInv,
           \/ \E p \in Pages : AppendToHeading(p) \/ \E headed \in BOOLEAN : WriteDashboard(p, headed)
           \/ CreateRecord, BatchHolds
    PROVE  TextInv'
  <1> USE DEF ApartFromHub
  <1>0. HubTypeOK /\ vaultPast \in Past
    BY DEF VaultTypeOK
  <1>1. ASSUME NEW p \in Pages, AppendToHeading(p) PROVE TextInv'
    <2>1. page[p] \in Page
      BY DEF VaultTypeOK
    <2>2. hub'.page = p /\ hub'.put = page[p]
      BY <1>1, <2>1, PuttingFacts DEF AppendToHeading
    <2>3. /\ page[p].there /\ Unheaded(p, page[p])
          /\ Owed(p) \subseteq page[p].said \cup backup[p]
      BY <1>1 DEF AppendToHeading, TextInv, FilesHold, UserTextKept, Owed
    <2> QED
      BY <1>0, <1>1, <2>2, <2>3, FaultFacts, TextToPut DEF AppendToHeading, Begins
  <1>2. ASSUME NEW p \in Pages, NEW headed \in BOOLEAN, WriteDashboard(p, headed) PROVE TextInv'
    <2>1. page[p] \in Page
      BY DEF VaultTypeOK
    <2>2. hub'.page = p /\ hub'.put = Merged(page[p], headed)
      BY <1>2, <2>1, MergedFacts, PuttingFacts DEF WriteDashboard
    <2>3. /\ hub'.put.there
          /\ hub'.put.said = IF page[p].heading THEN page[p].said ELSE {}
          /\ ~hub'.put.heading => ~page[p].heading
      <3> DEFINE m == Merged(page[p], headed)
      <3>1. /\ m.there /\ m.said = IF page[p].heading THEN page[p].said ELSE {}
            /\ m.heading = (headed \/ page[p].heading)
        BY <2>1, MergedFacts
      <3> HIDE DEF m
      <3>2. hub'.put = m
        BY <2>2 DEF m
      <3> QED
        BY <3>1, <3>2
    <2>4. Zone[p] = "dashboard" /\ ~page[p].heading => Owed(p) \subseteq backup[p]
      BY DEF TextInv, FilesHold, Unheaded
    <2>5. Owed(p) \subseteq hub'.put.said \cup backup[p]
      BY <1>2, <2>3, <2>4 DEF WriteDashboard, TextInv, UserTextKept, Owed
    <2>6. Unheaded(p, hub'.put)
      BY <2>3, <2>4 DEF Unheaded
    <2> QED
      BY <1>0, <1>2, <2>2, <2>3, <2>5, <2>6, FaultFacts, TextToPut DEF WriteDashboard, Begins
  <1>3. CASE CreateRecord
    <2>1. UNCHANGED <<page, backup, migrant>> /\ SameOwn
      BY <1>3 DEF CreateRecord, SameOwn
    <2>2. CASE ~hub.live
      <3>1. hub'.at # "put"
        BY <1>0, <1>3, <2>2, DryRunFacts DEF CreateRecord, Ingesting
      <3> QED
        BY <2>1, <3>1, TextApart
    <2>3. CASE hub.live
      <3>1. hub'.page = Next1.page /\ hub'.put = Rendered(Next1.page)
        BY <1>0, <1>3, <2>3, RenderedFacts, CreateFacts DEF CreateRecord
      <3>2. Next1 \in Item /\ Next1.page \in Pages /\ Zone[Next1.page] = "records"
        <4>1. hub.left \in Seq(Item) /\ hub.left # <<>>
          BY <1>3 DEF CreateRecord, Ingesting, BatchHolds, Listing
        <4> HIDE DEF Item
        <4>2. Next1 \in Item
          BY <4>1 DEF Next1
        <4> QED
          BY <4>2 DEF Item, Records
      <3>3. hub'.put.there /\ hub'.put.said = {} /\ Unheaded(Next1.page, hub'.put)
        BY <3>1, <3>2, RenderedFacts DEF Unheaded
      <3>4. page[Next1.page].said = {}
        BY <1>3, <3>2, TextFacts DEF CreateRecord, Existing, TextInv, FilesHold
      <3>5. Owed(Next1.page) \subseteq backup[Next1.page]
        BY <3>2, <3>4 DEF TextInv, UserTextKept, Owed
      <3> QED
        BY <2>1, <3>1, <3>2, <3>3, <3>5, TextToPut
    <2> QED
      BY <2>2, <2>3
  <1> QED
    BY <1>1, <1>2, <1>3

\* The put text takes the place of the page.
LEMMA TextOfReplace ==
    ASSUME VaultTypeOK, TextInv, ReplacePage
    PROVE  TextInv'
  <1>1. \A q \in Pages : page'[q] = IF q = hub.page THEN hub.put ELSE page[q]
    BY PutPage
  <1>2. UNCHANGED <<backup, migrant, vaultPast>> /\ hub.at = "put"
    BY DEF ReplacePage
  <1>3. \A p \in Pages : Owed(p)' = Owed(p)
    BY <1>2 DEF Owed
  <1>4. hub'.at # "put"
    BY RestFacts, WrittenFacts DEF ReplacePage, VaultTypeOK
  <1>5. UserTextKept'
    BY <1>1, <1>2, <1>3 DEF TextInv, UserTextKept, PutHolds, Owed
  <1>6. FilesHold'
    BY <1>1, <1>2, <1>3 DEF TextInv, FilesHold, Unheaded, PutHolds, Owed
  <1>7. MigrationHolds'
    BY <1>2, <1>3 DEF TextInv, MigrationHolds, Pending, VaultTypeOK, MigrantTypeOK
  <1> QED
    BY <1>4, <1>5, <1>6, <1>7 DEF TextInv, PutHolds
\* A word that is written while somebody is about to replace the page is late; any other
\* goes to a page nobody replaces.
LEMMA TextOfWord ==
    ASSUME VaultTypeOK, TextInv, NEW p \in Pages, UserWrites(p)
    PROVE  TextInv'
  <1> DEFINE text == IF page[p].there THEN page[p] ELSE Empty
             word == vaultPast.words + 1
  <1>1. /\ page'[p].there /\ page'[p].heading = text.heading /\ page'[p].legacy = text.legacy
        /\ page'[p].said = text.said \cup {word}
        /\ \A q \in Pages : q # p =>
               page'[q] = page[q] /\ vaultPast'.own[q] = vaultPast.own[q] /\ vaultPast'.late[q] = vaultPast.late[q]
        /\ vaultPast'.own[p] = vaultPast.own[p] \cup {word}
        /\ vaultPast'.late[p] = IF BeingReplaced(p) THEN vaultPast.late[p] \cup {word} ELSE vaultPast.late[p]
    BY WordFacts
  <1>2. UNCHANGED <<backup, hub, migrant>> /\ (Zone[p] = "dashboard" => page[p].heading)
    BY DEF UserWrites
  <1>3. \A q \in Pages : q # p => Owed(q)' = Owed(q)
    BY <1>1 DEF Owed
  <1>4. Owed(p)' \subseteq Owed(p) \cup {word}
    BY <1>1 DEF Owed
  <1>5. BeingReplaced(p) => Owed(p)' \subseteq Owed(p)
    BY <1>1 DEF Owed
  <1>6. page[p].there => text = page[p]
    OBVIOUS
  <1>7. ~page[p].there => text = Empty /\ page[p].said = {} /\ ~page[p].heading
    BY TextFacts DEF TextInv, FilesHold
  <1> HIDE DEF text, word
  <1>8. page[p].said \subseteq page'[p].said /\ word \in page'[p].said
    BY <1>1, <1>6, <1>7
  <1>9. UserTextKept'
    <2>1. ASSUME NEW q \in Pages PROVE Owed(q)' \subseteq page'[q].said \cup backup[q]
      <3>0. Owed(q) \subseteq page[q].said \cup backup[q]
        BY DEF TextInv, UserTextKept, Owed
      <3>1. CASE q = p
        BY <1>4, <1>8, <3>0, <3>1
      <3>2. CASE q # p
        BY <1>1, <1>3, <3>0, <3>2
      <3> QED
        BY <3>1, <3>2
    <2> QED
      BY <1>2, <2>1 DEF UserTextKept, Owed
  <1>10. FilesHold'
    <2>1. ASSUME NEW q \in Pages
          PROVE  /\ ~page'[q].there => page'[q] = Absent
                 /\ Zone[q] = "dashboard" /\ ~page'[q].heading => Owed(q)' \subseteq backup[q]
      <3>1. CASE q = p
        <4>1. Zone[p] = "dashboard" => page[p].heading /\ page[p].there
          BY <1>2, <1>7
        <4> QED
          BY <1>1, <1>6, <3>1, <4>1
      <3>2. CASE q # p
        BY <1>1, <1>3, <3>2 DEF TextInv, FilesHold, Unheaded
      <3> QED
        BY <3>1, <3>2
    <2> QED
      BY <1>2, <2>1 DEF FilesHold, Unheaded, Owed
  <1>11. PutHolds'
    <2>1. SUFFICES ASSUME hub.at = "put"
                   PROVE  /\ hub.page \in Pages /\ hub.put.there
                          /\ Owed(hub.page)' \subseteq hub.put.said \cup backup[hub.page]
                          /\ Zone[hub.page] = "dashboard" /\ ~hub.put.heading =>
                                 Owed(hub.page)' \subseteq backup[hub.page]
      BY <1>2 DEF PutHolds, Unheaded, Owed
    <2>2. /\ hub.page \in Pages /\ hub.put.there
          /\ Owed(hub.page) \subseteq hub.put.said \cup backup[hub.page]
          /\ Zone[hub.page] = "dashboard" /\ ~hub.put.heading => Owed(hub.page) \subseteq backup[hub.page]
      BY <2>1 DEF TextInv, PutHolds, Unheaded
    <2>3. Owed(hub.page)' \subseteq Owed(hub.page)
      <3>1. PICK q \in Pages : q = hub.page
        BY <2>2
      <3>2. Owed(q)' \subseteq Owed(q)
        BY <1>3, <1>5, <2>1, <3>1 DEF BeingReplaced
      <3> QED
        BY <1>2, <3>1, <3>2 DEF Owed
    <2> QED
      BY <2>2, <2>3
  <1>12. MigrationHolds'
    <2>1. ASSUME NEW q \in Pending, q \in migrant.copied PROVE Owed(q)' \subseteq backup[q]
      <3>1. q \in Pages
        BY DEF VaultTypeOK, MigrantTypeOK
      <3>2. Owed(q) \subseteq backup[q]
        BY <2>1 DEF TextInv, MigrationHolds
      <3>3. q = p => BeingReplaced(p)
        BY <2>1 DEF BeingReplaced
      <3> QED
        BY <1>3, <1>5, <3>1, <3>2, <3>3
    <2>2. Pending' = Pending
      BY <1>2 DEF Pending
    <2> QED
      BY <1>2, <2>1, <2>2 DEF TextInv, MigrationHolds, Owed
  <1> QED
    BY <1>9, <1>10, <1>11, <1>12 DEF TextInv

\* A file that is dropped, or taken away.
LEMMA TextOfDropzone ==
    ASSUME VaultTypeOK, TextInv, NEW p \in Pages, UserDrops(p) \/ UserTakes(p)
    PROVE  TextInv'
  <1>1. UNCHANGED <<backup, hub, migrant>> /\ Zone[p] = "dropzone"
    BY DEF UserDrops, UserTakes
  <1>2. \A q \in Pages : q # p => page'[q] = page[q] /\ Owed(q)' = Owed(q)
                                  /\ vaultPast'.own[q] = vaultPast.own[q]
    BY DropFacts, TakeFacts DEF Owed, SameOwn
  <1>3. Owed(p)' \subseteq backup[p] /\ Owed(p)' \subseteq Owed(p)
    <2>1. CASE UserTakes(p)
      BY <2>1, TakeFacts DEF Owed
    <2>2. CASE UserDrops(p)
      <3>1. Owed(p)' = Owed(p) /\ page[p].said = {}
        BY <2>2, DropFacts, TextFacts DEF Owed, SameOwn, UserDrops, TextInv, FilesHold
      <3> QED
        BY <3>1 DEF TextInv, UserTextKept, Owed
    <2> QED
      BY <2>1, <2>2
  <1>4. ~page'[p].there => page'[p] = Absent
    BY DropFacts, TakeFacts
  <1>5. UserTextKept'
    <2>1. ASSUME NEW q \in Pages PROVE Owed(q)' \subseteq page'[q].said \cup backup[q]
      <3>1. CASE q = p
        BY <1>3, <3>1
      <3>2. CASE q # p
        BY <1>2, <3>2 DEF TextInv, UserTextKept, Owed
      <3> QED
        BY <3>1, <3>2
    <2> QED
      BY <1>1, <2>1 DEF UserTextKept, Owed
  <1>6. FilesHold'
    <2>1. ASSUME NEW q \in Pages
          PROVE  /\ ~page'[q].there => page'[q] = Absent
                 /\ Zone[q] = "dashboard" /\ ~page'[q].heading => Owed(q)' \subseteq backup[q]
      BY <1>1, <1>2, <1>4 DEF TextInv, FilesHold, Unheaded
    <2> QED
      BY <1>1, <2>1 DEF FilesHold, Unheaded, Owed
  <1>7. PutHolds'
    <2>1. SUFFICES ASSUME hub.at = "put"
                   PROVE  /\ hub.page \in Pages /\ hub.put.there
                          /\ Owed(hub.page)' \subseteq hub.put.said \cup backup[hub.page]
                          /\ Zone[hub.page] = "dashboard" /\ ~hub.put.heading =>
                                 Owed(hub.page)' \subseteq backup[hub.page]
      BY <1>1 DEF PutHolds, Unheaded, Owed
    <2>2. /\ hub.page \in Pages /\ hub.put.there
          /\ Owed(hub.page) \subseteq hub.put.said \cup backup[hub.page]
          /\ Zone[hub.page] = "dashboard" /\ ~hub.put.heading => Owed(hub.page) \subseteq backup[hub.page]
      BY <2>1 DEF TextInv, PutHolds, Unheaded
    <2>3. Owed(hub.page)' \subseteq Owed(hub.page)
      <3>1. PICK q \in Pages : q = hub.page
        BY <2>2
      <3>2. Owed(q)' \subseteq Owed(q)
        BY <1>2, <1>3
      <3> QED
        BY <1>1, <3>1, <3>2 DEF Owed
    <2> QED
      BY <2>2, <2>3
  <1>8. MigrationHolds'
    <2>1. ASSUME NEW q \in Pending, q \in migrant.copied PROVE Owed(q)' \subseteq backup[q]
      <3>1. q \in Pages
        BY DEF VaultTypeOK, MigrantTypeOK
      <3>2. Owed(q) \subseteq backup[q]
        BY <2>1 DEF TextInv, MigrationHolds
      <3> QED
        BY <1>2, <1>3, <3>1, <3>2
    <2>2. Pending' = Pending
      BY <1>1 DEF Pending
    <2> QED
      BY <1>1, <2>1, <2>2 DEF TextInv, MigrationHolds, Owed
  <1> QED
    BY <1>5, <1>6, <1>7, <1>8 DEF TextInv
\* A step of the migration that leaves the files alone.
LEMMA TextCopied ==
    ASSUME TextInv, UNCHANGED <<page, hub>>, SameOwn, MigrationHolds',
           \A p \in Pages : backup[p] \subseteq backup'[p]
    PROVE  TextInv'
  <1>1. \A p \in Pages : Owed(p)' = Owed(p)
    BY DEF Owed, SameOwn
  <1>2. UserTextKept' /\ FilesHold'
    BY <1>1 DEF TextInv, UserTextKept, FilesHold, Unheaded, Owed, SameOwn
  <1>3. PutHolds'
    BY <1>1 DEF TextInv, PutHolds, Unheaded, Owed, SameOwn
  <1> QED
    BY <1>2, <1>3 DEF TextInv

\* A step that rewrites a page of which the copy is made.
LEMMA TextRewritten ==
    ASSUME TextInv, VaultTypeOK, UNCHANGED <<backup, hub, vaultPast>>, MigrationHolds',
           NEW p \in Pending, p \in migrant.copied, page'[p].there,
           \A q \in Pages : q # p => page'[q] = page[q]
    PROVE  TextInv'
  <1>1. \A q \in Pages : Owed(q)' = Owed(q)
    BY DEF Owed
  <1>2. p \in Pages /\ Owed(p) \subseteq backup[p]
    BY DEF TextInv, MigrationHolds, VaultTypeOK, MigrantTypeOK
  <1>3. UserTextKept'
    <2>1. ASSUME NEW q \in Pages PROVE Owed(q)' \subseteq page'[q].said \cup backup[q]
      BY <1>1, <1>2 DEF TextInv, UserTextKept, Owed
    <2> QED
      BY <2>1 DEF UserTextKept, Owed
  <1>4. FilesHold'
    <2>1. ASSUME NEW q \in Pages
          PROVE  /\ ~page'[q].there => page'[q] = Absent
                 /\ Zone[q] = "dashboard" /\ ~page'[q].heading => Owed(q) \subseteq backup[q]
      BY <1>2 DEF TextInv, FilesHold, Unheaded
    <2> QED
      BY <2>1 DEF FilesHold, Unheaded, Owed
  <1>5. PutHolds'
    BY DEF TextInv, PutHolds, Unheaded, Owed
  <1> QED
    BY <1>3, <1>4, <1>5 DEF TextInv

LEMMA TextOfMigration ==
    ASSUME VaultTypeOK, TextInv, Migrates
    PROVE  TextInv'
  <1>0. MigrantTypeOK /\ vaultPast \in Past /\ MigrationHolds
    BY DEF VaultTypeOK, TextInv
  <1>1. CASE PlanMigration
    <2>1. UNCHANGED <<page, backup, hub>> /\ SameOwn
      BY <1>0, <1>1, FaultFacts DEF PlanMigration, ApartFromMigrant
    <2>2. /\ migrant'.at = "copy" /\ migrant'.copied = {} /\ Pending' = {p \in Pages : page[p].legacy}
          /\ \A p \in Pending' : migrant'.plan[p].there = page[p].there
      BY <1>1, PlanFacts
    <2>3. \A p \in Pages : page[p].legacy => page[p].there
      BY TextFacts DEF TextInv, FilesHold
    <2>4. MigrationHolds'
      BY <2>2, <2>3 DEF MigrationHolds
    <2> QED
      BY <2>1, <2>4, TextCopied
  <1>2. CASE BackUp
    <2>1. UNCHANGED <<page, hub, vaultPast>> /\ SameOwn
      BY <1>2 DEF BackUp, ApartFromMigrant, SameOwn
    <2>2. PICK p : p = FirstOf(Pending \ migrant.copied)
      OBVIOUS
    <2>3. /\ \A q \in Pages : backup'[q] = IF p = q THEN backup[q] \cup page[q].said ELSE backup[q]
          /\ \/ Pending' = {} /\ migrant'.at = "idle"
             \/ /\ migrant'.at = "copy" /\ Pending' = Pending /\ migrant'.plan = migrant.plan
                /\ migrant'.copied = migrant.copied \cup {p}
      BY <1>2, <2>2, BackUpFacts
    <2>4. \A q \in Pages : backup[q] \subseteq backup'[q]
      BY <2>3
    <2>5. CASE Pending' = {} /\ migrant'.at = "idle"
      <3>1. MigrationHolds'
        BY <2>5 DEF MigrationHolds
      <3> QED
        BY <2>1, <2>4, <3>1, TextCopied
    <2>6. CASE /\ migrant'.at = "copy" /\ Pending' = Pending /\ migrant'.plan = migrant.plan
               /\ migrant'.copied = migrant.copied \cup {p}
      <3>1. ASSUME NEW q \in Pending, q \in migrant'.copied PROVE Owed(q) \subseteq backup'[q]
        <4>1. q \in Pages
          BY DEF VaultTypeOK, MigrantTypeOK
        <4>2. Owed(q) \subseteq page[q].said \cup backup[q]
          BY <4>1 DEF TextInv, UserTextKept, Owed
        <4>3. CASE q = p
          BY <2>3, <4>1, <4>2, <4>3
        <4>4. CASE q # p
          <5>1. Owed(q) \subseteq backup[q]
            BY <1>0, <2>6, <3>1, <4>4 DEF MigrationHolds
          <5> QED
            BY <2>4, <4>1, <5>1
        <4> QED
          BY <4>3, <4>4
      <3>2. MigrationHolds'
        BY <1>0, <2>1, <2>6, <3>1 DEF MigrationHolds, Owed
      <3> QED
        BY <2>1, <2>4, <3>2, TextCopied
    <2> QED
      BY <2>3, <2>5, <2>6
  <1>3. CASE CopiesMade
    <2>1. UNCHANGED <<page, backup, hub, vaultPast>> /\ SameOwn /\ Pending = migrant.copied
      BY <1>3 DEF CopiesMade, ApartFromMigrant, SameOwn
    <2>2. migrant'.plan = migrant.plan /\ Pending' = Pending /\ migrant'.copied = migrant.copied
      BY <1>0, <1>3, CopiesMadeFacts
    <2>3. MigrationHolds'
      BY <1>0, <2>1, <2>2 DEF MigrationHolds, Owed
    <2> QED
      BY <2>1, <2>3, TextCopied
  <1>4. CASE Truncate
    <2>1. UNCHANGED <<backup, hub, vaultPast>> /\ migrant.at = "write" /\ Pending # {}
      BY <1>4 DEF Truncate, ApartFromMigrant
    <2>2. PICK p \in Pending : p = FirstOf(Pending)
      BY <1>0, <2>1, FirstIsOne DEF MigrantTypeOK
    <2>3. p \in Pages /\ p \in migrant.copied
      BY <1>0, <2>1 DEF MigrantTypeOK, MigrationHolds
    <2>4. page'[p].there /\ \A q \in Pages : q # p => page'[q] = page[q]
      BY <1>4, <2>2, <2>3, TextFacts DEF Truncate, VaultTypeOK
    <2>5. migrant'.plan = migrant.plan /\ Pending' = Pending /\ migrant'.copied = migrant.copied
      BY <1>0, <1>4, TruncateFacts
    <2>6. MigrationHolds'
      BY <1>0, <2>1, <2>5 DEF MigrationHolds, Owed
    <2> QED
      BY <2>1, <2>3, <2>4, <2>6, TextRewritten
  <1>5. CASE WriteMigrated
    <2>1. UNCHANGED <<backup, hub, vaultPast>> /\ migrant.at = "write" /\ Pending # {}
      BY <1>0, <1>5 DEF WriteMigrated, ApartFromMigrant, MigrantTypeOK
    <2>2. PICK p \in Pending : p = FirstOf(Pending)
      BY <1>0, <2>1, FirstIsOne DEF MigrantTypeOK
    <2>3. p \in Pages /\ p \in migrant.copied /\ migrant.plan[p].there
      BY <1>0, <2>1 DEF MigrantTypeOK, MigrationHolds
    <2>4. page'[p].there /\ \A q \in Pages : q # p => page'[q] = page[q]
      BY <1>5, <2>2, <2>3 DEF WriteMigrated, VaultTypeOK
    <2>5. /\ Pending' = Pending \ {p} /\ migrant'.copied = migrant.copied
          /\ \A q \in Pending' : migrant'.plan[q] = migrant.plan[q]
      BY <1>0, <1>5, <2>2, WriteFacts
    <2>6. MigrationHolds'
      BY <1>0, <2>1, <2>5 DEF MigrationHolds, Owed
    <2> QED
      BY <2>1, <2>3, <2>4, <2>6, TextRewritten
  <1>6. CASE MigrationEnds \/ MigrationDies
    <2>1. UNCHANGED <<page, backup, hub>> /\ SameOwn
      BY <1>0, <1>6, FaultFacts DEF MigrationEnds, MigrationDies, ApartFromMigrant, SameOwn
    <2>2. MigrationHolds'
      BY <1>6, MigrantRestFacts DEF MigrationEnds, MigrationDies, MigrationHolds
    <2> QED
      BY <2>1, <2>2, TextCopied
  <1> QED
    BY <1>1, <1>2, <1>3, <1>4, <1>5, <1>6 DEF Migrates

LEMMA TextHolds ==
    ASSUME VaultTypeOK, TextInv, BatchHolds, [VaultNext]_vaultVars
    PROVE  TextInv'
  <1>1. CASE HubCalled
    BY <1>1, TextOfCalls, TextOfPuts DEF HubCalled
  <1>2. CASE HubGoes
    BY <1>2, TextOfCalls, TextOfPuts, TextOfReplace DEF HubGoes
  <1>3. CASE Migrates
    BY <1>3, TextOfMigration
  <1>4. ASSUME NEW p \in Pages, UserWrites(p) \/ UserDrops(p) \/ UserTakes(p) PROVE TextInv'
    BY <1>4, TextOfWord, TextOfDropzone
  <1>5. CASE UNCHANGED vaultVars
    BY <1>5, TextApart DEF vaultVars, SameOwn
  <1> QED
    BY <1>1, <1>2, <1>3, <1>4, <1>5 DEF VaultNext
-----------------------------------------------------------------------------
(* The tasks of the dropzone.                                              *)

SameTasks == UNCHANGED <<seen, handed, noted>> /\ vaultPast'.again = vaultPast.again

LEMMA TasksApart ==
    ASSUME TasksInv, SameTasks, UNCHANGED hub \/ (hub.at # "record" /\ hub'.at # "record")
    PROVE  TasksInv'
  <1>1. TasksAreExplained'
    BY DEF TasksInv, TasksAreExplained, SameTasks
  <1>2. TasksHold'
    BY DEF TasksInv, TasksHold, SameTasks, Next1
  <1> QED
    BY <1>1, <1>2 DEF TasksInv

\* Every step but those that make a task, a run record of one, or forget.
LEMMA TasksOfOthers ==
    ASSUME VaultTypeOK, TasksInv,
           \/ HubCalled \/ Migrates \/ \E p \in Pages : UserWrites(p) \/ UserDrops(p) \/ UserTakes(p)
           \/ ReplacePage \/ ReplaceFails \/ IngestRaises \/ SkipExisting \/ CreateRecord \/ IngestEnds
           \/ PassSeen \/ UnreadableFile \/ ScanEnds
    PROVE  TasksInv'
  <1> USE DEF ApartFromHub
  <1>0. HubTypeOK /\ vaultPast \in Past /\ \A p \in Pages : page[p] \in Page
    BY DEF VaultTypeOK
  <1>1. CASE HubCalled
    <2>1. ASSUME NEW p \in Pages, AppendToHeading(p) PROVE TasksInv'
      BY <1>0, <2>1, PuttingFacts, FaultFacts, TasksApart DEF AppendToHeading, Begins, SameTasks
    <2>2. ASSUME NEW p \in Pages, NEW headed \in BOOLEAN, WriteDashboard(p, headed) PROVE TasksInv'
      BY <1>0, <2>2, MergedFacts, PuttingFacts, FaultFacts, TasksApart DEF WriteDashboard, Begins, SameTasks
    <2>3. ASSUME NEW batch \in Batches, NEW strict \in BOOLEAN, NEW live \in BOOLEAN, Ingest(batch, strict, live)
          PROVE  TasksInv'
      BY <1>0, <2>3, IngestFacts, FaultFacts, TasksApart DEF Ingest, Begins, SameTasks
    <2>4. ASSUME NEW recorder \in BOOLEAN, ScanDropzone(recorder) PROVE TasksInv'
      BY <1>0, <2>4, ScanFacts, FaultFacts, TasksApart DEF ScanDropzone, Begins, SameTasks
    <2> QED
      BY <1>1, <2>1, <2>2, <2>3, <2>4 DEF HubCalled
  <1>2. CASE Migrates
    <2>1. UNCHANGED <<hub, seen, handed, noted>> /\ vaultPast'.again = vaultPast.again
      BY <1>0, <1>2, FaultFacts DEF Migrates, ApartFromMigrant, PlanMigration, BackUp, CopiesMade, Truncate,
         WriteMigrated, MigrationEnds, MigrationDies
    <2> QED
      BY <2>1, TasksApart DEF SameTasks
  <1>3. ASSUME NEW p \in Pages, UserWrites(p) \/ UserDrops(p) \/ UserTakes(p) PROVE TasksInv'
    <2>1. vaultPast'.again = vaultPast.again
      BY <1>3, WordFacts, DropFacts, TakeFacts
    <2> QED
      BY <1>3, <2>1, TasksApart DEF UserWrites, UserDrops, UserTakes, SameTasks
  <1>4. CASE ReplacePage
    BY <1>0, <1>4, RestFacts, WrittenFacts, TasksApart DEF ReplacePage, SameTasks
  <1>5. CASE ReplaceFails
    BY <1>0, <1>5, RestFacts, FaultFacts, TasksApart DEF ReplaceFails, SameTasks
  <1>6. CASE IngestRaises \/ IngestEnds
    <2>1. hub.at = "ingest" /\ hub'.at = "idle" /\ SameTasks
      BY <1>6, RestFacts DEF IngestRaises, IngestEnds, Ingesting, SameTasks
    <2> QED
      BY <2>1, TasksApart
  <1>7. CASE UnreadableFile \/ ScanEnds
    <2>1. hub.at = "scan" /\ hub'.at = "idle" /\ SameTasks
      BY <1>7, RestFacts DEF UnreadableFile, ScanEnds, Scanning, SameTasks
    <2> QED
      BY <2>1, TasksApart
  <1>8. CASE SkipExisting
    BY <1>0, <1>8, SkipFacts, TasksApart DEF SkipExisting, Ingesting, SameTasks
  <1>9. CASE CreateRecord
    <2>1. hub.at = "ingest" /\ SameTasks
      BY <1>9 DEF CreateRecord, Ingesting, SameTasks
    <2>2. CASE ~hub.live
      BY <1>0, <1>9, <2>1, <2>2, DryRunFacts, TasksApart DEF CreateRecord
    <2>3. CASE hub.live
      BY <1>0, <1>9, <2>1, <2>3, RenderedFacts, CreateFacts, TasksApart DEF CreateRecord
    <2> QED
      BY <2>2, <2>3
  <1>10. CASE PassSeen
    BY <1>0, <1>10, NextFacts, TasksApart DEF PassSeen, Scanning, SameTasks
  <1> QED
    BY <1>1, <1>2, <1>3, <1>4, <1>5, <1>6, <1>7, <1>8, <1>9, <1>10

LEMMA TasksOfHandTask ==
    ASSUME VaultTypeOK, TasksInv, HandTask
    PROVE  TasksInv'
  <1> USE DEF TasksInv, TasksAreExplained, TasksHold
  <1>0. HubTypeOK /\ vaultPast \in Past /\ handed \in [Pages -> Nat] /\ noted \in [Pages -> Nat]
        /\ \A p \in Pages : vaultPast.again[p] \in Nat
    BY DEF VaultTypeOK, Past
  <1>1. hub.at = "scan" /\ Next1 \notin seen /\ UNCHANGED <<seen, noted>>
    BY DEF HandTask, Scanning
  <1>2. CASE UNCHANGED handed /\ hub' = HubAtRest /\ Fault
    BY <1>0, <1>1, <1>2, RestFacts, FaultFacts, TasksApart DEF SameTasks
  <1>3. CASE /\ handed' = [handed EXCEPT ![Next1] = @ + 1]
             /\ hub' = [hub EXCEPT !.at = "record"] /\ UNCHANGED vaultPast
    <2>1. hub'.at = "record" /\ Next1' = Next1
      BY <1>0, <1>3, RecordFacts DEF Next1
    <2>2. \A p \in Pages : handed'[p] = IF p = Next1 THEN handed[p] + 1 ELSE handed[p]
      BY <1>0, <1>3
    <2>3. ASSUME NEW p \in Pages
          PROVE  /\ handed'[p] <= 1 + vaultPast.again[p] /\ noted[p] <= handed'[p]
                 /\ p \in seen => handed'[p] > 0
                 /\ p \notin seen /\ p # Next1 => handed'[p] <= vaultPast.again[p]
                 /\ p = Next1 => p \notin seen /\ noted[p] < handed'[p]
      <3>1. handed[p] \in Nat /\ noted[p] \in Nat /\ vaultPast.again[p] \in Nat
        BY <1>0
      <3>2. CASE p = Next1
        BY <1>1, <2>2, <3>1, <3>2
      <3>3. CASE p # Next1
        BY <1>1, <2>2, <3>1, <3>3
      <3> QED
        BY <3>2, <3>3
    <2> QED
      BY <1>1, <1>3, <2>1, <2>3
  <1>4. CASE /\ handed' = [handed EXCEPT ![Next1] = @ + 1]
             /\ hub' = HubAtRest /\ vaultPast' = Again(Next1)
    <2>1. hub'.at = "idle"
      BY <1>4, RestFacts
    <2>2. \A p \in Pages : handed'[p] = IF p = Next1 THEN handed[p] + 1 ELSE handed[p]
      BY <1>0, <1>4
    <2>3. \A p \in Pages : vaultPast'.again[p] = IF Next1 = p THEN vaultPast.again[p] + 1 ELSE vaultPast.again[p]
      BY <1>0, <1>4, AgainFacts
    <2>4. ASSUME NEW p \in Pages
          PROVE  /\ handed'[p] <= 1 + vaultPast'.again[p] /\ noted[p] <= handed'[p]
                 /\ p \in seen => handed'[p] > 0
                 /\ p \notin seen => handed'[p] <= vaultPast'.again[p]
      <3>1. handed[p] \in Nat /\ noted[p] \in Nat /\ vaultPast.again[p] \in Nat
        BY <1>0
      <3>2. CASE p = Next1
        BY <1>1, <2>2, <2>3, <3>1, <3>2
      <3>3. CASE p # Next1
        BY <1>1, <2>2, <2>3, <3>1, <3>3
      <3> QED
        BY <3>2, <3>3
    <2> QED
      BY <1>1, <1>4, <2>1, <2>4
  <1> QED
    BY <1>2, <1>3, <1>4 DEF HandTask

LEMMA TasksOfRecordRun ==
    ASSUME VaultTypeOK, TasksInv, RecordRun
    PROVE  TasksInv'
  <1> USE DEF TasksInv, TasksAreExplained, TasksHold
  <1>0. HubTypeOK /\ vaultPast \in Past /\ handed \in [Pages -> Nat] /\ noted \in [Pages -> Nat]
        /\ \A p \in Pages : vaultPast.again[p] \in Nat
    BY DEF VaultTypeOK, Past
  <1>1. hub.at = "record" /\ UNCHANGED handed
    BY DEF RecordRun
  <1>2. CASE /\ noted' = [noted EXCEPT ![Next1] = IF hub.recorder THEN @ + 1 ELSE @]
             /\ seen' = seen \cup {Next1}
             /\ hub' = [hub EXCEPT !.at = "scan", !.left = Tail(@)] /\ UNCHANGED vaultPast
    <2>1. hub'.at = "scan"
      BY <1>0, <1>2, RecordedFacts
    <2>2. \A p \in Pages : noted'[p] = noted[p] \/ (p = Next1 /\ noted'[p] = noted[p] + 1)
      BY <1>0, <1>2
    <2>3. ASSUME NEW p \in Pages
          PROVE  /\ handed[p] <= 1 + vaultPast.again[p] /\ noted'[p] <= handed[p]
                 /\ p \in seen' => handed[p] > 0
                 /\ p \notin seen' => handed[p] <= vaultPast.again[p]
      <3>1. handed[p] \in Nat /\ noted[p] \in Nat /\ vaultPast.again[p] \in Nat
        BY <1>0
      <3>2. CASE p = Next1
        BY <1>1, <1>2, <2>2, <3>1, <3>2
      <3>3. CASE p # Next1
        BY <1>1, <1>2, <2>2, <3>1, <3>3
      <3> QED
        BY <3>2, <3>3
    <2> QED
      BY <1>1, <1>2, <2>1, <2>3
  <1>3. CASE vaultPast' = Again(Next1) /\ hub' = HubAtRest /\ UNCHANGED <<seen, noted>>
    <2>1. hub'.at = "idle"
      BY <1>3, RestFacts
    <2>2. \A p \in Pages : vaultPast'.again[p] = IF Next1 = p THEN vaultPast.again[p] + 1 ELSE vaultPast.again[p]
      BY <1>0, <1>3, AgainFacts
    <2>3. ASSUME NEW p \in Pages
          PROVE  /\ handed[p] <= 1 + vaultPast'.again[p] /\ noted[p] <= handed[p]
                 /\ p \in seen => handed[p] > 0
                 /\ p \notin seen => handed[p] <= vaultPast'.again[p]
      <3>1. handed[p] \in Nat /\ noted[p] \in Nat /\ vaultPast.again[p] \in Nat
        BY <1>0
      <3>2. CASE p = Next1
        BY <1>1, <2>2, <3>1, <3>2
      <3>3. CASE p # Next1
        BY <1>1, <2>2, <3>1, <3>3
      <3> QED
        BY <3>2, <3>3
    <2> QED
      BY <1>1, <1>3, <2>1, <2>3
  <1> QED
    BY <1>2, <1>3 DEF RecordRun

LEMMA TasksOfDeath ==
    ASSUME VaultTypeOK, TasksInv, HubDies
    PROVE  TasksInv'
  <1> USE DEF TasksInv, TasksAreExplained, TasksHold
  <1>1. /\ \A p \in Pages : handed[p] \in Nat /\ noted[p] \in Nat /\ vaultPast.again[p] \in Nat
        /\ vaultPast \in Past
    BY DEF VaultTypeOK, Past
  <1>2. hub'.at = "idle" /\ seen' = {} /\ UNCHANGED <<handed, noted>>
    BY RestFacts DEF HubDies
  <1>3. \A q \in Pages : vaultPast'.again[q] =
            IF handed[q] > 0 THEN vaultPast.again[q] + 1 ELSE vaultPast.again[q]
    BY <1>1, DeathFacts
  <1>4. ASSUME NEW p \in Pages
        PROVE  handed[p] <= vaultPast'.again[p] /\ handed[p] <= 1 + vaultPast'.again[p] /\ noted[p] <= handed[p]
    BY <1>1, <1>3
  <1> QED
    BY <1>2, <1>4

LEMMA TasksStep ==
    ASSUME VaultTypeOK, TasksInv, [VaultNext]_vaultVars
    PROVE  TasksInv'
  <1>1. CASE UNCHANGED vaultVars
    BY <1>1, TasksApart DEF vaultVars, SameTasks
  <1> QED
    BY <1>1, TasksOfOthers, TasksOfHandTask, TasksOfRecordRun, TasksOfDeath DEF VaultNext, HubGoes
-----------------------------------------------------------------------------
(* The summary of an ingestion.                                            *)

NoRecordGone == \A p \in Records : page[p].there => page'[p].there

\* The head of what is left is the record after those that are done.
LEMMA NextOfListing ==
    ASSUME NEW all, NEW left, Listing(all, left), left # <<>>
    PROVE  /\ Listing(all, Tail(left)) /\ Len(Tail(left)) = Len(left) - 1
           /\ Head(left) \in Item /\ Head(left) = all[Len(all) - Len(left) + 1] /\ Len(left) > 0
           /\ Len(all) \in Nat /\ Len(left) \in Nat
  <1>1. all \in Seq(Item) /\ left \in Seq(Item) /\ Len(left) <= Len(all)
    BY DEF Listing
  <1> HIDE DEF Item
  <1>2. Len(all) \in Nat /\ Len(left) \in Nat /\ Len(left) > 0 /\ Head(left) = left[1] /\ Head(left) \in Item
    BY <1>1
  <1>3. Tail(left) \in Seq(Item) /\ Len(Tail(left)) = Len(left) - 1
    BY <1>1
  <1>4. \A k \in 1..Len(Tail(left)) : Tail(left)[k] = left[k + 1]
    BY <1>1, <1>2, <1>3
  <1>5. ASSUME NEW k \in 1..Len(Tail(left)) PROVE Tail(left)[k] = all[Len(all) - Len(Tail(left)) + k]
    <2>1. k + 1 \in 1..Len(left) /\ Len(all) - Len(left) + (k + 1) = Len(all) - Len(Tail(left)) + k
      BY <1>2, <1>3
    <2>2. left[k + 1] = all[Len(all) - Len(left) + (k + 1)]
      BY <2>1 DEF Listing
    <2> QED
      BY <1>4, <2>1, <2>2
  <1>6. left[1] = all[Len(all) - Len(left) + 1]
    BY <1>2 DEF Listing
  <1> QED
    BY <1>1, <1>2, <1>3, <1>5, <1>6 DEF Listing

LEMMA Difference ==
    ASSUME NEW m \in Nat, NEW n \in Nat, n <= m
    PROVE  m - n \in Nat /\ m - n <= m /\ (n > 0 => m - n + 1 <= m /\ m - (n - 1) = m - n + 1)
  OBVIOUS

\* What is there stays there.
LEMMA AllStay ==
    ASSUME NEW all \in Seq(Item), NEW n \in Nat, n <= Len(all), AllThere(all, n), NoRecordGone
    PROVE  AllThere(all, n)'
  <1>1. SUFFICES ASSUME NEW k \in 1..n PROVE page'[all[k].page].there
    BY DEF AllThere
  <1>2. all[k] \in Item
    BY ElementOfSeq
  <1>3. all[k].page \in Records
    BY <1>2 DEF Item
  <1> QED
    BY <1>3 DEF AllThere, NoRecordGone

LEMMA MadeStay ==
    ASSUME NEW set, NEW n, Recorded(set, n), NoRecordGone
    PROVE  Recorded(set, n)'
  BY DEF Recorded, NoRecordGone

\* A step that does not touch the call of the hub, and takes no record away.
LEMMA BatchApart ==
    ASSUME BatchHolds, UNCHANGED hub, NoRecordGone
    PROVE  BatchHolds'
  <1>1. hub.at = "ingest" => hub.op = "ingest"
    BY DEF BatchHolds
  <1>2. ASSUME hub.at \in {"ingest", "put"} /\ hub.op = "ingest"
        PROVE  /\ Recorded(hub.made, hub.counts.written)'
               /\ hub.live => AllThere(hub.all, Done)'
    <2>1. /\ Listing(hub.all, hub.left) /\ Recorded(hub.made, hub.counts.written)
          /\ hub.live => AllThere(hub.all, Done)
      BY <1>2 DEF BatchHolds
    <2>2. PICK made, n, all, sofar :
              made = hub.made /\ n = hub.counts.written /\ all = hub.all /\ sofar = Done
      OBVIOUS
    <2>3. Recorded(made, n)'
      BY <2>1, <2>2, MadeStay
    <2>4. all \in Seq(Item) /\ sofar \in Nat /\ sofar <= Len(all)
      <3>1. hub.all \in Seq(Item) /\ hub.left \in Seq(Item) /\ Len(hub.left) <= Len(hub.all)
        BY <2>1 DEF Listing
      <3> HIDE DEF Item
      <3>2. Len(hub.all) \in Nat /\ Len(hub.left) \in Nat
        BY <3>1
      <3>3. Done \in Nat /\ Done <= Len(hub.all)
        BY <3>1, <3>2, Difference DEF Done
      <3> QED
        BY <2>2, <3>1, <3>3
    <2>5. hub.live => AllThere(all, sofar)'
      BY <2>1, <2>2, <2>4, AllStay
    <2>6. Done' = Done
      BY DEF Done
    <2> QED
      BY <2>2, <2>3, <2>5, <2>6 DEF Recorded, AllThere
  <1> QED
    BY <1>1, <1>2 DEF BatchHolds, Done, Next1, Listing
\* A step that deals with the next record of the batch.
LEMMA BatchAdvances ==
    ASSUME BatchHolds, HubTypeOK, HubTypeOK', SameBatch, NoRecordGone,
           hub.at \in {"ingest", "put"}, hub.op = "ingest", hub.left # <<>>,
           hub'.at = "ingest", hub'.left = Tail(hub.left),
           hub'.counts.written + hub'.counts.skipped + hub'.counts.dry_run =
               hub.counts.written + hub.counts.skipped + hub.counts.dry_run + 1,
           Recorded(hub.made, hub.counts.written)',
           IF hub.live THEN hub'.counts.dry_run = hub.counts.dry_run /\ page'[Next1.page].there
           ELSE hub'.made = hub.made
    PROVE  BatchHolds'
  <1>1. /\ Listing(hub.all, hub.left) /\ Recorded(hub.made, hub.counts.written)
        /\ hub.counts.written + hub.counts.skipped + hub.counts.dry_run = Done
        /\ IF hub.live THEN hub.counts.dry_run = 0 /\ AllThere(hub.all, Done) ELSE hub.made = {}
    BY DEF BatchHolds
  <1>2. PICK all, left, sofar : all = hub.all /\ left = hub.left /\ sofar = Done
    OBVIOUS
  <1>3. /\ Listing(all, Tail(left)) /\ Len(Tail(left)) = Len(left) - 1
        /\ Head(left) \in Item /\ Head(left) = all[Len(all) - Len(left) + 1] /\ Len(left) > 0
        /\ Len(all) \in Nat /\ Len(left) \in Nat
    BY <1>1, <1>2, NextOfListing
  <1>4. all \in Seq(Item) /\ Len(left) <= Len(all)
    BY <1>1, <1>2 DEF Listing
  <1>5. sofar = Len(all) - Len(left) /\ hub'.all = all /\ hub'.left = Tail(left)
    BY <1>2 DEF Done, SameBatch
  <1>6. sofar \in Nat /\ sofar + 1 <= Len(all) /\ sofar <= Len(all) /\ Len(all) - Len(Tail(left)) = sofar + 1
    <2>1. PICK m \in Nat, n \in Nat : m = Len(all) /\ n = Len(left)
      BY <1>3
    <2>2. n <= m /\ n > 0 /\ sofar = m - n /\ Len(Tail(left)) = n - 1
      BY <1>3, <1>4, <1>5, <2>1
    <2>3. m - n \in Nat /\ m - n <= m /\ m - n + 1 <= m /\ m - (n - 1) = m - n + 1
      BY <2>2, Difference
    <2> QED
      BY <2>1, <2>2, <2>3
  <1>7. Done' = sofar + 1
    <2>1. Done' = Len(all) - Len(Tail(left))
      BY <1>5 DEF Done
    <2> QED
      BY <1>6, <2>1
  <1>8. hub.live => AllThere(all, sofar + 1)'
    <2>1. SUFFICES ASSUME hub.live PROVE AllThere(all, sofar + 1)'
      OBVIOUS
    <2>2. AllThere(all, sofar)'
      BY <1>1, <1>2, <1>4, <1>6, <2>1, AllStay
    <2>3. page'[all[sofar + 1].page].there
      BY <1>2, <1>3, <1>5, <2>1 DEF Next1
    <2>4. \A k \in 1..sofar + 1 : k \in 1..sofar \/ k = sofar + 1
      BY <1>6
    <2> QED
      BY <2>2, <2>3, <2>4 DEF AllThere
  <1>9. Listing(hub.all, hub.left)'
    BY <1>3, <1>5 DEF Listing
  <1>10. hub'.live => AllThere(hub.all, Done)'
    BY <1>5, <1>7, <1>8 DEF AllThere, SameBatch
  <1>11. hub'.counts.written + hub'.counts.skipped + hub'.counts.dry_run = Done'
    BY <1>1, <1>2, <1>7
  <1>12. IF hub'.live THEN hub'.counts.dry_run = 0 /\ AllThere(hub.all, Done)' ELSE hub'.made = {}
    BY <1>1, <1>10 DEF SameBatch
  <1>13. hub'.op = "ingest" /\ hub'.at # "put"
    BY DEF SameBatch
  <1> QED
    BY <1>1, <1>9, <1>11, <1>12, <1>13 DEF BatchHolds

LEMMA BatchBegins ==
    ASSUME NEW batch \in Batches, NEW strict \in BOOLEAN, NEW live \in BOOLEAN, Ingest(batch, strict, live)
    PROVE  BatchHolds'
  <1>1. /\ hub'.at = "ingest" /\ hub'.op = "ingest" /\ hub'.left = batch /\ hub'.all = batch
        /\ hub'.live = live /\ hub'.made = {} /\ hub'.counts = NoCounts
    BY IngestFacts
  <1>2. batch \in Seq(Item)
    BY VaultAssumption DEF Item, Records
  <1> HIDE DEF Item
  <1>3. Len(batch) \in Nat /\ Len(batch) - Len(batch) = 0
    BY <1>2
  <1>4. Listing(batch, batch)
    BY <1>2, <1>3 DEF Listing
  <1>5. Listing(hub.all, hub.left)' /\ Done' = 0
    BY <1>1, <1>3, <1>4 DEF Listing, Done
  <1>6. Recorded(hub.made, hub.counts.written)'
    BY <1>1, FS_EmptySet DEF Recorded, NoCounts
  <1>7. AllThere(hub.all, Done)'
    BY <1>5 DEF AllThere
  <1> QED
    BY <1>1, <1>5, <1>6, <1>7 DEF BatchHolds, NoCounts

LEMMA BatchOver ==
    ASSUME hub'.at \notin {"ingest", "put"} \/ (hub'.at = "put" /\ hub'.op # "ingest")
    PROVE  BatchHolds'
  BY DEF BatchHolds

LEMMA RecordsStay ==
    ASSUME VaultTypeOK, PutHolds, MigrationHolds, VaultNext
    PROVE  NoRecordGone
  <1> SUFFICES ASSUME NEW p \in Records, page[p].there PROVE page'[p].there
    BY DEF NoRecordGone
  <1>1. p \in Pages /\ Zone[p] = "records"
    BY DEF Records
  <1>2. CASE HubCalled
    BY <1>2 DEF HubCalled, AppendToHeading, WriteDashboard, Ingest, ScanDropzone, ApartFromHub
  <1>3. CASE ReplacePage
    BY <1>1, <1>3, PutPage DEF ReplacePage, PutHolds
  <1>4. CASE HubGoes /\ ~ReplacePage
    BY <1>4 DEF HubGoes, ReplaceFails, IngestRaises, SkipExisting, CreateRecord, IngestEnds, PassSeen,
       UnreadableFile, HandTask, RecordRun, ScanEnds, HubDies, ApartFromHub
  <1>5. CASE Truncate
    BY <1>1, <1>5, TextFacts DEF Truncate, VaultTypeOK
  <1>6. CASE WriteMigrated
    <2>1. FirstOf(Pending) \in Pending
      BY <1>6, FirstIsOne DEF WriteMigrated, VaultTypeOK, MigrantTypeOK
    <2>2. migrant.plan[FirstOf(Pending)].there
      BY <2>1 DEF MigrationHolds
    <2> QED
      BY <1>1, <1>6, <2>2 DEF WriteMigrated, VaultTypeOK
  <1>7. CASE Migrates /\ ~Truncate /\ ~WriteMigrated
    BY <1>7 DEF Migrates, PlanMigration, BackUp, CopiesMade, MigrationEnds, MigrationDies
  <1>8. ASSUME NEW q \in Pages, UserWrites(q) \/ UserDrops(q) \/ UserTakes(q) PROVE page'[p].there
    <2>1. CASE UserWrites(q)
      BY <1>1, <2>1, WordFacts
    <2>2. CASE UserDrops(q)
      BY <1>1, <2>2, DropFacts
    <2>3. CASE UserTakes(q)
      BY <1>1, <2>3, TakeFacts DEF UserTakes
    <2> QED
      BY <1>8, <2>1, <2>2, <2>3
  <1> QED
    BY <1>2, <1>3, <1>4, <1>5, <1>6, <1>7, <1>8 DEF VaultNext, HubGoes
LEMMA BatchOfSkip ==
    ASSUME VaultTypeOK, BatchHolds, SkipExisting \/ (CreateRecord /\ ~hub.live)
    PROVE  BatchHolds'
  <1>0. HubTypeOK /\ hub.counts \in Summary
    BY DEF VaultTypeOK, HubTypeOK
  <1>1. /\ hub.at = "ingest" /\ hub.op = "ingest" /\ hub.left # <<>> /\ NoRecordGone /\ UNCHANGED page
    BY DEF SkipExisting, CreateRecord, Ingesting, BatchHolds, ApartFromHub, NoRecordGone
  <1>2. Recorded(hub.made, hub.counts.written)
    BY <1>1 DEF BatchHolds
  <1>3. CASE SkipExisting
    <2>1. /\ HubTypeOK' /\ SameBatch /\ hub'.at = "ingest" /\ hub'.left = Tail(hub.left) /\ hub'.made = hub.made
          /\ hub'.counts.written = hub.counts.written /\ hub'.counts.dry_run = hub.counts.dry_run
          /\ hub'.counts.skipped = hub.counts.skipped + 1
      BY <1>0, <1>1, <1>3, SkipFacts DEF SkipExisting
    <2>2. page'[Next1.page].there
      BY <1>1, <1>3 DEF SkipExisting, Existing
    <2>3. Recorded(hub.made, hub.counts.written)'
      BY <1>1, <1>2, <2>1 DEF Recorded
    <2>4. hub'.counts.written + hub'.counts.skipped + hub'.counts.dry_run =
              hub.counts.written + hub.counts.skipped + hub.counts.dry_run + 1
      BY <1>0, <2>1 DEF Summary
    <2> QED
      BY <1>0, <1>1, <2>1, <2>2, <2>3, <2>4, BatchAdvances
  <1>4. CASE CreateRecord /\ ~hub.live
    <2>1. /\ HubTypeOK' /\ SameBatch /\ hub'.at = "ingest" /\ hub'.left = Tail(hub.left) /\ hub'.made = hub.made
          /\ hub'.counts.written = hub.counts.written /\ hub'.counts.skipped = hub.counts.skipped
          /\ hub'.counts.dry_run = hub.counts.dry_run + 1
      BY <1>0, <1>1, <1>4, DryRunFacts DEF CreateRecord
    <2>3. Recorded(hub.made, hub.counts.written)'
      BY <1>1, <1>2, <2>1 DEF Recorded
    <2>4. hub'.counts.written + hub'.counts.skipped + hub'.counts.dry_run =
              hub.counts.written + hub.counts.skipped + hub.counts.dry_run + 1
      BY <1>0, <2>1 DEF Summary
    <2> QED
      BY <1>0, <1>1, <1>4, <2>1, <2>3, <2>4, BatchAdvances
  <1> QED
    BY <1>3, <1>4

LEMMA BatchOfCreate ==
    ASSUME VaultTypeOK, BatchHolds, CreateRecord, hub.live
    PROVE  BatchHolds'
  <1>0. HubTypeOK
    BY DEF VaultTypeOK
  <1>1. hub.at = "ingest" /\ hub.op = "ingest" /\ hub.left # <<>> /\ ~page[Next1.page].there /\ UNCHANGED page
    BY DEF CreateRecord, Ingesting, BatchHolds, ApartFromHub, Existing
  <1>2. /\ HubTypeOK' /\ SameBatch /\ hub'.at = "put" /\ hub'.page = Next1.page
        /\ hub'.left = hub.left /\ hub'.made = hub.made /\ hub'.counts = hub.counts
    BY <1>0, RenderedFacts, CreateFacts DEF CreateRecord
  <1>3. Next1.page \notin hub.made
    BY <1>1 DEF BatchHolds, Recorded
  <1>4. Listing(hub.all, hub.left)' /\ Done' = Done /\ Next1' = Next1
    BY <1>1, <1>2 DEF BatchHolds, Listing, Done, Next1, SameBatch
  <1>5. Recorded(hub.made, hub.counts.written)'
    BY <1>1, <1>2 DEF BatchHolds, Recorded
  <1>6. AllThere(hub.all, Done)'
    BY <1>1, <1>2, <1>4 DEF BatchHolds, AllThere, SameBatch
  <1> QED
    BY <1>1, <1>2, <1>3, <1>4, <1>5, <1>6 DEF BatchHolds, SameBatch

LEMMA BatchOfReplace ==
    ASSUME VaultTypeOK, BatchHolds, PutHolds, NoRecordGone, ReplacePage, hub.op = "ingest"
    PROVE  BatchHolds'
  <1>0. HubTypeOK /\ hub.counts \in Summary
    BY DEF VaultTypeOK, HubTypeOK
  <1>1. hub.at = "put" /\ hub.left # <<>> /\ hub.live /\ hub.page = Next1.page /\ hub.page \notin hub.made
        /\ Listing(hub.all, hub.left) /\ Recorded(hub.made, hub.counts.written)
    BY DEF ReplacePage, BatchHolds
  <1>2. /\ HubTypeOK' /\ SameBatch /\ hub'.at = "ingest" /\ hub'.left = Tail(hub.left)
        /\ hub'.made = hub.made \cup {hub.page}
        /\ hub'.counts.skipped = hub.counts.skipped /\ hub'.counts.dry_run = hub.counts.dry_run
        /\ hub'.counts.written = hub.counts.written + 1
    BY <1>0, WrittenFacts DEF ReplacePage
  <1>3. hub.page \in Records
    <2>1. PICK all, left : all = hub.all /\ left = hub.left
      OBVIOUS
    <2>2. Head(left) \in Item
      BY <1>1, <2>1, NextOfListing
    <2> QED
      BY <1>1, <2>1, <2>2 DEF Next1, Item
  <1>4. page'[hub.page].there
    BY <1>1, PutPage DEF PutHolds
  <1>5. Recorded(hub.made, hub.counts.written)'
    <2>1. IsFiniteSet(hub.made) /\ hub.counts.written = Cardinality(hub.made)
      BY <1>1 DEF Recorded
    <2>2. IsFiniteSet(hub'.made) /\ Cardinality(hub'.made) = Cardinality(hub.made) + 1
      BY <1>1, <1>2, <2>1, FS_AddElement
    <2>3. \A p \in hub'.made : p \in Records /\ page'[p].there
      BY <1>1, <1>2, <1>3, <1>4 DEF Recorded, NoRecordGone
    <2> QED
      BY <1>2, <2>1, <2>2, <2>3 DEF Recorded
  <1>6. hub'.counts.written + hub'.counts.skipped + hub'.counts.dry_run =
            hub.counts.written + hub.counts.skipped + hub.counts.dry_run + 1
    BY <1>0, <1>2 DEF Summary
  <1> QED
    BY <1>0, <1>1, <1>2, <1>4, <1>5, <1>6, BatchAdvances

LEMMA BatchStep ==
    ASSUME VaultTypeOK, TextInv, BatchHolds, [VaultNext]_vaultVars
    PROVE  BatchHolds'
  <1> USE DEF ApartFromHub
  <1>0. HubTypeOK /\ PutHolds /\ MigrationHolds /\ \A p \in Pages : page[p] \in Page
    BY DEF VaultTypeOK, TextInv
  <1>1. CASE UNCHANGED vaultVars
    BY <1>1, BatchApart DEF vaultVars, NoRecordGone
  <1>2. SUFFICES ASSUME VaultNext, NoRecordGone PROVE BatchHolds'
    BY <1>0, <1>1, RecordsStay
  <1>3. ASSUME NEW p \in Pages, AppendToHeading(p) PROVE BatchHolds'
    BY <1>0, <1>3, PuttingFacts, BatchOver DEF AppendToHeading
  <1>4. ASSUME NEW p \in Pages, NEW headed \in BOOLEAN, WriteDashboard(p, headed) PROVE BatchHolds'
    BY <1>0, <1>4, MergedFacts, PuttingFacts, BatchOver DEF WriteDashboard
  <1>5. ASSUME NEW batch \in Batches, NEW strict \in BOOLEAN, NEW live \in BOOLEAN, Ingest(batch, strict, live)
        PROVE  BatchHolds'
    BY <1>5, BatchBegins
  <1>6. ASSUME NEW recorder \in BOOLEAN, ScanDropzone(recorder) PROVE BatchHolds'
    BY <1>6, ScanFacts, BatchOver
  <1>7. CASE ReplacePage
    <2>1. CASE hub.op = "ingest"
      BY <1>0, <1>2, <1>7, <2>1, BatchOfReplace
    <2>2. CASE hub.op # "ingest"
      BY <1>7, <2>2, RestFacts, BatchOver DEF ReplacePage
    <2> QED
      BY <2>1, <2>2
  <1>8. CASE \/ ReplaceFails \/ IngestRaises \/ IngestEnds \/ UnreadableFile \/ ScanEnds \/ HubDies
    <2>1. hub' = HubAtRest
      BY <1>8 DEF ReplaceFails, IngestRaises, IngestEnds, UnreadableFile, ScanEnds, HubDies
    <2> QED
      BY <2>1, RestFacts, BatchOver
  <1>9. CASE SkipExisting \/ CreateRecord
    BY <1>9, BatchOfSkip, BatchOfCreate
  <1>10. CASE PassSeen
    BY <1>0, <1>10, NextFacts, BatchOver DEF PassSeen, Scanning
  <1>11. CASE HandTask
    BY <1>0, <1>11, RestFacts, RecordFacts, BatchOver DEF HandTask
  <1>12. CASE RecordRun
    BY <1>0, <1>12, RestFacts, RecordedFacts, BatchOver DEF RecordRun
  <1>13. CASE Migrates
    <2>1. UNCHANGED hub
      BY <1>13 DEF Migrates, ApartFromMigrant, PlanMigration, BackUp, CopiesMade, Truncate,
         WriteMigrated, MigrationEnds, MigrationDies
    <2> QED
      BY <1>2, <2>1, BatchApart
  <1>14. ASSUME NEW p \in Pages, UserWrites(p) \/ UserDrops(p) \/ UserTakes(p) PROVE BatchHolds'
    BY <1>2, <1>14, BatchApart DEF UserWrites, UserDrops, UserTakes
  <1> QED
    BY <1>2, <1>3, <1>4, <1>5, <1>6, <1>7, <1>8, <1>9, <1>10, <1>11, <1>12, <1>13, <1>14
       DEF VaultNext, HubCalled, HubGoes

-----------------------------------------------------------------------------
(* The theorem.                                                            *)

LEMMA VaultBegins ==
    ASSUME VaultInit
    PROVE  VaultInv
  <1>1. PICK old \in SUBSET Pages : VaultWith(old)
    BY DEF VaultInit
  <1>2. \A p \in Pages : Older(p) \in Page /\ Older(p).there /\ Older(p).heading = (Zone[p] \in {"dashboard", "records"})
    <2>1. ASSUME NEW p \in Pages
          PROVE  Older(p) \in Page /\ Older(p).there /\ Older(p).heading = (Zone[p] \in {"dashboard", "records"})
      <3> DEFINE h == Zone[p] \in {"dashboard", "records"}
      <3>1. h \in BOOLEAN /\ {0} \in SUBSET Nat
        OBVIOUS
      <3>2. Older(p) = [Empty EXCEPT !.heading = h, !.legacy = TRUE, !.said = {0}]
        BY DEF Older
      <3> HIDE DEF h
      <3>3. Older(p) \in Page /\ Older(p).there = Empty.there /\ Older(p).heading = h
        BY <3>1, <3>2, TextFacts DEF Page
      <3> QED
        BY <3>3, TextFacts DEF h
    <2> QED
      BY <2>1
  <1>3. \A p \in Pages : page[p] = IF p \in old THEN Older(p) ELSE Absent
    BY <1>1 DEF VaultWith
  <1>4. page \in [Pages -> Page]
    BY <1>1, <1>2, TextFacts DEF VaultWith
  <1>5. /\ backup = [p \in Pages |-> {}] /\ hub = HubAtRest /\ migrant = MigrantAtRest /\ seen = {}
        /\ handed = [p \in Pages |-> 0] /\ noted = handed
        /\ vaultPast = [calls |-> 0, words |-> 0, faults |-> 0, own |-> [p \in Pages |-> page[p].said],
                        late |-> [p \in Pages |-> {}], again |-> handed]
    BY <1>1 DEF VaultWith
  <1>6. vaultPast \in Past /\ vaultPast.again = handed /\ \A p \in Pages : vaultPast.own[p] = page[p].said
    <2>1. \A p \in Pages : page[p].said \in SUBSET Nat
      BY <1>4 DEF Page
    <2>2. [p \in Pages |-> page[p].said] \in [Pages -> SUBSET Nat]
      BY <2>1
    <2> QED
      BY <1>5, <2>2 DEF Past
  <1>7. HubTypeOK /\ hub.at = "idle"
    BY <1>5, TextFacts DEF HubTypeOK, HubAtRest, NoCounts, Summary
  <1>8. MigrantTypeOK /\ Pending = {} /\ migrant.at = "idle"
    BY <1>5 DEF MigrantTypeOK, MigrantAtRest, Pending
  <1>9. VaultTypeOK
    BY <1>4, <1>5, <1>6, <1>7, <1>8 DEF VaultTypeOK
  <1>10. FilesHold
    BY <1>2, <1>3, <1>5, <1>6, TextFacts DEF FilesHold, Unheaded, Owed
  <1>11. TextInv
    BY <1>6, <1>7, <1>8, <1>10 DEF TextInv, UserTextKept, PutHolds, MigrationHolds
  <1>12. TasksInv
    BY <1>5, <1>6, <1>7 DEF TasksInv, TasksAreExplained, TasksHold
  <1>13. BatchHolds
    BY <1>7 DEF BatchHolds
  <1> QED
    BY <1>9, <1>11, <1>12, <1>13 DEF VaultInv

LEMMA AccountIsFull ==
    ASSUME VaultTypeOK, BatchHolds
    PROVE  BatchIsAccounted
  <1> SUFFICES ASSUME hub.at = "ingest", hub.left = <<>>
               PROVE  /\ hub.counts.written + hub.counts.skipped + hub.counts.dry_run = Len(hub.all)
                      /\ hub.counts.written = Cardinality(hub.made)
                      /\ IF hub.live
                         THEN hub.counts.dry_run = 0 /\ \A k \in DOMAIN hub.all : page[hub.all[k].page].there
                         ELSE hub.made = {}
    BY DEF BatchIsAccounted
  <1>1. /\ Listing(hub.all, hub.left) /\ Recorded(hub.made, hub.counts.written)
        /\ hub.counts.written + hub.counts.skipped + hub.counts.dry_run = Done
        /\ IF hub.live THEN hub.counts.dry_run = 0 /\ AllThere(hub.all, Done) ELSE hub.made = {}
    BY DEF BatchHolds
  <1>2. hub.all \in Seq(Item)
    BY <1>1 DEF Listing
  <1> HIDE DEF Item
  <1>3. Done = Len(hub.all) /\ DOMAIN hub.all = 1..Len(hub.all)
    BY <1>2 DEF Done
  <1> QED
    BY <1>1, <1>3 DEF Recorded, AllThere

\* The hub and the migration lose nothing the user wrote before they read the file, make
\* no task or run record without a reason, and give each record of an ingested batch its
\* place in the summary, whatever their order, failed writes and deaths (writer.py,
\* inbox_watcher.py, _ingest.py, note_type_v2.py).
THEOREM VaultIsKept == VaultSpec => []VaultHolds
  <1>1. VaultInit => VaultInv
    BY VaultBegins
  <1>2. VaultInv /\ [VaultNext]_vaultVars => VaultInv'
    BY TypesHold, TextHolds, TasksStep, BatchStep DEF VaultInv
  <1>3. VaultInv => VaultHolds
    BY AccountIsFull DEF VaultInv, VaultHolds, TextInv, TasksInv
  <1> QED
    BY <1>1, <1>2, <1>3, PTL DEF VaultSpec

-----------------------------------------------------------------------------
(* SideNoteDetector: documents, commands and the inductive invariant.      *)

Days == 0..LastDay
RegDocs == UNION {[js -> Tracked] : js \in SUBSET Projects}
DayRebut == [type : AnsweredTypes, note : NoteIds, day : Nat]
OptDocs == [disabled : SUBSET AnsweredTypes, throttled : SUBSET AnsweredTypes, rebuts : SUBSET DayRebut, paused : BOOLEAN]
NoteRow == [project : Projects, type : NoteTypes, refs : SUBSET Days, created : Nat, answered : Int]
Docs == RegDocs \cup (SUBSET NoteRow) \cup OptDocs
MentionMaps == UNION {[js -> SUBSET Days] : js \in SUBSET Projects}
DiskFile == [state : {"missing", "partial", "whole"}, doc : Docs]

Places == {"idle", "open", "write", "replace", "sweep", "resweep", "settings", "projects", "discover", "confirmed",
           "judge", "append"}
Ops == {"none", "pause", "resume", "disable", "accept", "rebut", "candidate", "confirmed", "detect", "cleanup"}
Command ==
    [pc : Places, op : Ops, arg : AnsweredTypes \cup Projects \cup {"none"}, at : Nat, then : Places,
     file : {"registry", "queue", "tmp"}, fd : {"none", "registry", "queue", "tmp", "optout", "gone"},
     doc : Docs, optout : OptDocs, mentions : MentionMaps, rows : SUBSET NoteRow, fresh : SUBSET NoteRow,
     holds : SUBSET Files, disturbed : BOOLEAN]

\* What the vault shows of a note, what the user has said of a document.
Warranted(note) ==
    LET start == note.created - WindowDays IN
    /\ note.project \in approved /\ note.created <= today
    /\ note.refs \subseteq mentioned[note.project] /\ \A d \in note.refs : d >= start
    /\ Cardinality(note.refs) >= TriggerThreshold /\ note.type = TypeFor(Cardinality(note.refs))
    /\ \A d \in touched[note.project] \cup done[note.project] : d < start \/ d >= note.created

SlowedBy(t) == Cardinality({n \in NoteIds : <<t, n>> \in rebutted}) >= RebutThreshold

RegistryBacked(doc) == doc \in RegDocs /\ \A j \in DOMAIN doc : doc[j].status = "confirmed" => j \in approved
QueueBacked(doc) == doc \in SUBSET NoteRow /\ \A note \in doc : Warranted(note)
SettingsBacked(doc) ==
    /\ doc \in OptDocs
    /\ \A r \in doc.rebuts : <<r.type, r.note>> \in rebutted
    /\ \A t \in doc.throttled : SlowedBy(t)

Backed(f, doc) ==
    IF f = "registry" THEN RegistryBacked(doc) ELSE IF f = "queue" THEN QueueBacked(doc) ELSE SettingsBacked(doc)

WorldOK ==
    /\ mentioned \in [Projects -> SUBSET Days] /\ touched \in [Projects -> SUBSET Days] /\ done \in [Projects -> SUBSET Days]
    /\ approved \subseteq Projects /\ rebutted \subseteq AnsweredTypes \X NoteIds /\ today \in Days

DiskOK ==
    /\ disk \in [Files -> DiskFile]
    /\ \A f \in Files : Backed(f, disk[f].doc) /\ (disk[f].state # "whole" => disk[f].doc = EmptyDoc(f))

Saving(l) == l.pc \in {"open", "write", "replace"}
Running(l) == l.pc \in {"settings", "projects", "discover", "confirmed", "judge", "append"}

\* What the place of a command implies, whoever disturbs it.
CommandHolds(l) ==
    /\ l.at <= today
    /\ l.pc = "replace" => l.file = "tmp"
    /\ l.then \in {"idle", "resweep", "settings", "projects", "confirmed"}
    /\ l.pc = "write" => l.fd = l.file \/ (l.file = "tmp" /\ l.fd \in {"optout", "gone"})
    /\ Saving(l) => Backed(l.file, l.doc)
    /\ l.pc \in {"sweep", "resweep"} => l.op \in {"detect", "cleanup"}
    /\ Running(l) => l.op = "detect"
    /\ Saving(l) /\ l.then # "idle" => l.op \in {"detect", "cleanup"}
    /\ Saving(l) /\ l.then \in {"settings", "projects", "confirmed"} => l.op = "detect"
    /\ l.pc = "judge" => \A j \in DOMAIN l.mentions :
            j \in approved /\ l.mentions[j] \subseteq mentioned[j] /\ \A d \in l.mentions[j] : d >= l.at - WindowDays
    /\ l.pc = "append" => \A n \in l.fresh : Warranted(n)

\* No second note of a type on a project within its cooldown.
Cooled(l, rows) ==
    \A note \in l.fresh, row \in rows :
        ~SameId(note, row) /\ row.project = note.project /\ row.type = note.type =>
            \/ row.created > note.created
            \/ note.created - row.created > CooldownOf(l.optout, note.type)

\* What the place of a command implies as long as nobody disturbs it.
Undisturbed(l) ==
    /\ Saving(l) => l.file \in l.holds
    /\ Saving(l) /\ l.file = "tmp" => "optout" \in l.holds /\ KeepsSettings(Load("optout"), l.doc, l)
    /\ l.pc = "open" /\ l.file = "registry" => KeepsProjects(Load("registry"), l.doc, l)
    /\ l.pc = "open" /\ l.file = "queue" => KeepsNotes(Load("queue"), l.doc) /\ Cooled(l, l.doc)
    /\ l.pc = "write" => l.fd = l.file /\ disk[l.file].state = "partial"
    /\ l.pc = "replace" => disk["tmp"] = Whole(l.doc)
    /\ l.pc \in {"judge", "append"} => "queue" \in l.holds /\ Load("queue") = l.rows
    /\ l.pc = "append" => Cooled(l, l.rows) /\ Cooled(l, l.fresh)

ProcHolds(l) == CommandHolds(l) /\ (~l.disturbed => Undisturbed(l))

DetectorInv ==
    /\ WorldOK /\ DiskOK
    /\ proc \in [Procs -> Command] /\ \A p \in Procs : ProcHolds(proc[p])

-----------------------------------------------------------------------------
(* Files and their documents.                                              *)

LEMMA FileNames ==
    /\ "registry" \in Files /\ "queue" \in Files /\ "optout" \in Files /\ "tmp" \in Files
    /\ \A f \in Files : f = "registry" \/ f = "queue" \/ f = "optout" \/ f = "tmp"
BY DEF Files

LEMMA SettingsOf ==
    ASSUME NEW f \in {"optout", "tmp"}, NEW doc PROVE Backed(f, doc) <=> SettingsBacked(doc)
BY DEF Backed

LEMMA NothingIsADocument ==
    /\ NoProjects \in RegDocs /\ NoProjects \in MentionMaps /\ DOMAIN NoProjects = {}
    /\ DefaultOptOut \in OptDocs /\ DefaultOptOut.rebuts = {} /\ DefaultOptOut.throttled = {}
<1>1. NoProjects = [j \in {} |-> [status |-> "candidate", expires |-> 0]] BY DEF NoProjects
<1>2. NoProjects \in [{} -> Tracked] /\ NoProjects \in [{} -> SUBSET Days] /\ DOMAIN NoProjects = {} BY <1>1
<1>3. {} \in SUBSET Projects OBVIOUS
<1>4. NoProjects \in RegDocs BY <1>2, <1>3 DEF RegDocs
<1>5. NoProjects \in MentionMaps BY <1>2, <1>3 DEF MentionMaps
<1>6. DefaultOptOut \in OptDocs /\ DefaultOptOut.rebuts = {} /\ DefaultOptOut.throttled = {}
  BY DEF DefaultOptOut, OptDocs
<1> QED BY <1>2, <1>4, <1>5, <1>6

LEMMA EmptyIsBacked == ASSUME NEW f \in Files PROVE Backed(f, EmptyDoc(f))
<1>1. CASE f = "registry"
  BY <1>1, NothingIsADocument DEF Backed, EmptyDoc, RegistryBacked
<1>2. CASE f = "queue"
  <2>1. EmptyDoc(f) = {} BY <1>2 DEF EmptyDoc
  <2> QED BY <1>2, <2>1 DEF Backed, QueueBacked
<1>3. CASE f \notin {"registry", "queue"}
  <2>1. EmptyDoc(f) = DefaultOptOut BY <1>3 DEF EmptyDoc
  <2> QED BY <1>3, <2>1, NothingIsADocument DEF Backed, SettingsBacked
<1> QED BY <1>1, <1>2, <1>3

LEMMA BackedIsDoc == ASSUME NEW f, NEW doc, Backed(f, doc) PROVE doc \in Docs
<1>1. RegistryBacked(doc) \/ QueueBacked(doc) \/ SettingsBacked(doc) BY DEF Backed
<1>2. doc \in RegDocs \/ doc \in SUBSET NoteRow \/ doc \in OptDocs
  BY <1>1, Zenon DEF RegistryBacked, QueueBacked, SettingsBacked
<1>3. ASSUME doc \in RegDocs PROVE doc \in Docs BY <1>3 DEF Docs
<1>4. ASSUME doc \in SUBSET NoteRow PROVE doc \in Docs BY <1>4 DEF Docs
<1>5. ASSUME doc \in OptDocs PROVE doc \in Docs BY <1>5 DEF Docs
<1> QED BY <1>2, <1>3, <1>4, <1>5

LEMMA FileKinds ==
    ASSUME NEW f \in Files, NEW doc, Backed(f, doc)
    PROVE  /\ Whole(doc) \in DiskFile /\ Whole(doc).doc = doc /\ Whole(doc).state = "whole"
           /\ Partial(f) \in DiskFile /\ Partial(f).doc = EmptyDoc(f) /\ Partial(f).state = "partial"
           /\ Missing(f) \in DiskFile /\ Missing(f).doc = EmptyDoc(f) /\ Missing(f).state = "missing"
<1>1. doc \in Docs BY BackedIsDoc
<1>2. EmptyDoc(f) \in Docs BY EmptyIsBacked, BackedIsDoc
<1> HIDE DEF EmptyDoc
<1> QED BY <1>1, <1>2 DEF Whole, Partial, Missing, DiskFile

LEMMA LoadIsDoc == ASSUME DiskOK, NEW f \in Files PROVE Load(f) = disk[f].doc /\ Backed(f, Load(f))
BY DEF DiskOK, Load

LEMMA LoadedDocs ==
    ASSUME DiskOK
    PROVE  /\ RegistryBacked(Load("registry")) /\ QueueBacked(Load("queue")) /\ SettingsBacked(Load("optout"))
           /\ Load("registry") \in RegDocs /\ Load("queue") \in SUBSET NoteRow /\ Load("optout") \in OptDocs
<1>1. Backed("registry", Load("registry")) /\ Backed("queue", Load("queue")) /\ Backed("optout", Load("optout"))
  BY LoadIsDoc, FileNames
<1>2. RegistryBacked(Load("registry")) /\ QueueBacked(Load("queue")) /\ SettingsBacked(Load("optout"))
  BY <1>1 DEF Backed
<1> QED BY <1>2 DEF RegistryBacked, QueueBacked, SettingsBacked

LEMMA LoadStays == ASSUME NEW f, disk'[f] = disk[f] PROVE Load(f)' = Load(f)
BY DEF Load

-----------------------------------------------------------------------------
(* What the user writes and says only grows.                               *)

Grows ==
    /\ WorldOK /\ WorldOK' /\ today <= today' /\ approved \subseteq approved' /\ rebutted \subseteq rebutted'
    /\ \A j \in Projects : /\ mentioned[j] \subseteq mentioned'[j]
                           /\ touched'[j] \subseteq touched[j] \cup {today}
                           /\ done'[j] \subseteq done[j] \cup {today}

LEMMA WarrantStays == ASSUME Grows, NEW n \in NoteRow, Warranted(n) PROVE Warranted(n)'
<1>1. n.project \in Projects /\ n.created \in Nat BY DEF NoteRow
<1>2. today \in Nat /\ today' \in Nat BY DetectorAssumption DEF Grows, WorldOK, Days
<1> QED BY <1>1, <1>2 DEF Grows, Warranted

LEMMA SlownessStays == ASSUME Grows, NEW t, SlowedBy(t) PROVE SlowedBy(t)'
<1> DEFINE A == {n \in NoteIds : <<t, n>> \in rebutted}
<1>1. PICK B : B = {n \in NoteIds : <<t, n>> \in rebutted'} OBVIOUS
<1>2. A \subseteq B /\ B \subseteq NoteIds BY <1>1 DEF Grows
<1>3. IsFiniteSet(B) /\ IsFiniteSet(A) /\ Cardinality(A) <= Cardinality(B)
  BY <1>2, DetectorAssumption, FS_Subset
<1>4. Cardinality(A) \in Nat /\ Cardinality(B) \in Nat BY <1>3, FS_CardinalityType
<1>5. RebutThreshold \in Nat BY DetectorAssumption
<1>6. Cardinality(A) >= RebutThreshold BY DEF SlowedBy
<1> HIDE DEF A
<1>7. Cardinality(B) >= RebutThreshold BY <1>3, <1>4, <1>5, <1>6
<1> QED BY <1>1, <1>7 DEF SlowedBy

LEMMA BackedStays == ASSUME Grows, NEW f, NEW doc, Backed(f, doc) PROVE Backed(f, doc)'
<1>1. RegistryBacked(doc) => RegistryBacked(doc)' BY DEF RegistryBacked, Grows
<1>2. ASSUME QueueBacked(doc) PROVE QueueBacked(doc)'
  <2>1. doc \in SUBSET NoteRow BY <1>2 DEF QueueBacked
  <2>2. \A n \in doc : Warranted(n) BY <1>2 DEF QueueBacked
  <2>3. ASSUME NEW n \in doc PROVE Warranted(n)' BY <2>1, <2>2, WarrantStays
  <2> QED BY <2>1, <2>3 DEF QueueBacked
<1>3. ASSUME SettingsBacked(doc) PROVE SettingsBacked(doc)'
  <2>1. ASSUME NEW t \in doc.throttled PROVE SlowedBy(t)' BY <1>3, SlownessStays DEF SettingsBacked
  <2> QED BY <1>3, <2>1 DEF SettingsBacked, Grows
<1> QED BY <1>1, <1>2, <1>3 DEF Backed

LEMMA CommandStays == ASSUME Grows, NEW l \in Command, CommandHolds(l) PROVE CommandHolds(l)'
<1>1. l.at \in Nat /\ l.fresh \in SUBSET NoteRow /\ l.mentions \in MentionMaps BY DEF Command
<1>2. DOMAIN l.mentions \subseteq Projects BY <1>1 DEF MentionMaps
<1>3. today \in Nat /\ today' \in Nat BY DetectorAssumption DEF Grows, WorldOK, Days
<1>4. l.at <= today' BY <1>1, <1>3 DEF Grows, CommandHolds
<1>5. Saving(l) => Backed(l.file, l.doc)' BY BackedStays DEF CommandHolds
<1>6. l.pc = "append" => \A n \in l.fresh : Warranted(n)' BY <1>1, WarrantStays DEF CommandHolds
<1>7. l.pc = "judge" => \A j \in DOMAIN l.mentions :
            j \in approved' /\ l.mentions[j] \subseteq mentioned'[j] /\ \A d \in l.mentions[j] : d >= l.at - WindowDays
  BY <1>2 DEF CommandHolds, Grows
<1> QED BY <1>4, <1>5, <1>6, <1>7 DEF CommandHolds, Saving, Running

-----------------------------------------------------------------------------
(* One command moves.                                                      *)

\* m is l, for what an invariant of commands can see of it.
Alike(l, m) ==
    /\ m.pc = l.pc /\ m.op = l.op /\ m.arg = l.arg /\ m.at = l.at /\ m.then = l.then /\ m.file = l.file /\ m.doc = l.doc
    /\ m.optout = l.optout /\ m.mentions = l.mentions /\ m.rows = l.rows /\ m.fresh = l.fresh /\ m.holds = l.holds
    /\ l.pc = "write" /\ m.fd # l.fd => l.file = "tmp" /\ m.fd \in {"optout", "gone"}

LEMMA AlikeHolds ==
    ASSUME NEW l \in Command, NEW m \in Command, Alike(l, m), CommandHolds(l) PROVE CommandHolds(m)
BY DEF Alike, CommandHolds, Saving, Running

LEMMA AlikeUndisturbed ==
    ASSUME NEW l \in Command, NEW m \in Command, Alike(l, m), CommandHolds(l), Undisturbed(l),
           l.pc = "write" => m.fd = l.fd, \A f \in l.holds : disk'[f] = disk[f]
    PROVE  Undisturbed(m)'
<1>1. Saving(m) <=> Saving(l) BY DEF Alike, Saving
<1>2. Saving(m) => m.file \in m.holds /\ disk'[m.file] = disk[m.file] BY <1>1 DEF Alike, Undisturbed
<1>3. Saving(m) /\ m.file = "tmp" => "optout" \in m.holds /\ KeepsSettings(Load("optout"), m.doc, m)'
  <2> SUFFICES ASSUME Saving(m), m.file = "tmp" PROVE "optout" \in m.holds /\ KeepsSettings(Load("optout"), m.doc, m)'
    OBVIOUS
  <2>1. "optout" \in l.holds /\ KeepsSettings(Load("optout"), l.doc, l) BY <1>1 DEF Alike, Undisturbed
  <2>2. Load("optout")' = Load("optout") BY <2>1, LoadStays
  <2>3. "optout" \in m.holds BY <2>1 DEF Alike
  <2>4. KeepsSettings(Load("optout"), m.doc, m) BY <2>1 DEF Alike, KeepsSettings
  <2> QED BY <2>2, <2>3, <2>4 DEF KeepsSettings
<1>4. m.pc = "open" /\ m.file = "registry" => KeepsProjects(Load("registry"), m.doc, m)'
  <2> SUFFICES ASSUME m.pc = "open", m.file = "registry" PROVE KeepsProjects(Load("registry"), m.doc, m)' OBVIOUS
  <2>1. KeepsProjects(Load("registry"), l.doc, l) BY DEF Alike, Undisturbed
  <2>2. Load("registry")' = Load("registry") BY <1>2, LoadStays DEF Saving
  <2>3. KeepsProjects(Load("registry"), m.doc, m) BY <2>1 DEF Alike, KeepsProjects
  <2> QED BY <2>2, <2>3 DEF KeepsProjects
<1>5. m.pc = "open" /\ m.file = "queue" => KeepsNotes(Load("queue"), m.doc)' /\ Cooled(m, m.doc)
  <2> SUFFICES ASSUME m.pc = "open", m.file = "queue" PROVE KeepsNotes(Load("queue"), m.doc)' /\ Cooled(m, m.doc) OBVIOUS
  <2>1. KeepsNotes(Load("queue"), l.doc) /\ Cooled(l, l.doc) BY DEF Alike, Undisturbed
  <2>2. Load("queue")' = Load("queue") BY <1>2, LoadStays DEF Saving
  <2>3. KeepsNotes(Load("queue"), m.doc) /\ Cooled(m, m.doc) BY <2>1 DEF Alike, Cooled
  <2> QED BY <2>2, <2>3 DEF KeepsNotes
<1>6. m.pc = "write" => m.fd = m.file /\ disk'[m.file].state = "partial" BY <1>2 DEF Alike, Undisturbed, Saving
<1>7. m.pc = "replace" => disk'["tmp"] = Whole(m.doc)
  BY <1>2 DEF Alike, Undisturbed, Saving, CommandHolds
<1>8. m.pc \in {"judge", "append"} => "queue" \in m.holds /\ Load("queue")' = m.rows
  BY LoadStays DEF Alike, Undisturbed
<1>9. m.pc = "append" => Cooled(m, m.rows) /\ Cooled(m, m.fresh) BY DEF Alike, Undisturbed, Cooled
<1>10. Cooled(m, m.doc)' = Cooled(m, m.doc) /\ Cooled(m, m.rows)' = Cooled(m, m.rows) /\ Cooled(m, m.fresh)' = Cooled(m, m.fresh)
  BY DEF Cooled
<1>11. Saving(m)' = Saving(m) BY DEF Saving
<1> QED BY <1>2, <1>3, <1>4, <1>5, <1>6, <1>7, <1>8, <1>9, <1>10, <1>11 DEF Undisturbed

\* What a command is, of which another has changed files.
LEMMA OthersStay ==
    ASSUME Grows, NEW l \in Command, ProcHolds(l), NEW changed \in SUBSET Files, NEW renamed \in BOOLEAN,
           \A f \in Files \ changed : disk'[f] = disk[f], renamed => changed = {"optout", "tmp"},
           NEW fd, fd = IF ~renamed THEN l.fd ELSE IF l.fd = "tmp" THEN "optout" ELSE IF l.fd = "optout" THEN "gone" ELSE l.fd,
           NEW m, m = [l EXCEPT !.disturbed = l.disturbed \/ changed \cap l.holds # {}, !.fd = fd]
    PROVE  m \in Command /\ ProcHolds(m)'
<1>1. fd \in {"none", "registry", "queue", "tmp", "optout", "gone"} BY DEF Command
<1> DEFINE b == l.disturbed \/ changed \cap l.holds # {}
<1>2. b \in BOOLEAN BY DEF Command
<1>3. m = [l EXCEPT !.disturbed = b, !.fd = fd] OBVIOUS
<1> HIDE DEF b
<1>4. m \in Command /\ m.fd = fd /\ m.disturbed = b BY <1>1, <1>2, <1>3 DEF Command
<1>5. /\ m.pc = l.pc /\ m.op = l.op /\ m.arg = l.arg /\ m.at = l.at /\ m.then = l.then /\ m.file = l.file /\ m.doc = l.doc
      /\ m.optout = l.optout /\ m.mentions = l.mentions /\ m.rows = l.rows /\ m.fresh = l.fresh /\ m.holds = l.holds
  BY <1>3 DEF Command
<1>6. CommandHolds(l) BY DEF ProcHolds
<1>7. l.pc = "write" /\ fd # l.fd => l.file = "tmp" /\ fd \in {"optout", "gone"}
  BY <1>6 DEF CommandHolds, Command
<1>8. Alike(l, m) BY <1>4, <1>5, <1>7 DEF Alike
<1>9. CommandHolds(m)' BY <1>4, <1>6, <1>8, AlikeHolds, CommandStays
<1>10. ASSUME ~m.disturbed PROVE Undisturbed(m)'
  <2>1. ~l.disturbed /\ changed \cap l.holds = {} BY <1>4, <1>10 DEF b
  <2>2. Undisturbed(l) BY <2>1 DEF ProcHolds
  <2>3. l.holds \subseteq Files BY DEF Command
  <2>4. \A f \in l.holds : disk'[f] = disk[f] BY <2>1, <2>3
  <2>5. l.pc = "write" => fd = l.fd
    <3>1. l.pc = "write" => l.fd = l.file /\ l.file \in l.holds BY <2>2 DEF Undisturbed, Saving
    <3>2. l.pc = "write" /\ renamed => l.fd \notin {"tmp", "optout"} BY <2>1, <3>1
    <3> QED BY <3>2
  <2> QED BY <1>4, <1>6, <1>8, <2>2, <2>4, <2>5, AlikeUndisturbed
<1> QED BY <1>4, <1>9, <1>10 DEF ProcHolds

\* A step of p that leaves what it changes in order.
LEMMA StepKeeps ==
    ASSUME DetectorInv, Grows, DiskOK', NEW p \in Procs, NEW new \in Command, NEW changed \in SUBSET Files,
           NEW renamed \in BOOLEAN, Become(p, new, changed, renamed),
           \A f \in Files \ changed : disk'[f] = disk[f], renamed => changed = {"optout", "tmp"},
           ProcHolds(new)'
    PROVE  DetectorInv'
<1>1. proc \in [Procs -> Command] /\ \A q \in Procs : ProcHolds(proc[q]) BY DEF DetectorInv
<1>2. DOMAIN proc' = Procs /\ proc'[p] = new BY DEF Become
<1>3. ASSUME NEW q \in Procs PROVE proc'[q] \in Command /\ ProcHolds(proc[q])'
  <2>1. CASE q = p BY <1>2, <2>1 DEF ProcHolds, CommandHolds, Undisturbed, Saving, Running, Cooled
  <2>2. CASE q # p
    <3>1. PICK l \in Command : l = proc[q] BY <1>1
    <3> DEFINE fd == IF ~renamed THEN l.fd ELSE IF l.fd = "tmp" THEN "optout" ELSE IF l.fd = "optout" THEN "gone" ELSE l.fd
               m == [l EXCEPT !.disturbed = l.disturbed \/ changed \cap l.holds # {}, !.fd = fd]
    <3>2. proc'[q] = m BY <2>2, <3>1 DEF Become
    <3> HIDE DEF m
    <3>3. ProcHolds(l) BY <1>1, <3>1
    <3>4. m \in Command /\ ProcHolds(m)' BY <3>3, OthersStay DEF m
    <3> QED BY <3>2, <3>4
  <2> QED BY <2>1, <2>2
<1>4. \A q \in Procs : ProcHolds(proc[q])' BY <1>3
<1>5. proc' = [q \in Procs |-> proc'[q]] BY DEF Become
<1>6. proc' \in [Procs -> Command] BY <1>3, <1>5
<1>7. WorldOK' BY DEF Grows
<1> QED BY <1>4, <1>6, <1>7 DEF DetectorInv

LEMMA DiskStays == ASSUME Grows, DiskOK, disk' = disk PROVE DiskOK'
<1>1. ASSUME NEW f \in Files PROVE Backed(f, disk[f].doc)' /\ (disk'[f].state # "whole" => disk'[f].doc = EmptyDoc(f))
  <2>1. PICK doc : doc = disk[f].doc OBVIOUS
  <2>2. Backed(f, doc) BY <2>1 DEF DiskOK
  <2>3. Backed(f, doc)' BY <2>2, BackedStays
  <2>4. Backed(f, disk[f].doc)' = Backed(f, doc)' BY <2>1 DEF Backed, RegistryBacked, QueueBacked, SettingsBacked
  <2> QED BY <2>3, <2>4 DEF DiskOK
<1> QED BY <1>1 DEF DiskOK

LEMMA DiskChanges ==
    ASSUME Grows, DiskOK, NEW g \in Files, NEW file \in DiskFile, disk' = [disk EXCEPT ![g] = file],
           Backed(g, file.doc)', file.state # "whole" => file.doc = EmptyDoc(g)
    PROVE  DiskOK' /\ disk'[g] = file /\ \A f \in Files \ {g} : disk'[f] = disk[f]
<1>1. disk \in [Files -> DiskFile] BY DEF DiskOK
<1>2. disk' \in [Files -> DiskFile] BY <1>1
<1>3. disk'[g] = file /\ \A f \in Files \ {g} : disk'[f] = disk[f] BY <1>1
<1>4. ASSUME NEW f \in Files PROVE Backed(f, disk[f].doc)' /\ (disk'[f].state # "whole" => disk'[f].doc = EmptyDoc(f))
  <2>1. PICK doc : doc = disk'[f].doc OBVIOUS
  <2>2. Backed(f, disk[f].doc)' = Backed(f, doc)' BY <2>1 DEF Backed, RegistryBacked, QueueBacked, SettingsBacked
  <2>3. CASE f = g BY <1>3, <2>1, <2>2, <2>3
  <2>4. CASE f # g
    <3>1. doc = disk[f].doc BY <1>3, <2>1, <2>4
    <3>2. Backed(f, doc) BY <3>1 DEF DiskOK
    <3>3. Backed(f, doc)' BY <3>2, BackedStays
    <3> QED BY <1>3, <2>2, <2>4, <3>3 DEF DiskOK
  <2> QED BY <2>3, <2>4
<1> QED BY <1>2, <1>3, <1>4 DEF DiskOK

LEMMA HoldsStay == ASSUME Grows, disk' = disk, NEW l \in Command, ProcHolds(l) PROVE ProcHolds(l)'
<1>1. CommandHolds(l)' BY CommandStays DEF ProcHolds
<1>2. ASSUME ~l.disturbed PROVE Undisturbed(l)'
  <2>1. Alike(l, l) BY DEF Alike
  <2> QED BY <1>2, <2>1, AlikeUndisturbed DEF ProcHolds
<1> QED BY <1>1, <1>2 DEF ProcHolds

\* A step of p that leaves the files alone.
LEMMA GotoKeeps ==
    ASSUME DetectorInv, Grows, disk' = disk, NEW p \in Procs, NEW new \in Command, Goto(p, new), ProcHolds(new)'
    PROVE  DetectorInv'
<1>1. DiskOK' BY DiskStays DEF DetectorInv
<1>2. Become(p, new, {}, FALSE) BY DEF Goto
<1> QED BY <1>1, <1>2, StepKeeps

LEMMA StutterKeeps == ASSUME DetectorInv, Grows, disk' = disk, proc' = proc PROVE DetectorInv'
<1>1. DiskOK' BY DiskStays DEF DetectorInv
<1>2. ASSUME NEW q \in Procs PROVE ProcHolds(proc[q])'
  <2>1. PICK l \in Command : l = proc[q] BY DEF DetectorInv
  <2>2. ProcHolds(l)' BY <2>1, HoldsStay DEF DetectorInv
  <2>3. ProcHolds(proc[q])' = ProcHolds(l)'
    BY <2>1 DEF ProcHolds, CommandHolds, Undisturbed, Saving, Running, Cooled
  <2> QED BY <2>2, <2>3
<1>3. WorldOK' BY DEF Grows
<1> QED BY <1>1, <1>2, <1>3 DEF DetectorInv

LEMMA SameWorld == ASSUME DetectorInv, UNCHANGED <<vault, said>>, today' = today PROVE Grows
BY DetectorAssumption DEF DetectorInv, Grows, WorldOK, vault, said, Days

LEMMA IdleHolds == Idle \in Command /\ (WorldOK' => ProcHolds(Idle)')
<1>1. Idle \in Command
  <2>1. DefaultOptOut \in Docs BY NothingIsADocument DEF Docs
  <2> QED BY <2>1, NothingIsADocument DEF Idle, Command, Places, Ops, Files
<1>2. Idle.pc = "idle" /\ Idle.then = "idle" /\ Idle.at = 0 BY DEF Idle
<1>3. ASSUME WorldOK' PROVE Idle.at <= today' BY <1>2, <1>3, DetectorAssumption DEF WorldOK, Days
<1>4. ASSUME WorldOK' PROVE CommandHolds(Idle)' BY <1>2, <1>3, <1>4 DEF CommandHolds, Saving, Running
<1>5. Undisturbed(Idle)' BY <1>2 DEF Undisturbed, Saving
<1> QED BY <1>1, <1>4, <1>5 DEF ProcHolds

-----------------------------------------------------------------------------
(* Reading and saving.                                                     *)

LEMMA HoldingIs ==
    ASSUME NEW l \in Command, NEW f \in Files, NEW m, m = Holding(l, f)
    PROVE  /\ m \in Command /\ m.holds = {f} /\ (~m.disturbed => disk[f].state # "partial")
           /\ m.pc = l.pc /\ m.op = l.op /\ m.arg = l.arg /\ m.at = l.at /\ m.optout = l.optout
BY DEF Holding, Command

ToSave(l, f, doc, then, m) ==
    /\ m \in Command /\ m.pc = "open" /\ m.doc = doc /\ m.then = then
    /\ m.file = (IF f = "optout" THEN "tmp" ELSE f)
    /\ m.holds = (IF f = "optout" THEN l.holds \cup {"tmp"} ELSE l.holds)
    /\ m.op = l.op /\ m.arg = l.arg /\ m.at = l.at /\ m.optout = l.optout /\ m.fresh = l.fresh
    /\ m.disturbed = l.disturbed

LEMMA SaveIs ==
    ASSUME NEW l \in Command, NEW f \in {"registry", "queue", "optout"}, NEW doc \in Docs, NEW then \in Places,
           NEW m, m = Save(l, f, doc, then)
    PROVE  ToSave(l, f, doc, then, m)
<1> DEFINE file == IF f = "optout" THEN "tmp" ELSE f
           holds == IF f = "optout" THEN l.holds \cup {"tmp"} ELSE l.holds
<1>1. m = [l EXCEPT !.pc = "open", !.doc = doc, !.then = then, !.file = file, !.holds = holds]
  BY DEF Save, Command
<1>2. file \in {"registry", "queue", "tmp"} /\ holds \in SUBSET Files /\ "open" \in Places
  BY DEF Command, Files, Places
<1> HIDE DEF file, holds
<1>3. m \in Command BY <1>1, <1>2 DEF Command
<1>4. /\ m.pc = "open" /\ m.doc = doc /\ m.then = then /\ m.file = file /\ m.holds = holds
      /\ m.op = l.op /\ m.arg = l.arg /\ m.at = l.at /\ m.optout = l.optout /\ m.fresh = l.fresh
      /\ m.disturbed = l.disturbed
  BY <1>1 DEF Command
<1> QED BY <1>3, <1>4 DEF file, holds, ToSave

\* A command that has decided what to write.
LEMMA SaveHolds ==
    ASSUME disk' = disk, NEW l \in Command, l.at <= today', NEW f \in {"registry", "queue", "optout"}, NEW doc,
           Backed(f, doc)', NEW then \in {"idle", "resweep", "settings", "projects", "confirmed"},
           then # "idle" => l.op \in {"detect", "cleanup"}, then \in {"settings", "projects", "confirmed"} => l.op = "detect",
           ~l.disturbed => f \in l.holds,
           ~l.disturbed /\ f = "optout" => KeepsSettings(Load("optout"), doc, l),
           ~l.disturbed /\ f = "registry" => KeepsProjects(Load("registry"), doc, l),
           ~l.disturbed /\ f = "queue" => KeepsNotes(Load("queue"), doc) /\ Cooled(l, doc),
           NEW m, m = Save(l, f, doc, then)
    PROVE  m \in Command /\ ProcHolds(m)'
<1>1. doc \in Docs
  <2>1. RegistryBacked(doc)' \/ QueueBacked(doc)' \/ SettingsBacked(doc)' BY DEF Backed
  <2>2. doc \in RegDocs \/ doc \in SUBSET NoteRow \/ doc \in OptDocs
    BY <2>1, Zenon DEF RegistryBacked, QueueBacked, SettingsBacked
  <2>3. ASSUME doc \in RegDocs PROVE doc \in Docs BY <2>3 DEF Docs
  <2>4. ASSUME doc \in SUBSET NoteRow PROVE doc \in Docs BY <2>4 DEF Docs
  <2>5. ASSUME doc \in OptDocs PROVE doc \in Docs BY <2>5 DEF Docs
  <2> QED BY <2>2, <2>3, <2>4, <2>5
<1>2. then \in Places BY DEF Places
<1>21. ToSave(l, f, doc, then, m) BY <1>1, <1>2, SaveIs, Zenon
<1>3. /\ m \in Command /\ m.pc = "open" /\ m.doc = doc /\ m.then = then
      /\ m.file = (IF f = "optout" THEN "tmp" ELSE f)
      /\ m.holds = (IF f = "optout" THEN l.holds \cup {"tmp"} ELSE l.holds)
      /\ m.op = l.op /\ m.arg = l.arg /\ m.at = l.at /\ m.optout = l.optout /\ m.fresh = l.fresh
      /\ m.disturbed = l.disturbed
  BY <1>21 DEF ToSave
<1>4. Backed(m.file, m.doc)'
  <2>1. Backed("tmp", doc)' = Backed("optout", doc)' BY DEF Backed
  <2> QED BY <1>3, <2>1
<1>5. CommandHolds(m)' BY <1>3, <1>4 DEF CommandHolds, Saving, Running
<1>6. \A g : Load(g)' = Load(g) BY DEF Load
<1>7. ASSUME ~m.disturbed PROVE Undisturbed(m)'
  <2>1. f \in m.holds /\ m.file \in m.holds BY <1>3, <1>7
  <2>2. m.file = "tmp" => "optout" \in m.holds /\ KeepsSettings(Load("optout"), m.doc, m)'
    <3> SUFFICES ASSUME m.file = "tmp" PROVE "optout" \in m.holds /\ KeepsSettings(Load("optout"), m.doc, m)' OBVIOUS
    <3>1. f = "optout" BY <1>3
    <3>2. KeepsSettings(Load("optout"), doc, l) BY <1>3, <1>7, <3>1
    <3>3. KeepsSettings(Load("optout"), m.doc, m) BY <1>3, <3>2 DEF KeepsSettings
    <3> QED BY <1>6, <2>1, <3>1, <3>3 DEF KeepsSettings
  <2>3. m.file = "registry" => KeepsProjects(Load("registry"), m.doc, m)'
    <3> SUFFICES ASSUME m.file = "registry" PROVE KeepsProjects(Load("registry"), m.doc, m)' OBVIOUS
    <3>1. KeepsProjects(Load("registry"), doc, l) BY <1>3, <1>7
    <3>2. KeepsProjects(Load("registry"), m.doc, m) BY <1>3, <3>1 DEF KeepsProjects
    <3> QED BY <1>6, <3>2 DEF KeepsProjects
  <2>4. m.file = "queue" => KeepsNotes(Load("queue"), m.doc)' /\ Cooled(m, m.doc)'
    <3> SUFFICES ASSUME m.file = "queue" PROVE KeepsNotes(Load("queue"), m.doc)' /\ Cooled(m, m.doc)' OBVIOUS
    <3>1. KeepsNotes(Load("queue"), doc) /\ Cooled(l, doc) BY <1>3, <1>7
    <3>2. Cooled(m, m.doc) BY <1>3, <3>1 DEF Cooled
    <3>3. Cooled(m, m.doc)' = Cooled(m, m.doc) BY DEF Cooled
    <3> QED BY <1>3, <1>6, <3>1, <3>2, <3>3 DEF KeepsNotes
  <2> QED BY <1>3, <2>1, <2>2, <2>3, <2>4 DEF Undisturbed, Saving
<1> QED BY <1>3, <1>5, <1>7 DEF ProcHolds

-----------------------------------------------------------------------------
(* What the user says.                                                     *)

\* A command that starts with reading f.
Begun(op, arg, f) == Holding([Idle EXCEPT !.op = op, !.arg = arg, !.at = today], f)

LEMMA BegunIs ==
    ASSUME WorldOK, NEW op \in Ops, NEW arg \in AnsweredTypes \cup Projects \cup {"none"}, NEW f \in Files,
           NEW l, l = Begun(op, arg, f)
    PROVE  l \in Command /\ l.holds = {f} /\ l.op = op /\ l.arg = arg /\ l.at = today
<1>1. today \in Nat BY DetectorAssumption DEF WorldOK, Days
<1>2. PICK m : m = [Idle EXCEPT !.op = op, !.arg = arg, !.at = today] OBVIOUS
<1>3. m \in Command /\ m.op = op /\ m.arg = arg /\ m.at = today BY <1>1, <1>2, IdleHolds DEF Command
<1>4. l = Holding(m, f) BY <1>2 DEF Begun
<1> QED BY <1>3, <1>4, HoldingIs

LEMMA RebutsAreCounted ==
    ASSUME NEW doc, NEW t, NEW day, NEW R, \A r \in doc.rebuts : r.note \in NoteIds /\ <<r.type, r.note>> \in R
    PROVE  /\ RebutCount(doc, t, day) \in Nat /\ Cardinality({n \in NoteIds : <<t, n>> \in R}) \in Nat
           /\ RebutCount(doc, t, day) <= Cardinality({n \in NoteIds : <<t, n>> \in R})
<1>1. PICK A : A = {r.note : r \in {x \in Recent(doc, day) : x.type = t}} OBVIOUS
<1>2. PICK B : B = {n \in NoteIds : <<t, n>> \in R} OBVIOUS
<1>3. A \subseteq B /\ B \subseteq NoteIds BY <1>1, <1>2 DEF Recent
<1>4. IsFiniteSet(B) /\ IsFiniteSet(A) /\ Cardinality(A) <= Cardinality(B) BY <1>3, DetectorAssumption, FS_Subset
<1>5. Cardinality(A) \in Nat /\ Cardinality(B) \in Nat BY <1>4, FS_CardinalityType
<1> QED BY <1>1, <1>2, <1>4, <1>5 DEF RebutCount

\* Settings that the user's rebuttals bear out.
LEMMA SettingsGrow ==
    ASSUME Grows, NEW doc \in OptDocs, \A r \in doc.rebuts : <<r.type, r.note>> \in rebutted',
           NEW old, SettingsBacked(old), NEW day,
           \A t \in doc.throttled : t \in old.throttled \/ RebutCount(doc, t, day) >= RebutThreshold
    PROVE  SettingsBacked(doc)'
<1>1. ASSUME NEW t \in doc.throttled PROVE SlowedBy(t)'
  <2>1. CASE t \in old.throttled BY <2>1, SlownessStays DEF SettingsBacked
  <2>2. CASE RebutCount(doc, t, day) >= RebutThreshold
    <3>1. \A r \in doc.rebuts : r.note \in NoteIds BY DEF OptDocs, DayRebut
    <3>2. PICK c : c = Cardinality({n \in NoteIds : <<t, n>> \in rebutted'}) OBVIOUS
    <3>3. RebutCount(doc, t, day) \in Nat /\ c \in Nat /\ RebutCount(doc, t, day) <= c BY <3>1, <3>2, RebutsAreCounted
    <3>4. c >= RebutThreshold BY <2>2, <3>3, DetectorAssumption
    <3> QED BY <3>2, <3>4 DEF SlowedBy
  <2> QED BY <2>1, <2>2
<1> QED BY <1>1 DEF SettingsBacked

LEMMA RecentIs == ASSUME NEW doc \in OptDocs, NEW day PROVE Recent(doc, day) \subseteq doc.rebuts /\ doc.rebuts \subseteq DayRebut
BY DEF Recent, OptDocs

LEMMA Told ==
    ASSUME DetectorInv, Grows, disk' = disk, NEW p \in Procs, NEW op \in Ops,
           NEW arg \in AnsweredTypes \cup Projects \cup {"none"}, NEW l, l = Begun(op, arg, "optout"),
           NEW new, SettingsBacked(new)', KeepsSettings(Load("optout"), new, l),
           Goto(p, Save(l, "optout", new, "idle"))
    PROVE  DetectorInv'
<1>1. l \in Command /\ l.holds = {"optout"} /\ l.at = today BY BegunIs, FileNames DEF DetectorInv
<1>2. l.at <= today' BY <1>1 DEF Grows
<1>3. Backed("optout", new)' BY DEF Backed
<1>4. PICK m : m = Save(l, "optout", new, "idle") OBVIOUS
<1>5. m \in Command /\ ProcHolds(m)' BY <1>1, <1>2, <1>3, <1>4, SaveHolds
<1> QED BY <1>4, <1>5, GotoKeeps

LEMMA PauseKeeps ==
    ASSUME DetectorInv, Grows, disk' = disk, NEW p \in Procs, NEW paused \in BOOLEAN,
           Goto(p, Save(Begun(IF paused THEN "pause" ELSE "resume", "none", "optout"), "optout",
                        [Load("optout") EXCEPT !.paused = paused], "idle"))
    PROVE  DetectorInv'
<1>1. PICK old : old = Load("optout") OBVIOUS
<1>2. PICK new : new = [old EXCEPT !.paused = paused] OBVIOUS
<1>3. PICK op : op = IF paused THEN "pause" ELSE "resume" OBVIOUS
<1>4. PICK l : l = Begun(op, "none", "optout") OBVIOUS
<1>5. SettingsBacked(old) /\ old \in OptDocs BY <1>1, LoadedDocs DEF DetectorInv
<1>6. /\ new \in OptDocs /\ new.rebuts = old.rebuts /\ new.throttled = old.throttled /\ new.disabled = old.disabled
  BY <1>2, <1>5 DEF OptDocs
<1>7. \A r \in new.rebuts : <<r.type, r.note>> \in rebutted' BY <1>5, <1>6 DEF SettingsBacked, Grows
<1>8. SettingsBacked(new)' BY <1>5, <1>6, <1>7, SettingsGrow
<1>9. op \in Ops /\ op \in {"pause", "resume"} BY <1>3 DEF Ops
<1>91. "none" \in AnsweredTypes \cup Projects \cup {"none"} OBVIOUS
<1>92. WorldOK BY DEF DetectorInv
<1>10. l.op = op BY <1>4, <1>9, <1>91, <1>92, BegunIs, FileNames
<1>11. Recent(old, l.at) \subseteq old.rebuts BY <1>5, RecentIs
<1>12. KeepsSettings(old, new, l) BY <1>6, <1>9, <1>10, <1>11 DEF KeepsSettings
<1>13. Goto(p, Save(l, "optout", new, "idle")) BY <1>1, <1>2, <1>3, <1>4
<1> QED BY <1>1, <1>4, <1>8, <1>9, <1>12, <1>13, Told

LEMMA DisableKeeps ==
    ASSUME DetectorInv, Grows, disk' = disk, NEW p \in Procs, NEW type \in AnsweredTypes,
           Goto(p, Save(Begun("disable", type, "optout"), "optout",
                        [Load("optout") EXCEPT !.disabled = @ \cup {type}], "idle"))
    PROVE  DetectorInv'
<1>1. PICK old : old = Load("optout") OBVIOUS
<1>2. PICK new : new = [old EXCEPT !.disabled = old.disabled \cup {type}] OBVIOUS
<1>4. PICK l : l = Begun("disable", type, "optout") OBVIOUS
<1>5. SettingsBacked(old) /\ old \in OptDocs BY <1>1, LoadedDocs DEF DetectorInv
<1>6. /\ new \in OptDocs /\ new.rebuts = old.rebuts /\ new.throttled = old.throttled
      /\ old.disabled \subseteq new.disabled /\ new.paused = old.paused
  BY <1>2, <1>5 DEF OptDocs
<1>7. \A r \in new.rebuts : <<r.type, r.note>> \in rebutted' BY <1>5, <1>6 DEF SettingsBacked, Grows
<1>8. SettingsBacked(new)' BY <1>5, <1>6, <1>7, SettingsGrow
<1>9. "disable" \in Ops BY DEF Ops
<1>11. Recent(old, l.at) \subseteq old.rebuts BY <1>5, RecentIs
<1>12. KeepsSettings(old, new, l) BY <1>6, <1>11 DEF KeepsSettings
<1>13. Goto(p, Save(l, "optout", new, "idle")) BY <1>1, <1>2, <1>4
<1> QED BY <1>1, <1>4, <1>8, <1>9, <1>12, <1>13, Told

LEMMA AcceptKeeps ==
    ASSUME DetectorInv, Grows, disk' = disk, NEW p \in Procs, NEW type \in AnsweredTypes,
           Goto(p, Save(Begun("accept", type, "optout"), "optout", Accept(Load("optout"), type), "idle"))
    PROVE  DetectorInv'
<1>1. PICK old : old = Load("optout") OBVIOUS
<1>2. PICK new : new = Accept(old, type) OBVIOUS
<1>4. PICK l : l = Begun("accept", type, "optout") OBVIOUS
<1>5. SettingsBacked(old) /\ old \in OptDocs BY <1>1, LoadedDocs DEF DetectorInv
<1> DEFINE rebuts == {r \in old.rebuts : r.type # type}
           throttled == old.throttled \ {type}
<1>51. new = [old EXCEPT !.rebuts = rebuts, !.throttled = throttled] BY <1>2 DEF Accept
<1>52. rebuts \in SUBSET DayRebut /\ throttled \in SUBSET AnsweredTypes BY <1>5 DEF OptDocs
<1> HIDE DEF rebuts, throttled
<1>6. /\ new \in OptDocs /\ new.rebuts = rebuts /\ new.throttled = throttled
      /\ old.disabled = new.disabled /\ new.paused = old.paused
  BY <1>51, <1>52, <1>5 DEF OptDocs
<1>7. \A r \in new.rebuts : <<r.type, r.note>> \in rebutted' BY <1>5, <1>6 DEF SettingsBacked, Grows, rebuts
<1>8. SettingsBacked(new)' BY <1>5, <1>6, <1>7, SettingsGrow DEF throttled
<1>9. "accept" \in Ops BY DEF Ops
<1>10. l.op = "accept" /\ l.arg = type BY <1>4, <1>9, BegunIs, FileNames DEF DetectorInv
<1>11. Recent(old, l.at) \subseteq old.rebuts BY <1>5, RecentIs
<1>12. KeepsSettings(old, new, l) BY <1>6, <1>10, <1>11 DEF KeepsSettings, rebuts, throttled
<1>13. Goto(p, Save(l, "optout", new, "idle")) BY <1>1, <1>2, <1>4
<1> QED BY <1>1, <1>4, <1>8, <1>9, <1>12, <1>13, Told

LEMMA RejectKeeps ==
    ASSUME DetectorInv, Grows, disk' = disk, NEW p \in Procs, NEW type \in AnsweredTypes, NEW note \in NoteIds,
           <<type, note>> \in rebutted',
           Goto(p, Save(Begun("rebut", type, "optout"), "optout", Reject(Load("optout"), type, note, today), "idle"))
    PROVE  DetectorInv'
<1>1. PICK old : old = Load("optout") OBVIOUS
<1>2. PICK new : new = Reject(old, type, note, today) OBVIOUS
<1>4. PICK l : l = Begun("rebut", type, "optout") OBVIOUS
<1>5. SettingsBacked(old) /\ old \in OptDocs BY <1>1, LoadedDocs DEF DetectorInv
<1> DEFINE known == \E r \in Recent(old, today) : r.type = type /\ r.note = note
           extra == IF known THEN {} ELSE {[type |-> type, note |-> note, day |-> today]}
           rebuts == Recent(old, today) \cup extra
           mid == [old EXCEPT !.rebuts = rebuts]
           throttled == IF RebutCount(mid, type, today) >= RebutThreshold THEN old.throttled \cup {type} ELSE old.throttled
<1>51. today \in Nat BY DetectorAssumption DEF DetectorInv, WorldOK, Days
<1>52. Recent(old, today) \subseteq old.rebuts /\ old.rebuts \subseteq DayRebut BY <1>5, RecentIs
<1>53. extra \in SUBSET DayRebut /\ \A r \in extra : r.type = type /\ r.note = note BY <1>51 DEF DayRebut
<1> HIDE DEF extra
<1>54. rebuts \in SUBSET DayRebut BY <1>52, <1>53
<1>55. new = [mid EXCEPT !.throttled = throttled]
  <2>1. mid.throttled = old.throttled BY <1>5 DEF OptDocs
  <2> QED BY <1>2, <2>1 DEF Reject, extra
<1> HIDE DEF rebuts
<1>56. mid \in OptDocs /\ mid.rebuts = rebuts /\ mid.disabled = old.disabled /\ mid.paused = old.paused
  BY <1>5, <1>54 DEF OptDocs
<1>57. throttled \in SUBSET AnsweredTypes /\ old.throttled \subseteq throttled
       /\ \A t \in throttled : t \in old.throttled \/ RebutCount(mid, t, today) >= RebutThreshold
  BY <1>5 DEF OptDocs
<1> HIDE DEF mid, throttled
<1>6. /\ new \in OptDocs /\ new.rebuts = rebuts /\ new.throttled = throttled
      /\ old.disabled = new.disabled /\ new.paused = old.paused
  BY <1>55, <1>56, <1>57 DEF OptDocs
<1>7. \A r \in new.rebuts : <<r.type, r.note>> \in rebutted'
  BY <1>5, <1>6, <1>52, <1>53 DEF SettingsBacked, Grows, rebuts
<1>71. \A t : RebutCount(new, t, today) = RebutCount(mid, t, today) BY <1>6, <1>56 DEF RebutCount, Recent
<1>72. \A t \in new.throttled : t \in old.throttled \/ RebutCount(new, t, today) >= RebutThreshold
  BY <1>6, <1>57, <1>71
<1>8. SettingsBacked(new)' BY <1>5, <1>6, <1>7, <1>72, SettingsGrow
<1>9. "rebut" \in Ops BY DEF Ops
<1>10. l.at = today BY <1>4, <1>9, BegunIs, FileNames DEF DetectorInv
<1>11. Recent(old, l.at) \subseteq new.rebuts BY <1>6, <1>10 DEF rebuts
<1>12. KeepsSettings(old, new, l) BY <1>6, <1>11, <1>57 DEF KeepsSettings
<1>13. Goto(p, Save(l, "optout", new, "idle")) BY <1>1, <1>2, <1>4
<1> QED BY <1>1, <1>4, <1>8, <1>9, <1>12, <1>13, Told

LEMMA TellKeeps == ASSUME DetectorInv, NEW p \in Procs, Tell(p) PROVE DetectorInv'
<1> DEFINE Puts(op, arg, new) == Goto(p, Save(Begun(op, arg, "optout"), "optout", new, "idle"))
           old == Load("optout")
           Pausing == \E paused \in BOOLEAN :
                        Puts(IF paused THEN "pause" ELSE "resume", "none", [old EXCEPT !.paused = paused])
           Disabling(type) == Puts("disable", type, [old EXCEPT !.disabled = @ \cup {type}])
           Accepting(type) == Puts("accept", type, Accept(old, type))
           Rejecting(type, note) == Puts("rebut", type, Reject(old, type, note, today))
<1>1. UNCHANGED <<disk, vault, approved, clock, edits, deaths>> BY DEF Tell
<1>2. \/ Pausing /\ UNCHANGED rebutted
      \/ \E type \in AnsweredTypes :
           \/ (Disabling(type) \/ Accepting(type)) /\ UNCHANGED rebutted
           \/ \E note \in NoteIds : Rejecting(type, note) /\ rebutted' = rebutted \cup {<<type, note>>}
  BY DEF Tell, Begun
<1>3. WorldOK BY DEF DetectorInv
<1>4. ASSUME UNCHANGED rebutted PROVE Grows
  BY <1>1, <1>3, <1>4, DetectorAssumption DEF Grows, WorldOK, vault, clock, Days
<1>5. ASSUME NEW type \in AnsweredTypes, NEW note \in NoteIds, rebutted' = rebutted \cup {<<type, note>>} PROVE Grows
  BY <1>1, <1>3, <1>5, DetectorAssumption DEF Grows, WorldOK, vault, clock, Days
<1>6. disk' = disk BY <1>1
<1>7. CASE Pausing /\ UNCHANGED rebutted BY <1>4, <1>6, <1>7, PauseKeeps
<1>8. ASSUME NEW type \in AnsweredTypes, Disabling(type) \/ Accepting(type), UNCHANGED rebutted PROVE DetectorInv'
  BY <1>4, <1>6, <1>8, DisableKeeps, AcceptKeeps
<1>9. ASSUME NEW type \in AnsweredTypes, NEW note \in NoteIds, Rejecting(type, note),
             rebutted' = rebutted \cup {<<type, note>>}
      PROVE  DetectorInv'
  <2>1. <<type, note>> \in rebutted' BY <1>9
  <2> QED BY <1>5, <1>6, <1>9, <2>1, RejectKeeps
<1> HIDE DEF Pausing, Disabling, Accepting, Rejecting
<1> QED BY <1>2, <1>7, <1>8, <1>9

-----------------------------------------------------------------------------
(* The registry and the steps of a run up to its scan.                     *)

LEMMA RegistryDocs ==
    /\ \A doc \in RegDocs : DOMAIN doc \subseteq Projects /\ doc = [j \in DOMAIN doc |-> doc[j]]
                            /\ \A j \in DOMAIN doc : doc[j] \in Tracked
    /\ \A js \in SUBSET Projects : [js -> Tracked] \subseteq RegDocs
BY DEF RegDocs

LEMMA IdleKeeps == ASSUME DetectorInv, Grows, disk' = disk, NEW p \in Procs, Goto(p, Idle) PROVE DetectorInv'
<1>1. Idle \in Command /\ ProcHolds(Idle)' BY IdleHolds DEF Grows
<1> QED BY <1>1, GotoKeeps

\* A command between two of its steps.
Walks(m) ==
    /\ m \in Command /\ m.at <= today /\ m.then \in {"idle", "resweep", "settings", "projects", "confirmed"}
    /\ \/ m.pc \in {"sweep", "resweep"} /\ m.op \in {"detect", "cleanup"}
       \/ m.pc \in {"settings", "projects", "discover", "confirmed"} /\ m.op = "detect"

LEMMA WalkKeeps ==
    ASSUME DetectorInv, Grows, disk' = disk, NEW p \in Procs, NEW m, Walks(m), Goto(p, m) PROVE DetectorInv'
<1>1. m \in Command BY DEF Walks
<1>2. CommandHolds(m) BY DEF Walks, CommandHolds, Saving, Running
<1>3. Undisturbed(m) BY DEF Walks, Undisturbed, Saving
<1>4. ProcHolds(m)' BY <1>1, <1>2, <1>3, HoldsStay DEF ProcHolds
<1> QED BY <1>1, <1>4, GotoKeeps

LEMMA SetStatusKeeps == ASSUME DetectorInv, NEW p \in Procs, SetStatus(p) PROVE DetectorInv'
<1>1. PICK j \in DOMAIN Load("registry"), status \in {"candidate", "confirmed"} :
        /\ Goto(p, Save(Begun(status, j, "registry"), "registry", [Load("registry") EXCEPT ![j].status = status], "idle"))
        /\ approved' = IF status = "confirmed" THEN approved \cup {j} ELSE approved
  BY DEF SetStatus, Begun
<1>2. UNCHANGED <<disk, vault, rebutted, clock, edits, deaths>> BY DEF SetStatus
<1>3. PICK old : old = Load("registry") OBVIOUS
<1>4. RegistryBacked(old) /\ old \in RegDocs BY <1>3, LoadedDocs DEF DetectorInv
<1>5. DOMAIN old \subseteq Projects /\ j \in Projects /\ old[j] \in Tracked /\ old \in [DOMAIN old -> Tracked]
  BY <1>1, <1>3, <1>4, RegistryDocs
<1>6. WorldOK BY DEF DetectorInv
<1>7. approved' \subseteq Projects /\ approved \subseteq approved' BY <1>1, <1>5, <1>6 DEF WorldOK
<1>8. Grows BY <1>2, <1>6, <1>7, DetectorAssumption DEF Grows, WorldOK, vault, clock, Days
<1> DEFINE tracked == [old[j] EXCEPT !.status = status]
<1>9. tracked \in Tracked /\ tracked.status = status BY <1>1, <1>5 DEF Tracked
<1> HIDE DEF tracked
<1>10. PICK new : new = [old EXCEPT ![j] = tracked] OBVIOUS
<1>11. DOMAIN new = DOMAIN old /\ new[j] = tracked /\ (\A k \in DOMAIN old \ {j} : new[k] = old[k]) /\ new \in [DOMAIN old -> Tracked]
  BY <1>1, <1>3, <1>5, <1>9, <1>10
<1>12. new \in RegDocs BY <1>5, <1>11, RegistryDocs
<1>13. \A k \in DOMAIN new : new[k].status = "confirmed" => k \in approved'
  BY <1>1, <1>4, <1>7, <1>9, <1>11 DEF RegistryBacked
<1>14. Backed("registry", new)' BY <1>12, <1>13 DEF Backed, RegistryBacked
<1>15. PICK l : l = Begun(status, j, "registry") OBVIOUS
<1>16. status \in Ops /\ j \in AnsweredTypes \cup Projects \cup {"none"} BY <1>1, <1>5 DEF Ops
<1>17. l \in Command /\ l.holds = {"registry"} /\ l.op = status /\ l.arg = j /\ l.at = today
  BY <1>6, <1>15, <1>16, BegunIs, FileNames
<1>18. l.at <= today' BY <1>8, <1>17 DEF Grows
<1>19. KeepsProjects(old, new, l) BY <1>1, <1>11, <1>17 DEF KeepsProjects
<1>20. PICK m : m = Save(l, "registry", new, "idle") OBVIOUS
<1>21. disk' = disk BY <1>2
<1>22. m \in Command /\ ProcHolds(m)' BY <1>3, <1>14, <1>17, <1>18, <1>19, <1>20, <1>21, SaveHolds
<1>23. Goto(p, m) BY <1>1, <1>3, <1>10, <1>15, <1>20 DEF tracked
<1> QED BY <1>8, <1>21, <1>22, <1>23, GotoKeeps

LEMMA StartKeeps == ASSUME DetectorInv, NEW p \in Procs, Start(p) PROVE DetectorInv'
<1>1. PICK op \in {"detect", "cleanup"} : Goto(p, [Idle EXCEPT !.op = op, !.pc = "sweep", !.at = today]) BY DEF Start
<1>2. Grows /\ disk' = disk BY SameWorld DEF Start, clock
<1>3. today \in Nat BY DetectorAssumption DEF DetectorInv, WorldOK, Days
<1>4. PICK m : m = [Idle EXCEPT !.op = op, !.pc = "sweep", !.at = today] OBVIOUS
<1>5. m \in Command /\ m.op = op /\ m.pc = "sweep" /\ m.at = today /\ m.then = "idle"
  <2>1. Idle \in Command /\ Idle.then = "idle" BY IdleHolds DEF Idle
  <2> QED BY <1>3, <1>4, <2>1 DEF Command, Places, Ops
<1>6. Walks(m) BY <1>3, <1>5 DEF Walks
<1> QED BY <1>1, <1>2, <1>4, <1>6, WalkKeeps

LEMMA AtPlace ==
    ASSUME DetectorInv, NEW p \in Procs
    PROVE  /\ proc[p] \in Command /\ CommandHolds(proc[p]) /\ (~proc[p].disturbed => Undisturbed(proc[p]))
           /\ proc[p].at \in Nat /\ today \in Nat
BY DetectorAssumption DEF DetectorInv, ProcHolds, Command, WorldOK, Days

LEMMA MoveIs ==
    ASSUME NEW l \in Command, NEW place \in Places, NEW m, m = [l EXCEPT !.pc = place]
    PROVE  m \in Command /\ m.pc = place /\ m.at = l.at /\ m.op = l.op /\ m.then = l.then
BY DEF Command

LEMMA SweepKeeps == ASSUME DetectorInv, NEW p \in Procs, Sweep(p) PROVE DetectorInv'
<1> DEFINE old == Load("registry")
           over == {j \in DOMAIN old : Expired(old[j], proc[p].at)}
           new == [j \in DOMAIN old |-> IF j \in over THEN [old[j] EXCEPT !.status = "expired"] ELSE old[j]]
           local == [proc[p] EXCEPT !.pc = AfterSweep(p)]
<1>1. Grows /\ disk' = disk BY SameWorld DEF Sweep, clock
<1>2. proc[p].pc \in {"sweep", "resweep"} BY DEF Sweep
<1>3. Goto(p, IF ~Readable("registry") THEN Idle
              ELSE IF over # {} THEN Save(Holding(proc[p], "registry"), "registry", new, AfterSweep(p))
              ELSE IF local.pc = "idle" THEN Idle ELSE local)
  BY DEF Sweep
<1>4. /\ proc[p] \in Command /\ proc[p].at <= today /\ proc[p].op \in {"detect", "cleanup"}
      /\ proc[p].then \in {"idle", "resweep", "settings", "projects", "confirmed"} /\ proc[p].at \in Nat /\ today \in Nat
  BY <1>2, AtPlace DEF CommandHolds
<1>5. /\ AfterSweep(p) \in {"idle", "resweep", "settings"} /\ AfterSweep(p) \in Places
      /\ AfterSweep(p) = "settings" => proc[p].op = "detect"
  BY <1>4 DEF AfterSweep, Places
<1>6. CASE Goto(p, Idle) BY <1>1, <1>6, IdleKeeps
<1>7. CASE Goto(p, local) /\ local.pc # "idle"
  <2>1. local \in Command /\ local.pc = AfterSweep(p) /\ local.at = proc[p].at /\ local.op = proc[p].op /\ local.then = proc[p].then
    BY <1>4, <1>5, MoveIs
  <2> HIDE DEF local
  <2>2. Walks(local) BY <1>4, <1>5, <1>7, <2>1 DEF Walks
  <2> QED BY <1>1, <1>7, <2>2, WalkKeeps
<1>8. CASE Goto(p, Save(Holding(proc[p], "registry"), "registry", new, AfterSweep(p)))
  <2>1. RegistryBacked(old) /\ old \in RegDocs BY LoadedDocs DEF DetectorInv
  <2> HIDE DEF old
  <2>2. DOMAIN old \subseteq Projects /\ \A j \in DOMAIN old : old[j] \in Tracked BY <2>1, RegistryDocs
  <2>3. ASSUME NEW j \in DOMAIN old
        PROVE  /\ new[j] \in Tracked /\ (new[j].status = "confirmed" => old[j].status = "confirmed")
               /\ new[j] # old[j] => old[j].status = "candidate"
    <3>1. old[j] \in Tracked BY <2>2
    <3>2. CASE j \in over
      <4>1. new[j] = [old[j] EXCEPT !.status = "expired"] BY <3>2
      <4>2. old[j].status = "candidate" BY <3>2 DEF Expired
      <4> QED BY <3>1, <4>1, <4>2 DEF Tracked
    <3>3. CASE j \notin over BY <3>1, <3>3
    <3> QED BY <3>2, <3>3
  <2>4. DOMAIN new = DOMAIN old /\ new = [j \in DOMAIN old |-> new[j]] OBVIOUS
  <2> HIDE DEF new
  <2>5. new \in [DOMAIN old -> Tracked] BY <2>3, <2>4
  <2>6. new \in RegDocs BY <2>2, <2>5, RegistryDocs
  <2>7. \A j \in DOMAIN new : new[j].status = "confirmed" => j \in approved'
    BY <1>1, <2>1, <2>3, <2>4 DEF RegistryBacked, Grows
  <2>8. PICK doc : doc = new OBVIOUS
  <2>9. Backed("registry", doc)' BY <2>6, <2>7, <2>8 DEF Backed, RegistryBacked
  <2>10. PICK c \in Command : c = proc[p] BY <1>4
  <2>11. PICK l : l = Holding(c, "registry") OBVIOUS
  <2>12. l \in Command /\ l.holds = {"registry"} /\ l.op = proc[p].op /\ l.at = proc[p].at
    <3>1. "registry" \in Files BY FileNames
    <3>2. l \in Command /\ l.holds = {"registry"} /\ l.op = c.op /\ l.at = c.at BY <2>11, <3>1, HoldingIs, Zenon
    <3> QED BY <2>10, <3>2
  <2>13. l.at <= today' BY <1>1, <1>4, <2>12, DetectorAssumption DEF Grows, WorldOK, Days
  <2>14. KeepsProjects(old, doc, l) BY <1>4, <2>3, <2>4, <2>8, <2>12 DEF KeepsProjects
  <2>15. PICK then : then = AfterSweep(p) OBVIOUS
  <2>16. PICK m : m = Save(l, "registry", doc, then) OBVIOUS
  <2>17. m \in Command /\ ProcHolds(m)'
    <3>1. /\ then \in {"idle", "resweep", "settings", "projects", "confirmed"} /\ l.op \in {"detect", "cleanup"}
          /\ then \in {"settings", "projects", "confirmed"} => l.op = "detect"
      BY <1>4, <1>5, <2>12, <2>15
    <3> QED BY <1>1, <2>9, <2>12, <2>13, <2>14, <2>16, <3>1, SaveHolds DEF old
  <2>18. Goto(p, m) BY <1>8, <2>8, <2>10, <2>11, <2>15, <2>16
  <2> QED BY <1>1, <2>17, <2>18, GotoKeeps
<1> HIDE DEF old, over, new, local
<1> QED BY <1>3, <1>6, <1>7, <1>8

LEMMA SettingsKeeps == ASSUME DetectorInv, NEW p \in Procs, Settings(p) PROVE DetectorInv'
<1> DEFINE old == Load("optout")
           new == Reconciled(old, proc[p].at)
           then == IF new.paused THEN "idle" ELSE "projects"
           local == [proc[p] EXCEPT !.optout = new]
<1>1. Grows /\ disk' = disk BY SameWorld DEF Settings, clock
<1>2. proc[p].pc = "settings" BY DEF Settings
<1>3. Goto(p, IF new # old THEN Save(Holding(local, "optout"), "optout", new, then)
              ELSE IF new.paused THEN Idle ELSE [local EXCEPT !.pc = "projects"])
  BY DEF Settings
<1>4. /\ proc[p] \in Command /\ proc[p].at <= today /\ proc[p].op = "detect"
      /\ proc[p].then \in {"idle", "resweep", "settings", "projects", "confirmed"} /\ proc[p].at \in Nat /\ today \in Nat
  BY <1>2, AtPlace DEF CommandHolds, Running
<1>5. SettingsBacked(old) /\ old \in OptDocs BY LoadedDocs DEF DetectorInv
<1> HIDE DEF old
<1> DEFINE throttled == {t \in old.throttled : RebutCount(old, t, proc[p].at) >= RebutThreshold}
<1>6. new = [old EXCEPT !.throttled = throttled] BY DEF Reconciled
<1>7. throttled \in SUBSET AnsweredTypes BY <1>5 DEF OptDocs
<1>8. ASSUME NEW t \in old.throttled \ throttled PROVE RebutCount(old, t, proc[p].at) < RebutThreshold
  <2>1. \A r \in old.rebuts : r.note \in NoteIds /\ <<r.type, r.note>> \in rebutted
    BY <1>5 DEF SettingsBacked, OptDocs, DayRebut
  <2>2. RebutCount(old, t, proc[p].at) \in Nat BY <2>1, RebutsAreCounted
  <2>3. ~(RebutCount(old, t, proc[p].at) >= RebutThreshold) BY <1>8
  <2> QED BY <2>2, <2>3, DetectorAssumption
<1>9. throttled \subseteq old.throttled OBVIOUS
<1> HIDE DEF throttled, new
<1>10. /\ new \in OptDocs /\ new.rebuts = old.rebuts /\ new.throttled = throttled
       /\ new.disabled = old.disabled /\ new.paused = old.paused
  BY <1>5, <1>6, <1>7 DEF OptDocs
<1>11. local \in Command /\ local.pc = "settings" /\ local.op = "detect" /\ local.at = proc[p].at /\ local.then = proc[p].then
  BY <1>2, <1>4, <1>10 DEF Command
<1> HIDE DEF local
<1>12. CASE Goto(p, Idle) BY <1>1, <1>12, IdleKeeps
<1>13. CASE Goto(p, [local EXCEPT !.pc = "projects"])
  <2>1. PICK m : m = [local EXCEPT !.pc = "projects"] OBVIOUS
  <2>2. "projects" \in Places BY DEF Places
  <2>3. m \in Command /\ m.pc = "projects" /\ m.at = local.at /\ m.op = local.op /\ m.then = local.then
    BY <1>11, <2>1, <2>2, MoveIs
  <2>4. Walks(m) BY <1>4, <1>11, <2>3 DEF Walks
  <2> QED BY <1>1, <1>13, <2>1, <2>4, WalkKeeps
<1>14. CASE Goto(p, Save(Holding(local, "optout"), "optout", new, then))
  <2>1. PICK doc : doc = new OBVIOUS
  <2>2. \A r \in doc.rebuts : <<r.type, r.note>> \in rebutted' BY <1>1, <1>5, <1>10, <2>1 DEF SettingsBacked, Grows
  <2>3. PICK was : was = old OBVIOUS
  <2>4. SettingsBacked(doc)'
    <3>1. \A t \in doc.throttled : t \in was.throttled \/ RebutCount(doc, t, 0) >= RebutThreshold
      BY <1>9, <1>10, <2>1, <2>3
    <3> QED BY <1>1, <1>5, <1>10, <2>1, <2>2, <2>3, <3>1, SettingsGrow
  <2>5. Backed("optout", doc)' BY <2>4 DEF Backed
  <2>6. PICK c \in Command : c = local BY <1>11
  <2>7. PICK l : l = Holding(c, "optout") OBVIOUS
  <2>8. l \in Command /\ l.holds = {"optout"} /\ l.op = "detect" /\ l.at = proc[p].at
    <3>1. "optout" \in Files BY FileNames
    <3>2. l \in Command /\ l.holds = {"optout"} /\ l.op = c.op /\ l.at = c.at BY <2>7, <3>1, HoldingIs, Zenon
    <3> QED BY <1>11, <2>6, <3>2
  <2>9. l.at <= today' BY <1>1, <1>4, <2>8, DetectorAssumption DEF Grows, WorldOK, Days
  <2>10. Recent(old, l.at) \subseteq old.rebuts BY <1>5, RecentIs
  <2>11. KeepsSettings(old, doc, l) BY <1>8, <1>10, <2>1, <2>8, <2>10 DEF KeepsSettings
  <2>12. PICK place : place = then OBVIOUS
  <2>13. place \in {"idle", "projects"} BY <2>12
  <2>14. PICK m : m = Save(l, "optout", doc, place) OBVIOUS
  <2>15. m \in Command /\ ProcHolds(m)' BY <1>1, <2>5, <2>8, <2>9, <2>11, <2>13, <2>14, SaveHolds DEF old
  <2>16. Goto(p, m) BY <1>14, <2>1, <2>6, <2>7, <2>12, <2>14
  <2> QED BY <1>1, <2>15, <2>16, GotoKeeps
<1> HIDE DEF then
<1> QED BY <1>3, <1>12, <1>13, <1>14

-----------------------------------------------------------------------------
(* A run, from the registry to the queue.                                  *)

LEMMA LoadProjectsKeeps == ASSUME DetectorInv, NEW p \in Procs, LoadProjects(p) PROVE DetectorInv'
<1>1. Grows /\ disk' = disk BY SameWorld DEF LoadProjects, clock
<1>2. proc[p].pc = "projects" BY DEF LoadProjects
<1>3. PICK place : place = IF DOMAIN Load("registry") = {} THEN "discover" ELSE "confirmed" OBVIOUS
<1>4. Goto(p, Idle) \/ Goto(p, [proc[p] EXCEPT !.pc = place]) BY <1>3 DEF LoadProjects
<1>5. place \in {"discover", "confirmed"} /\ place \in Places BY <1>3 DEF Places
<1>6. PICK m : m = [proc[p] EXCEPT !.pc = place] OBVIOUS
<1>7. m \in Command /\ m.pc = place /\ m.at = proc[p].at /\ m.op = proc[p].op /\ m.then = proc[p].then
  BY <1>5, <1>6, AtPlace, MoveIs
<1>8. Walks(m) BY <1>2, <1>5, <1>7, AtPlace DEF Walks, CommandHolds, Running
<1> QED BY <1>1, <1>4, <1>6, <1>8, IdleKeeps, WalkKeeps

LEMMA DiscoverKeeps == ASSUME DetectorInv, NEW p \in Procs, Discover(p) PROVE DetectorInv'
<1> DEFINE old == Load("registry")
<1>1. Grows /\ disk' = disk BY SameWorld DEF Discover, clock
<1>2. proc[p].pc = "discover" BY DEF Discover
<1>3. PICK found \in SUBSET {j \in Projects : mentioned[j] # {}} :
        Goto(p, IF ~Readable("registry") THEN Idle
                ELSE IF found # {} THEN Save(Holding(proc[p], "registry"), "registry",
                       [j \in DOMAIN old \cup found |-> IF j \in DOMAIN old THEN old[j] ELSE NewProject(today)], "confirmed")
                ELSE [proc[p] EXCEPT !.pc = "confirmed"])
  BY DEF Discover
<1>4. PICK doc : doc = [j \in DOMAIN old \cup found |-> IF j \in DOMAIN old THEN old[j] ELSE NewProject(today)] OBVIOUS
<1>5. PICK c \in Command : c = proc[p] BY AtPlace
<1>6. /\ c.at <= today /\ c.at \in Nat /\ today \in Nat /\ c.op = "detect"
      /\ c.then \in {"idle", "resweep", "settings", "projects", "confirmed"}
  BY <1>2, <1>5, AtPlace DEF CommandHolds, Running
<1>7. CASE Goto(p, Idle) BY <1>1, <1>7, IdleKeeps
<1>8. CASE Goto(p, [c EXCEPT !.pc = "confirmed"])
  <2>1. PICK m : m = [c EXCEPT !.pc = "confirmed"] OBVIOUS
  <2>2. "confirmed" \in Places BY DEF Places
  <2>3. m \in Command /\ m.pc = "confirmed" /\ m.at = c.at /\ m.op = c.op /\ m.then = c.then
    BY <2>1, <2>2, MoveIs
  <2>4. Walks(m) BY <1>6, <2>3 DEF Walks
  <2> QED BY <1>1, <1>8, <2>1, <2>4, WalkKeeps
<1>9. CASE Goto(p, Save(Holding(c, "registry"), "registry", doc, "confirmed"))
  <2>1. RegistryBacked(old) /\ old \in RegDocs BY LoadedDocs DEF DetectorInv
  <2> HIDE DEF old
  <2>2. DOMAIN old \subseteq Projects /\ \A j \in DOMAIN old : old[j] \in Tracked BY <2>1, RegistryDocs
  <2>3. NewProject(today) \in Tracked /\ NewProject(today).status = "candidate"
    <3>1. TtlDays \in Nat BY DetectorAssumption
    <3> QED BY <1>6, <3>1 DEF NewProject, Tracked
  <2>4. found \subseteq Projects OBVIOUS
  <2>5. /\ DOMAIN doc = DOMAIN old \cup found /\ (\A j \in DOMAIN old : doc[j] = old[j])
        /\ \A j \in DOMAIN doc : doc[j] \in Tracked /\ (j \notin DOMAIN old => doc[j].status = "candidate")
    BY <1>4, <2>2, <2>3
  <2>6. doc \in [DOMAIN old \cup found -> Tracked] BY <1>4, <2>2, <2>3
  <2>7. doc \in RegDocs
    <3>1. DOMAIN old \cup found \in SUBSET Projects BY <2>2, <2>4
    <3> QED BY <2>6, <3>1, RegistryDocs
  <2>8. \A j \in DOMAIN doc : doc[j].status = "confirmed" => j \in approved'
    BY <1>1, <2>1, <2>5 DEF RegistryBacked, Grows
  <2>9. Backed("registry", doc)' BY <2>7, <2>8 DEF Backed, RegistryBacked
  <2>10. PICK l : l = Holding(c, "registry") OBVIOUS
  <2>11. l \in Command /\ l.holds = {"registry"} /\ l.op = c.op /\ l.at = c.at
    <3>1. "registry" \in Files BY FileNames
    <3> QED BY <2>10, <3>1, HoldingIs, Zenon
  <2>12. l.at <= today' BY <1>1, <1>6, <2>11, DetectorAssumption DEF Grows, WorldOK, Days
  <2>13. KeepsProjects(old, doc, l) BY <2>5 DEF KeepsProjects
  <2>14. PICK m : m = Save(l, "registry", doc, "confirmed") OBVIOUS
  <2>15. m \in Command /\ ProcHolds(m)' BY <1>1, <1>6, <2>9, <2>11, <2>12, <2>13, <2>14, SaveHolds DEF old
  <2>16. Goto(p, m) BY <1>9, <2>10, <2>14
  <2> QED BY <1>1, <2>15, <2>16, GotoKeeps
<1> HIDE DEF old
<1> QED BY <1>3, <1>4, <1>5, <1>7, <1>8, <1>9

LEMMA ScanKeeps == ASSUME DetectorInv, NEW p \in Procs, Scan(p) PROVE DetectorInv'
<1>1. Grows /\ disk' = disk BY SameWorld DEF Scan, clock
<1>2. proc[p].pc = "confirmed" BY DEF Scan
<1>3. PICK projects : projects = Load("registry") OBVIOUS
<1>4. PICK confirmed : confirmed = {j \in DOMAIN projects : projects[j].status = "confirmed"} OBVIOUS
<1>5. PICK mentions : mentions = [j \in confirmed |-> Mentions(j, proc[p].at)] OBVIOUS
<1>6. PICK rows : rows = Load("queue") OBVIOUS
<1>7. PICK c \in Command : c = proc[p] BY AtPlace
<1>8. Goto(p, Idle) \/ Goto(p, [Holding(c, "queue") EXCEPT !.pc = "judge", !.rows = rows, !.mentions = mentions])
  BY <1>3, <1>4, <1>5, <1>6, <1>7 DEF Scan
<1>9. c.at <= today /\ c.op = "detect" /\ c.then \in {"idle", "resweep", "settings", "projects", "confirmed"}
  BY <1>2, <1>7, AtPlace DEF CommandHolds, Running
<1>10. RegistryBacked(projects) /\ projects \in RegDocs /\ rows \in SUBSET NoteRow
  BY <1>3, <1>6, LoadedDocs DEF DetectorInv
<1>11. confirmed \subseteq Projects /\ confirmed \subseteq approved
  BY <1>4, <1>10, RegistryDocs DEF RegistryBacked
<1>12. mentioned \in [Projects -> SUBSET Days] BY DEF DetectorInv, WorldOK
<1>13. \A j \in confirmed : /\ Mentions(j, c.at) \subseteq mentioned[j] /\ Mentions(j, c.at) \in SUBSET Days
                            /\ \A d \in Mentions(j, c.at) : d >= c.at - WindowDays
  BY <1>11, <1>12 DEF Mentions
<1>14. mentions \in [confirmed -> SUBSET Days] /\ DOMAIN mentions = confirmed
       /\ \A j \in confirmed : mentions[j] = Mentions(j, c.at)
  BY <1>5, <1>7, <1>13
<1>15. mentions \in MentionMaps BY <1>11, <1>14 DEF MentionMaps
<1>16. PICK l : l = Holding(c, "queue") OBVIOUS
<1>17. l \in Command /\ l.holds = {"queue"} /\ l.op = c.op /\ l.at = c.at /\ l.then = c.then
  <2>1. "queue" \in Files BY FileNames
  <2>2. l \in Command /\ l.holds = {"queue"} /\ l.op = c.op /\ l.at = c.at BY <1>16, <2>1, HoldingIs, Zenon
  <2>3. l.then = c.then BY <1>16 DEF Holding, Command
  <2> QED BY <2>2, <2>3
<1>18. PICK m : m = [l EXCEPT !.pc = "judge", !.rows = rows, !.mentions = mentions] OBVIOUS
<1>19. /\ m \in Command /\ m.pc = "judge" /\ m.rows = rows /\ m.mentions = mentions
       /\ m.holds = {"queue"} /\ m.op = "detect" /\ m.at = c.at /\ m.then = c.then
  BY <1>9, <1>10, <1>15, <1>17, <1>18 DEF Command, Places
<1>20. CommandHolds(m)
  <2>1. \A j \in DOMAIN m.mentions :
            j \in approved /\ m.mentions[j] \subseteq mentioned[j] /\ \A d \in m.mentions[j] : d >= m.at - WindowDays
    BY <1>11, <1>13, <1>14, <1>19
  <2> QED BY <1>9, <1>19, <2>1 DEF CommandHolds, Saving, Running
<1>21. Undisturbed(m) BY <1>6, <1>19 DEF Undisturbed, Saving
<1>22. ProcHolds(m)' BY <1>1, <1>19, <1>20, <1>21, HoldsStay DEF ProcHolds
<1>23. CASE Goto(p, Idle) BY <1>1, <1>23, IdleKeeps
<1>24. CASE Goto(p, m) BY <1>1, <1>19, <1>22, <1>24, GotoKeeps
<1> QED BY <1>8, <1>16, <1>18, <1>23, <1>24

LEMMA NoteIs ==
    ASSUME NEW j, NEW type, NEW refs, NEW created, NEW n, n = Note(j, type, refs, created)
    PROVE  /\ n.project = j /\ n.type = type /\ n.refs = refs /\ n.created = created
           /\ j \in Projects /\ type \in NoteTypes /\ refs \in SUBSET Days /\ created \in Nat => n \in NoteRow
BY DEF Note, NoteRow, Unread

\* What a run decides to tell the user.
LEMMA NotesAreDue ==
    ASSUME DetectorInv, NEW p \in Procs, proc[p].pc = "judge"
    PROVE  /\ NewNotes(p) \in SUBSET NoteRow /\ \A n \in NewNotes(p) : Warranted(n)
           /\ \A n \in NewNotes(p), row \in proc[p].rows :
                row.project = n.project /\ row.type = n.type =>
                  \/ row.created > n.created
                  \/ n.created - row.created > CooldownOf(proc[p].optout, n.type)
           /\ \A n, o \in NewNotes(p) : n.project = o.project => n = o
<1>1. PICK c \in Command : c = proc[p] BY AtPlace
<1>2. /\ c.at <= today /\ c.at \in Nat /\ today \in Nat
      /\ \A j \in DOMAIN c.mentions :
            j \in approved /\ c.mentions[j] \subseteq mentioned[j] /\ \A d \in c.mentions[j] : d >= c.at - WindowDays
  BY <1>1, AtPlace DEF CommandHolds
<1> DEFINE type == [j \in DOMAIN c.mentions |-> TypeFor(Cardinality(c.mentions[j]))]
           due == {j \in DOMAIN c.mentions :
                     /\ type[j] \notin c.optout.disabled
                     /\ Cardinality(c.mentions[j]) >= TriggerThreshold
                     /\ Stagnant(j, c.at - WindowDays)
                     /\ ~HasCooldown(c.rows, j, type[j], c.at - CooldownOf(c.optout, type[j]), c.at)}
<1>3. NewNotes(p) = {Note(j, type[j], c.mentions[j], c.at) : j \in due} BY <1>1 DEF NewNotes
<1>4. c.mentions \in MentionMaps /\ c.rows \in SUBSET NoteRow BY DEF Command
<1>5. DOMAIN c.mentions \subseteq Projects /\ \A j \in DOMAIN c.mentions : c.mentions[j] \in SUBSET Days
  BY <1>4 DEF MentionMaps
<1>6. \A j \in DOMAIN c.mentions : type[j] = TypeFor(Cardinality(c.mentions[j])) OBVIOUS
<1> HIDE DEF type
<1>7. ASSUME NEW n \in NewNotes(p)
      PROVE  \E j \in DOMAIN c.mentions :
                /\ n = Note(j, type[j], c.mentions[j], c.at) /\ Cardinality(c.mentions[j]) >= TriggerThreshold
                /\ Stagnant(j, c.at - WindowDays)
                /\ ~HasCooldown(c.rows, j, type[j], c.at - CooldownOf(c.optout, type[j]), c.at)
  BY <1>3
<1> HIDE DEF due
<1>8. \A k : TypeFor(k) \in NoteTypes BY DEF TypeFor, NoteTypes
<1>9. \A t : CooldownOf(c.optout, t) \in Nat BY DetectorAssumption DEF CooldownOf
<1>10. ASSUME NEW n \in NewNotes(p)
       PROVE  /\ n \in NoteRow /\ Warranted(n)
              /\ \A row \in c.rows :
                   row.project = n.project /\ row.type = n.type =>
                     \/ row.created > n.created
                     \/ n.created - row.created > CooldownOf(c.optout, n.type)
  <2>1. PICK j \in DOMAIN c.mentions :
                /\ n = Note(j, type[j], c.mentions[j], c.at) /\ Cardinality(c.mentions[j]) >= TriggerThreshold
                /\ Stagnant(j, c.at - WindowDays)
                /\ ~HasCooldown(c.rows, j, type[j], c.at - CooldownOf(c.optout, type[j]), c.at)
    BY <1>7
  <2>2. n.project = j /\ n.type = type[j] /\ n.refs = c.mentions[j] /\ n.created = c.at BY <2>1, NoteIs
  <2>3. j \in Projects /\ type[j] \in NoteTypes /\ c.mentions[j] \in SUBSET Days BY <1>5, <1>6, <1>8
  <2>4. n \in NoteRow BY <1>2, <2>1, <2>3, NoteIs
  <2>5. n.type = TypeFor(Cardinality(n.refs)) BY <1>6, <2>2
  <2>6. \A d \in touched[j] \cup done[j] : d < c.at - WindowDays BY <2>1 DEF Stagnant, MtimeUnchanged, NoNewDone
  <2>7. Warranted(n) BY <1>2, <2>1, <2>2, <2>5, <2>6 DEF Warranted
  <2>8. ASSUME NEW row \in c.rows, row.project = n.project, row.type = n.type
        PROVE  row.created > n.created \/ n.created - row.created > CooldownOf(c.optout, n.type)
    <3>1. PICK cool \in Nat : cool = CooldownOf(c.optout, n.type) BY <1>9
    <3>2. row.created \in Nat BY <1>4 DEF NoteRow
    <3>3. ~HasCooldown(c.rows, j, n.type, c.at - cool, c.at) BY <2>1, <2>2, <3>1
    <3>4. ~(c.at - cool <= row.created /\ row.created <= c.at) BY <2>2, <2>8, <3>3 DEF HasCooldown
    <3> QED BY <1>2, <2>2, <3>1, <3>2, <3>4
  <2> QED BY <2>4, <2>7, <2>8
<1>11. ASSUME NEW n \in NewNotes(p), NEW o \in NewNotes(p), n.project = o.project PROVE n = o
  <2>1. PICK j : n = Note(j, type[j], c.mentions[j], c.at) BY <1>7
  <2>2. PICK k : o = Note(k, type[k], c.mentions[k], c.at) BY <1>7
  <2>3. n.project = j /\ o.project = k BY <2>1, <2>2, NoteIs
  <2> QED BY <1>11, <2>1, <2>2, <2>3
<1> QED BY <1>1, <1>10, <1>11

LEMMA JudgeKeeps == ASSUME DetectorInv, NEW p \in Procs, Judge(p) PROVE DetectorInv'
<1>1. Grows /\ disk' = disk BY SameWorld DEF Judge, clock
<1>2. proc[p].pc = "judge" BY DEF Judge
<1>3. PICK c \in Command : c = proc[p] BY AtPlace
<1>4. PICK fresh : fresh = NewNotes(p) OBVIOUS
<1>5. PICK m : m = [c EXCEPT !.pc = "append", !.fresh = fresh] OBVIOUS
<1>6. Goto(p, Idle) \/ Goto(p, m) BY <1>3, <1>4, <1>5 DEF Judge
<1>7. /\ fresh \in SUBSET NoteRow /\ \A n \in fresh : Warranted(n)
      /\ \A n \in fresh, row \in c.rows :
           row.project = n.project /\ row.type = n.type =>
             row.created > n.created \/ n.created - row.created > CooldownOf(c.optout, n.type)
      /\ \A n, o \in fresh : n.project = o.project => n = o
  BY <1>2, <1>3, <1>4, NotesAreDue
<1>8. /\ m \in Command /\ m.pc = "append" /\ m.fresh = fresh /\ m.rows = c.rows /\ m.optout = c.optout
      /\ m.holds = c.holds /\ m.op = c.op /\ m.at = c.at /\ m.then = c.then /\ m.disturbed = c.disturbed
  BY <1>5, <1>7 DEF Command, Places
<1>9. c.op = "detect" /\ c.at <= today /\ c.then \in {"idle", "resweep", "settings", "projects", "confirmed"}
  BY <1>2, <1>3, AtPlace DEF CommandHolds, Running
<1>10. CommandHolds(m) BY <1>7, <1>8, <1>9 DEF CommandHolds, Saving, Running
<1>11. ASSUME ~m.disturbed PROVE Undisturbed(m)
  <2>1. "queue" \in c.holds /\ Load("queue") = c.rows BY <1>2, <1>3, <1>8, <1>11, AtPlace DEF Undisturbed
  <2>2. Cooled(m, m.rows) BY <1>7, <1>8 DEF Cooled
  <2>3. Cooled(m, m.fresh) BY <1>7, <1>8 DEF Cooled, SameId
  <2> QED BY <1>8, <2>1, <2>2, <2>3 DEF Undisturbed, Saving
<1>12. ProcHolds(m)' BY <1>1, <1>8, <1>10, <1>11, HoldsStay DEF ProcHolds
<1>13. CASE Goto(p, Idle) BY <1>1, <1>13, IdleKeeps
<1>14. CASE Goto(p, m) BY <1>1, <1>8, <1>12, <1>14, GotoKeeps
<1> QED BY <1>6, <1>13, <1>14

LEMMA AppendNotesKeeps == ASSUME DetectorInv, NEW p \in Procs, AppendNotes(p) PROVE DetectorInv'
<1>1. Grows /\ disk' = disk BY SameWorld DEF AppendNotes, clock
<1>2. proc[p].pc = "append" BY DEF AppendNotes
<1>3. PICK c \in Command : c = proc[p] BY AtPlace
<1>4. PICK old : old = Load("queue") OBVIOUS
<1>5. PICK doc : doc = {r \in old : \A n \in c.fresh : ~SameId(r, n)} \cup c.fresh OBVIOUS
<1>6. PICK b \in BOOLEAN : b = (c.disturbed \/ ~Readable("queue")) BY DEF Command
<1>7. PICK l : l = [c EXCEPT !.disturbed = b] OBVIOUS
<1>8. Goto(p, Save(l, "queue", doc, "idle")) BY <1>3, <1>4, <1>5, <1>6, <1>7 DEF AppendNotes
<1>9. l \in Command /\ l.fresh = c.fresh /\ l.holds = c.holds /\ l.at = c.at /\ l.optout = c.optout /\ l.disturbed = b
  BY <1>6, <1>7 DEF Command
<1>10. c.at <= today /\ c.at \in Nat /\ today \in Nat /\ \A n \in c.fresh : Warranted(n)
  BY <1>2, <1>3, AtPlace DEF CommandHolds
<1>11. l.at <= today' BY <1>1, <1>9, <1>10, DetectorAssumption DEF Grows, WorldOK, Days
<1>12. QueueBacked(old) /\ old \in SUBSET NoteRow BY <1>4, LoadedDocs DEF DetectorInv
<1>13. c.fresh \in SUBSET NoteRow BY DEF Command
<1>14. QueueBacked(doc) BY <1>5, <1>10, <1>12, <1>13 DEF QueueBacked
<1>15. Backed("queue", doc) BY <1>14 DEF Backed
<1>16. Backed("queue", doc)' BY <1>1, <1>15, BackedStays
<1>17. ASSUME ~l.disturbed PROVE "queue" \in l.holds /\ KeepsNotes(old, doc) /\ Cooled(l, doc)
  <2>1. "queue" \in c.holds /\ old = c.rows /\ Cooled(c, c.rows) /\ Cooled(c, c.fresh)
    BY <1>2, <1>3, <1>4, <1>6, <1>9, <1>17, AtPlace DEF Undisturbed
  <2>2. KeepsNotes(old, doc)
    <3>1. ASSUME NEW r \in old PROVE \E n \in doc : SameId(r, n)
      <4>1. CASE \A n \in c.fresh : ~SameId(r, n) BY <1>5, <4>1 DEF SameId
      <4>2. CASE \E n \in c.fresh : SameId(r, n) BY <1>5, <4>2
      <4> QED BY <4>1, <4>2
    <3> QED BY <3>1 DEF KeepsNotes
  <2>3. Cooled(l, doc) BY <1>5, <1>9, <2>1 DEF Cooled
  <2> QED BY <1>9, <2>1, <2>2, <2>3
<1>18. PICK m : m = Save(l, "queue", doc, "idle") OBVIOUS
<1>19. m \in Command /\ ProcHolds(m)' BY <1>1, <1>4, <1>9, <1>11, <1>16, <1>17, <1>18, SaveHolds
<1> QED BY <1>1, <1>8, <1>18, <1>19, GotoKeeps

-----------------------------------------------------------------------------
(* Opening, writing and renaming a file.                                   *)

LEMMA EmptyStays == ASSUME NEW f \in Files PROVE Backed(f, EmptyDoc(f))'
<1>1. PICK doc : doc = EmptyDoc(f) OBVIOUS
<1>2. CASE f = "registry"
  <2>1. doc = NoProjects BY <1>1, <1>2 DEF EmptyDoc
  <2> QED BY <1>1, <1>2, <2>1, NothingIsADocument DEF Backed, RegistryBacked
<1>3. CASE f = "queue"
  <2>1. doc = {} BY <1>1, <1>3 DEF EmptyDoc
  <2> QED BY <1>1, <1>3, <2>1 DEF Backed, QueueBacked
<1>4. CASE f \notin {"registry", "queue"}
  <2>1. doc = DefaultOptOut BY <1>1, <1>4 DEF EmptyDoc
  <2> QED BY <1>1, <1>4, <2>1, NothingIsADocument DEF Backed, SettingsBacked
<1> QED BY <1>2, <1>3, <1>4

LEMMA OpenKeeps == ASSUME DetectorInv, NEW p \in Procs, Open(p) PROVE DetectorInv'
<1>1. Grows BY SameWorld DEF Open, clock
<1>2. proc[p].pc = "open" BY DEF Open
<1>3. PICK c \in Command : c = proc[p] BY AtPlace
<1>4. PICK f : f = c.file OBVIOUS
<1>5. f \in {"registry", "queue", "tmp"} /\ f \in Files BY <1>4 DEF Command, Files
<1>6. PICK b \in BOOLEAN : b = (c.disturbed \/ \E q \in Procs \ {p} : proc[q].pc \in {"write", "replace"} /\ proc[q].file = f)
  BY DEF Command
<1>7. PICK m : m = [c EXCEPT !.pc = "write", !.fd = f, !.disturbed = b] OBVIOUS
<1>8. disk' = [disk EXCEPT ![f] = Partial(f)] /\ Become(p, m, {f}, FALSE)
  BY <1>3, <1>4, <1>6, <1>7 DEF Open
<1>9. Backed(f, EmptyDoc(f))' BY <1>5, EmptyStays
<1>10. Partial(f) \in DiskFile /\ Partial(f).doc = EmptyDoc(f) /\ Partial(f).state = "partial"
  BY <1>5, EmptyIsBacked, FileKinds
<1>11. DiskOK' /\ disk'[f] = Partial(f) /\ \A g \in Files \ {f} : disk'[g] = disk[g]
  <2>1. DiskOK BY DEF DetectorInv
  <2>2. PICK file \in DiskFile : file = Partial(f) BY <1>10
  <2>3. Backed(f, file.doc)'
    <3>1. file.doc = EmptyDoc(f) BY <1>10, <2>2
    <3> QED BY <1>9, <3>1
  <2> QED BY <1>1, <1>5, <1>8, <1>10, <2>1, <2>2, <2>3, DiskChanges
<1>12. /\ m \in Command /\ m.pc = "write" /\ m.fd = f /\ m.disturbed = b /\ m.file = f /\ m.doc = c.doc /\ m.then = c.then
       /\ m.op = c.op /\ m.arg = c.arg /\ m.at = c.at /\ m.holds = c.holds /\ m.fresh = c.fresh /\ m.optout = c.optout
  <2>1. f \in {"none", "registry", "queue", "tmp", "optout", "gone"} /\ "write" \in Places BY <1>5 DEF Places
  <2>2. m \in Command BY <1>7, <2>1 DEF Command
  <2>3. /\ m.pc = "write" /\ m.fd = f /\ m.disturbed = b /\ m.file = c.file /\ m.doc = c.doc /\ m.then = c.then
        /\ m.op = c.op /\ m.arg = c.arg /\ m.at = c.at /\ m.holds = c.holds /\ m.fresh = c.fresh /\ m.optout = c.optout
    BY <1>7 DEF Command
  <2> QED BY <1>4, <2>2, <2>3
<1>13. CommandHolds(c) BY <1>3, AtPlace
<1>14. CommandHolds(m) BY <1>2, <1>3, <1>4, <1>12, <1>13 DEF CommandHolds, Saving, Running
<1>15. CommandHolds(m)' BY <1>1, <1>12, <1>14, CommandStays
<1>16. ASSUME ~m.disturbed PROVE Undisturbed(m)'
  <2>1. Undisturbed(c) BY <1>3, <1>6, <1>12, <1>16, AtPlace
  <2>2. f \in c.holds BY <1>2, <1>3, <1>4, <2>1 DEF Undisturbed, Saving
  <2>3. f = "tmp" => "optout" \in m.holds /\ KeepsSettings(Load("optout"), m.doc, m)'
    <3> SUFFICES ASSUME f = "tmp" PROVE "optout" \in m.holds /\ KeepsSettings(Load("optout"), m.doc, m)' OBVIOUS
    <3>1. "optout" \in c.holds /\ KeepsSettings(Load("optout"), c.doc, c)
      BY <1>2, <1>3, <1>4, <2>1 DEF Undisturbed, Saving
    <3>2. KeepsSettings(Load("optout"), m.doc, m) BY <1>12, <3>1 DEF KeepsSettings
    <3>3. Load("optout")' = Load("optout") BY <1>11, FileNames, LoadStays
    <3> QED BY <1>12, <3>1, <3>2, <3>3 DEF KeepsSettings
  <2> QED BY <1>10, <1>11, <1>12, <2>2, <2>3 DEF Undisturbed, Saving
<1>17. ProcHolds(m)' BY <1>15, <1>16 DEF ProcHolds
<1>18. {f} \in SUBSET Files BY <1>5
<1> QED BY <1>1, <1>8, <1>11, <1>12, <1>17, <1>18, StepKeeps

\* Where a command goes on after a save.
LEMMA SavedIs ==
    ASSUME DetectorInv, Grows, NEW p \in Procs, Saving(proc[p]), NEW m, m = Saved(p)
    PROVE  m \in Command /\ ProcHolds(m)'
<1>1. CASE proc[p].then = "idle" BY <1>1, IdleHolds DEF Saved, Grows
<1>2. CASE proc[p].then # "idle"
  <2>1. PICK c \in Command : c = proc[p] BY AtPlace
  <2>2. m = [c EXCEPT !.pc = c.then, !.fd = "none", !.holds = {}, !.doc = DefaultOptOut] BY <1>2, <2>1 DEF Saved
  <2>3. DefaultOptOut \in Docs BY NothingIsADocument DEF Docs
  <2>4. /\ m \in Command /\ m.pc = c.then /\ m.then = c.then /\ m.op = c.op /\ m.at = c.at
    BY <2>2, <2>3 DEF Command
  <2>5. c.then \in {"resweep", "settings", "projects", "confirmed"} /\ c.op \in {"detect", "cleanup"} /\ c.at <= today
        /\ (c.then \in {"settings", "projects", "confirmed"} => c.op = "detect")
    BY <1>2, <2>1, AtPlace DEF CommandHolds
  <2>6. CommandHolds(m) BY <2>4, <2>5 DEF CommandHolds, Saving, Running
  <2>7. CommandHolds(m)' BY <2>4, <2>6, CommandStays
  <2>8. Undisturbed(m)' BY <2>4, <2>5 DEF Undisturbed, Saving
  <2> QED BY <2>4, <2>7, <2>8 DEF ProcHolds
<1> QED BY <1>1, <1>2

LEMMA WriteKeeps == ASSUME DetectorInv, NEW p \in Procs, Write(p) PROVE DetectorInv'
<1>1. Grows BY SameWorld DEF Write, clock
<1>2. proc[p].pc = "write" BY DEF Write
<1>3. PICK c \in Command : c = proc[p] BY AtPlace
<1>4. CommandHolds(c) /\ (~c.disturbed => Undisturbed(c)) BY <1>3, AtPlace
<1>5. c.fd = c.file \/ (c.file = "tmp" /\ c.fd \in {"optout", "gone"}) BY <1>2, <1>3, <1>4 DEF CommandHolds
<1>6. c.file \in {"registry", "queue", "tmp"} BY DEF Command
<1>7. Backed(c.file, c.doc) BY <1>2, <1>3, <1>4 DEF CommandHolds, Saving
<1>8. PICK m : m = IF c.file = "tmp" THEN [c EXCEPT !.pc = "replace", !.fd = "none"] ELSE Saved(p) OBVIOUS
<1>9. \/ c.fd = "gone" /\ Goto(p, m) /\ disk' = disk
      \/ /\ c.fd # "gone" /\ \E file \in Written(c.fd, c.doc) : disk' = [disk EXCEPT ![c.fd] = file]
         /\ Become(p, m, {c.fd}, FALSE)
  BY <1>3, <1>8 DEF Write
<1>10. CASE c.fd = "gone"
  <2>1. c.file = "tmp" /\ c.disturbed
    <3>1. c.file = "tmp" BY <1>5, <1>6, <1>10
    <3> QED BY <1>2, <1>3, <1>4, <1>10, <3>1 DEF Undisturbed, Command
  <2>2. /\ m \in Command /\ m.pc = "replace" /\ m.file = "tmp" /\ m.doc = c.doc /\ m.then = c.then /\ m.op = c.op /\ m.at = c.at
        /\ m.disturbed
    BY <1>8, <2>1 DEF Command, Places
  <2>3. CommandHolds(m) BY <1>2, <1>3, <1>4, <1>7, <2>1, <2>2 DEF CommandHolds, Saving, Running
  <2>4. CommandHolds(m)' BY <1>1, <2>2, <2>3, CommandStays
  <2>5. ProcHolds(m)' BY <2>2, <2>4 DEF ProcHolds
  <2> QED BY <1>1, <1>9, <1>10, <2>2, <2>5, GotoKeeps
<1>11. CASE c.fd # "gone"
  <2>1. PICK file \in Written(c.fd, c.doc) : disk' = [disk EXCEPT ![c.fd] = file] BY <1>9, <1>11
  <2>2. c.fd \in Files BY <1>5, <1>6, <1>11 DEF Files
  <2>3. Backed(c.fd, c.doc)
    <3>1. CASE c.fd = c.file BY <1>7, <3>1
    <3>2. CASE c.file = "tmp" /\ c.fd = "optout" BY <1>7, <3>2 DEF Backed
    <3> QED BY <1>5, <1>11, <3>1, <3>2
  <2>4. /\ Whole(c.doc) \in DiskFile /\ Whole(c.doc).doc = c.doc /\ Whole(c.doc).state = "whole"
        /\ Partial(c.fd) \in DiskFile /\ Partial(c.fd).doc = EmptyDoc(c.fd) /\ Partial(c.fd).state = "partial"
    BY <2>2, <2>3, FileKinds
  <2>5. file = Whole(c.doc) \/ file = Partial(c.fd) BY DEF Written
  <2>6. Backed(c.fd, c.doc)' BY <1>1, <2>3, BackedStays
  <2>7. Backed(c.fd, EmptyDoc(c.fd))' BY <2>2, EmptyStays
  <2>8. file \in DiskFile /\ (file.doc = c.doc \/ file.doc = EmptyDoc(c.fd)) /\ (file.state # "whole" => file.doc = EmptyDoc(c.fd))
    BY <2>4, <2>5
  <2>9. Backed(c.fd, file.doc)'
    <3>1. CASE file.doc = c.doc BY <2>6, <3>1
    <3>2. CASE file.doc = EmptyDoc(c.fd) BY <2>7, <3>2
    <3> QED BY <2>8, <3>1, <3>2
  <2>10. DiskOK' /\ disk'[c.fd] = file /\ \A g \in Files \ {c.fd} : disk'[g] = disk[g]
    <3>1. DiskOK BY DEF DetectorInv
    <3> QED BY <1>1, <2>1, <2>2, <2>8, <2>9, <3>1, DiskChanges
  <2>11. m \in Command /\ ProcHolds(m)'
    <3>1. CASE c.file # "tmp"
      <4>1. m = Saved(p) BY <1>8, <3>1
      <4>2. Saving(proc[p]) BY <1>2 DEF Saving
      <4> QED BY <1>1, <4>1, <4>2, SavedIs
    <3>2. CASE c.file = "tmp"
      <4>1. /\ m \in Command /\ m.pc = "replace" /\ m.file = "tmp" /\ m.doc = c.doc /\ m.then = c.then /\ m.op = c.op
            /\ m.arg = c.arg /\ m.at = c.at /\ m.holds = c.holds /\ m.disturbed = c.disturbed
        BY <1>8, <3>2 DEF Command, Places
      <4>2. CommandHolds(m) BY <1>2, <1>3, <1>4, <1>7, <3>2, <4>1 DEF CommandHolds, Saving, Running
      <4>3. CommandHolds(m)' BY <1>1, <4>1, <4>2, CommandStays
      <4>4. ASSUME ~m.disturbed PROVE Undisturbed(m)'
        <5>1. Undisturbed(c) BY <1>4, <4>1, <4>4
        <5>2. c.fd = "tmp" /\ disk["tmp"].state = "partial" /\ "tmp" \in c.holds /\ "optout" \in c.holds
              /\ KeepsSettings(Load("optout"), c.doc, c)
          BY <1>2, <1>3, <3>2, <5>1 DEF Undisturbed, Saving
        <5>3. file = Whole(c.doc) BY <5>2 DEF Written
        <5>4. disk'["tmp"] = Whole(m.doc) BY <2>10, <4>1, <5>2, <5>3
        <5>5. Load("optout")' = Load("optout") BY <2>10, <5>2, FileNames, LoadStays
        <5>6. KeepsSettings(Load("optout"), m.doc, m) BY <4>1, <5>2 DEF KeepsSettings
        <5>7. KeepsSettings(Load("optout"), m.doc, m)' BY <5>5, <5>6 DEF KeepsSettings
        <5> QED BY <4>1, <5>2, <5>4, <5>7 DEF Undisturbed, Saving
      <4> QED BY <4>1, <4>3, <4>4 DEF ProcHolds
    <3> QED BY <3>1, <3>2
  <2>12. {c.fd} \in SUBSET Files BY <2>2
  <2> QED BY <1>1, <1>9, <1>11, <2>10, <2>11, <2>12, StepKeeps
<1> QED BY <1>10, <1>11

LEMMA ReplaceKeeps == ASSUME DetectorInv, NEW p \in Procs, Replace(p) PROVE DetectorInv'
<1>1. Grows BY SameWorld DEF Replace, clock
<1>2. proc[p].pc = "replace" BY DEF Replace
<1>3. CASE disk["tmp"].state = "missing"
  <2>1. Goto(p, Idle) /\ disk' = disk BY <1>3 DEF Replace
  <2> QED BY <1>1, <2>1, IdleKeeps
<1>4. CASE disk["tmp"].state # "missing"
  <2>1. /\ disk' = [disk EXCEPT !["optout"] = disk["tmp"], !["tmp"] = Missing("tmp")]
        /\ Become(p, Saved(p), {"optout", "tmp"}, TRUE)
    BY <1>4 DEF Replace
  <2>2. PICK m : m = Saved(p) OBVIOUS
  <2>3. Saving(proc[p]) BY <1>2 DEF Saving
  <2>4. m \in Command /\ ProcHolds(m)' BY <1>1, <2>2, <2>3, SavedIs
  <2>5. DiskOK BY DEF DetectorInv
  <2>6. disk \in [Files -> DiskFile] BY <2>5 DEF DiskOK
  <2>7. EmptyDoc("optout") = DefaultOptOut /\ EmptyDoc("tmp") = DefaultOptOut BY DEF EmptyDoc
  <2>8. Missing("tmp") \in DiskFile /\ Missing("tmp").doc = EmptyDoc("tmp") /\ Missing("tmp").state = "missing"
    <3>1. "tmp" \in Files BY FileNames
    <3>2. Backed("tmp", EmptyDoc("tmp")) BY <3>1, EmptyIsBacked
    <3> QED BY <3>1, <3>2, FileKinds
  <2>9. disk' \in [Files -> DiskFile] /\ disk'["tmp"] = Missing("tmp") /\ disk'["optout"] = disk["tmp"]
        /\ \A g \in Files \ {"optout", "tmp"} : disk'[g] = disk[g]
    <3>1. PICK gone \in DiskFile : gone = Missing("tmp") BY <2>8
    <3>2. disk' = [disk EXCEPT !["optout"] = disk["tmp"], !["tmp"] = gone] BY <2>1, <3>1
    <3>3. disk["tmp"] \in DiskFile BY <2>6, FileNames
    <3> QED BY <2>6, <3>1, <3>2, <3>3, FileNames
  <2>10. ASSUME NEW g \in Files PROVE Backed(g, disk[g].doc)' /\ (disk'[g].state # "whole" => disk'[g].doc = EmptyDoc(g))
    <3>1. PICK doc : doc = disk'[g].doc OBVIOUS
    <3>2. Backed(g, disk[g].doc)' = Backed(g, doc)' BY <3>1 DEF Backed, RegistryBacked, QueueBacked, SettingsBacked
    <3>3. CASE g = "tmp"
      <4>1. doc = EmptyDoc(g) BY <2>8, <2>9, <3>1, <3>3
      <4>2. Backed(g, doc)' BY <4>1, EmptyStays
      <4> QED BY <3>1, <3>2, <4>1, <4>2
    <3>4. CASE g = "optout"
      <4>1. doc = disk["tmp"].doc BY <2>9, <3>1, <3>4
      <4>2. Backed("tmp", doc) /\ (disk["tmp"].state # "whole" => doc = DefaultOptOut)
        BY <2>5, <2>7, <4>1, FileNames DEF DiskOK
      <4>3. Backed("tmp", doc)' BY <1>1, <4>2, BackedStays
      <4>4. Backed(g, doc)' BY <3>4, <4>3 DEF Backed
      <4> QED BY <2>7, <2>9, <3>1, <3>2, <3>4, <4>2, <4>4
    <3>5. CASE g \notin {"optout", "tmp"}
      <4>1. disk'[g] = disk[g] BY <2>9, <3>5
      <4>2. Backed(g, doc) /\ (disk[g].state # "whole" => disk[g].doc = EmptyDoc(g)) BY <2>5, <3>1, <4>1 DEF DiskOK
      <4>3. Backed(g, doc)' BY <1>1, <4>2, BackedStays
      <4> QED BY <3>2, <4>1, <4>2, <4>3
    <3> QED BY <3>3, <3>4, <3>5
  <2>11. DiskOK' BY <2>9, <2>10 DEF DiskOK
  <2>12. PICK changed \in SUBSET Files : changed = {"optout", "tmp"} BY FileNames
  <2>13. Become(p, m, changed, TRUE) BY <2>1, <2>2, <2>12
  <2>14. \A g \in Files \ changed : disk'[g] = disk[g] BY <2>9, <2>12
  <2> QED BY <1>1, <2>4, <2>11, <2>12, <2>13, <2>14, StepKeeps
<1> QED BY <1>3, <1>4

-----------------------------------------------------------------------------
(* The user, time, and every step.                                         *)

LEMMA AnswerKeeps == ASSUME DetectorInv, Answer PROVE DetectorInv'
<1>1. Grows BY SameWorld DEF Answer, clock
<1>2. PICK row \in Load("queue") :
        disk' = [disk EXCEPT !["queue"].doc = (@ \ {row}) \cup {[row EXCEPT !.answered = today]}]
  BY DEF Answer
<1>3. DiskOK BY DEF DetectorInv
<1>4. disk \in [Files -> DiskFile] /\ "queue" \in Files BY <1>3, FileNames DEF DiskOK
<1>5. PICK old : old = disk["queue"].doc OBVIOUS
<1>6. Load("queue") = old /\ QueueBacked(old) /\ old \in SUBSET NoteRow
  BY <1>3, <1>5, FileNames, LoadIsDoc, LoadedDocs
<1>7. PICK new : new = [row EXCEPT !.answered = today] OBVIOUS
<1>8. row \in NoteRow /\ Warranted(row) BY <1>6 DEF QueueBacked
<1>9. today \in Nat BY DetectorAssumption DEF DetectorInv, WorldOK, Days
<1>10. /\ new \in NoteRow /\ new.project = row.project /\ new.type = row.type /\ new.refs = row.refs
       /\ new.created = row.created
  BY <1>7, <1>8, <1>9 DEF NoteRow
<1>11. Warranted(new) BY <1>8, <1>10 DEF Warranted
<1>12. PICK doc : doc = (old \ {row}) \cup {new} OBVIOUS
<1>13. QueueBacked(doc) BY <1>6, <1>10, <1>11, <1>12 DEF QueueBacked
<1>14. PICK file : file = [disk["queue"] EXCEPT !.doc = doc] OBVIOUS
<1>15. doc \in Docs
  <2>1. Backed("queue", doc) BY <1>13 DEF Backed
  <2> QED BY <2>1, BackedIsDoc
<1>16. file \in DiskFile /\ file.doc = doc /\ file.state = disk["queue"].state
  <2>1. disk["queue"] \in DiskFile BY <1>4
  <2> QED BY <1>14, <1>15, <2>1 DEF DiskFile
<1>17. disk' = [disk EXCEPT !["queue"] = file] BY <1>2, <1>5, <1>7, <1>12, <1>14, <1>4
<1>18. file.state = "whole"
  <2>1. old # EmptyDoc("queue") BY <1>6 DEF EmptyDoc
  <2> QED BY <1>3, <1>4, <1>5, <1>16, <2>1 DEF DiskOK
<1>19. DiskOK' /\ \A g \in Files \ {"queue"} : disk'[g] = disk[g]
  <2>1. Backed("queue", doc) BY <1>13 DEF Backed
  <2>2. Backed("queue", doc)' BY <1>1, <2>1, BackedStays
  <2>3. Backed("queue", file.doc)' BY <1>16, <2>2
  <2> QED BY <1>1, <1>3, <1>4, <1>16, <1>17, <1>18, <2>3, DiskChanges
<1>20. proc' = [p \in Procs |-> [proc[p] EXCEPT !.disturbed = @ \/ "queue" \in proc[p].holds]] BY DEF Answer
<1>21. ASSUME NEW q \in Procs PROVE proc'[q] \in Command /\ ProcHolds(proc[q])'
  <2>1. PICK l \in Command : l = proc[q] BY AtPlace
  <2>2. PICK m : m = [l EXCEPT !.disturbed = l.disturbed \/ {"queue"} \cap l.holds # {}, !.fd = l.fd] OBVIOUS
  <2>3. ("queue" \in l.holds) <=> ({"queue"} \cap l.holds # {}) OBVIOUS
  <2>4. [l EXCEPT !.disturbed = @ \/ "queue" \in l.holds] = m
    <3>1. PICK b \in BOOLEAN : b <=> l.disturbed \/ "queue" \in l.holds OBVIOUS
    <3>2. (l.disturbed \/ "queue" \in l.holds) = b /\ (l.disturbed \/ {"queue"} \cap l.holds # {}) = b BY <2>3, <3>1
    <3>3. m = [l EXCEPT !.disturbed = b, !.fd = l.fd] BY <2>2, <3>2
    <3>4. [l EXCEPT !.disturbed = @ \/ "queue" \in l.holds] = [l EXCEPT !.disturbed = b] BY <3>2 DEF Command
    <3> QED BY <3>3, <3>4 DEF Command
  <2>5. proc'[q] = m BY <1>20, <2>1, <2>4
  <2>6. ProcHolds(l) BY <2>1 DEF DetectorInv
  <2>7. m \in Command /\ ProcHolds(m)'
    <3>1. PICK changed \in SUBSET Files : changed = {"queue"} BY <1>4
    <3>2. \A g \in Files \ changed : disk'[g] = disk[g] BY <1>19, <3>1
    <3>3. m = [l EXCEPT !.disturbed = l.disturbed \/ changed \cap l.holds # {}, !.fd = l.fd] BY <2>2, <3>1
    <3>4. PICK renamed \in BOOLEAN : renamed = FALSE OBVIOUS
    <3>5. PICK fd : fd = l.fd OBVIOUS
    <3> QED BY <1>1, <2>6, <3>1, <3>2, <3>3, <3>4, <3>5, OthersStay
  <2>8. ProcHolds(proc[q])' = ProcHolds(m)'
    BY <2>5 DEF ProcHolds, CommandHolds, Undisturbed, Saving, Running, Cooled
  <2> QED BY <2>5, <2>7, <2>8
<1>22. \A q \in Procs : ProcHolds(proc[q])' BY <1>21
<1>23. proc' \in [Procs -> Command] BY <1>20, <1>21
<1>24. WorldOK' BY <1>1 DEF Grows
<1> QED BY <1>19, <1>22, <1>23, <1>24 DEF DetectorInv

LEMMA EditKeeps == ASSUME DetectorInv, Edit PROVE DetectorInv'
<1>1. WorldOK /\ UNCHANGED <<disk, said, proc, clock, commands, deaths>> BY DEF DetectorInv, Edit
<1>2. PICK j \in Projects :
        \/ mentioned' = [mentioned EXCEPT ![j] = @ \cup {today}] /\ UNCHANGED <<touched, done>>
        \/ touched' = [touched EXCEPT ![j] = @ \cup {today}] /\ UNCHANGED <<mentioned, done>>
        \/ done' = [done EXCEPT ![j] = @ \cup {today}] /\ UNCHANGED <<mentioned, touched>>
  BY DEF Edit
<1>3. today \in Days /\ mentioned \in [Projects -> SUBSET Days] /\ touched \in [Projects -> SUBSET Days]
      /\ done \in [Projects -> SUBSET Days]
  BY <1>1 DEF WorldOK
<1>4. WorldOK' BY <1>1, <1>2, <1>3 DEF WorldOK, said, clock
<1>5. today <= today' /\ approved \subseteq approved' /\ rebutted \subseteq rebutted'
  BY <1>1, <1>3, DetectorAssumption DEF said, clock, Days
<1>6. \A k \in Projects : /\ mentioned[k] \subseteq mentioned'[k] /\ touched'[k] \subseteq touched[k] \cup {today}
                          /\ done'[k] \subseteq done[k] \cup {today}
  BY <1>2, <1>3
<1>7. Grows BY <1>1, <1>4, <1>5, <1>6 DEF Grows
<1> QED BY <1>1, <1>7, StutterKeeps

LEMMA TickKeeps == ASSUME DetectorInv, Tick PROVE DetectorInv'
<1>1. WorldOK /\ UNCHANGED <<disk, vault, said, proc, bounds>> /\ today < LastDay /\ today' = today + 1 BY DEF DetectorInv, Tick
<1>2. Grows BY <1>1, DetectorAssumption DEF Grows, WorldOK, vault, said, Days
<1> QED BY <1>1, <1>2, StutterKeeps

LEMMA DieKeeps == ASSUME DetectorInv, NEW p \in Procs, Die(p) PROVE DetectorInv'
<1>1. Grows /\ disk' = disk /\ Goto(p, Idle) BY SameWorld DEF Die, clock
<1> QED BY <1>1, IdleKeeps

LEMMA DetectorStutters == ASSUME DetectorInv, UNCHANGED vars PROVE DetectorInv'
<1>1. Grows /\ disk' = disk /\ proc' = proc BY SameWorld DEF vars, vault, said
<1> QED BY <1>1, StutterKeeps

LEMMA DetectorNext == ASSUME DetectorInv, [Next]_vars PROVE DetectorInv'
<1>1. CASE Tick BY <1>1, TickKeeps
<1>2. CASE Edit BY <1>2, EditKeeps
<1>3. CASE Answer BY <1>3, AnswerKeeps
<1>4. ASSUME NEW p \in Procs, Step(p) PROVE DetectorInv'
  BY <1>4, TellKeeps, SetStatusKeeps, StartKeeps, SweepKeeps, SettingsKeeps, LoadProjectsKeeps, DiscoverKeeps, ScanKeeps,
     JudgeKeeps, AppendNotesKeeps, OpenKeeps, WriteKeeps, ReplaceKeeps, DieKeeps
  DEF Step
<1>5. CASE UNCHANGED vars BY <1>5, DetectorStutters
<1> QED BY <1>1, <1>2, <1>3, <1>4, <1>5 DEF Next

-----------------------------------------------------------------------------
(* The start.                                                              *)

LEMMA IdleStarts == ASSUME WorldOK PROVE ProcHolds(Idle)
<1>1. Idle.pc = "idle" /\ Idle.then = "idle" /\ Idle.at = 0 BY DEF Idle
<1>2. Idle.at <= today BY <1>1, DetectorAssumption DEF WorldOK, Days
<1>3. CommandHolds(Idle) BY <1>1, <1>2 DEF CommandHolds, Saving, Running
<1>4. Undisturbed(Idle) BY <1>1 DEF Undisturbed, Saving
<1> QED BY <1>3, <1>4 DEF ProcHolds

LEMMA DetectorInit == ASSUME Init PROVE DetectorInv
<1> USE DetectorAssumption
<1>1. /\ mentioned \in [Projects -> Notebooks] /\ touched = [j \in Projects |-> {}] /\ done = touched
      /\ proc = [p \in Procs |-> Idle] /\ today = 0
  BY DEF Init
<1> DEFINE registry == [j \in Projects |-> [status |-> "confirmed", expires |-> TtlDays]]
           rebuts == [type : AnsweredTypes, note : NoteIds, day : {0}]
           optout == [DefaultOptOut EXCEPT !.throttled = AnsweredTypes, !.rebuts = rebuts]
           note(j) == Note(j, TypeFor(Cardinality(mentioned[j])), mentioned[j], 0)
           queue == {note(j) : j \in Projects}
           none == [f \in Files |-> Missing(f)]
<1>2. \/ disk = none /\ approved = {} /\ rebutted = {}
      \/ disk = [none EXCEPT !["registry"] = Whole(registry)] /\ approved = Projects /\ rebutted = {}
      \/ /\ disk = [none EXCEPT !["registry"] = Whole(registry), !["optout"] = Whole(optout), !["queue"] = Whole(queue)]
         /\ approved = Projects /\ rebutted = AnsweredTypes \X NoteIds
  BY DEF Init
<1>3. \A j \in Projects : mentioned[j] \subseteq Days /\ Cardinality(mentioned[j]) >= TriggerThreshold BY <1>1 DEF Days
<1>4. mentioned \in [Projects -> SUBSET Days]
  <2>1. mentioned = [j \in Projects |-> mentioned[j]] BY <1>1
  <2> QED BY <1>3, <2>1
<1>5. touched \in [Projects -> SUBSET Days] /\ done \in [Projects -> SUBSET Days] BY <1>1
<1>6. today \in Days BY <1>1 DEF Days
<1>7. approved \subseteq Projects /\ rebutted \subseteq AnsweredTypes \X NoteIds BY <1>2
<1>8. WorldOK BY <1>4, <1>5, <1>6, <1>7 DEF WorldOK
<1>9. ASSUME approved = Projects PROVE Backed("registry", registry)
  <2>1. registry \in [Projects -> Tracked] BY DEF Tracked
  <2>2. registry \in RegDocs BY <2>1, RegistryDocs
  <2> QED BY <1>9, <2>2 DEF Backed, RegistryBacked
<1>10. ASSUME approved = Projects PROVE Backed("queue", queue)
  <2>1. ASSUME NEW n \in queue PROVE n \in NoteRow /\ Warranted(n)
    <3>1. PICK j \in Projects : n = note(j) OBVIOUS
    <3>2. PICK type : type = TypeFor(Cardinality(mentioned[j])) OBVIOUS
    <3>3. type \in NoteTypes BY <3>2 DEF TypeFor, NoteTypes
    <3>4. n = Note(j, type, mentioned[j], 0) BY <3>1, <3>2
    <3>5. /\ n.project = j /\ n.type = type /\ n.refs = mentioned[j] /\ n.created = 0
          /\ n \in NoteRow
      BY <1>3, <3>3, <3>4, NoteIs
    <3>6. \A d \in mentioned[j] : d >= 0 - WindowDays
      <4>1. \A d \in mentioned[j] : d \in Nat BY <1>3 DEF Days
      <4> QED BY <4>1
    <3> QED BY <1>1, <1>3, <1>10, <3>2, <3>5, <3>6 DEF Warranted
  <2> HIDE DEF queue
  <2> QED BY <2>1 DEF Backed, QueueBacked
<1>11. ASSUME rebutted = AnsweredTypes \X NoteIds PROVE Backed("optout", optout)
  <2>1. rebuts \in SUBSET DayRebut BY DEF DayRebut
  <2>2. \A r \in rebuts : <<r.type, r.note>> \in rebutted BY <1>11
  <2> HIDE DEF rebuts
  <2>3. optout \in OptDocs /\ optout.rebuts = rebuts /\ optout.throttled = AnsweredTypes
    BY <2>1, NothingIsADocument DEF OptDocs
  <2>4. ASSUME NEW t \in AnsweredTypes PROVE SlowedBy(t)
    <3>1. {n \in NoteIds : <<t, n>> \in rebutted} = NoteIds BY <1>11
    <3> QED BY <3>1 DEF SlowedBy
  <2> HIDE DEF optout
  <2> QED BY <2>2, <2>3, <2>4 DEF Backed, SettingsBacked
<1> HIDE DEF registry, queue, optout
<1>12. \A f \in Files : none[f] = Missing(f) OBVIOUS
<1>13. DOMAIN none = Files OBVIOUS
<1> HIDE DEF none
<1>14. ASSUME NEW f \in Files
       PROVE  disk[f] = Missing(f) \/ \E doc : Backed(f, doc) /\ disk[f] = Whole(doc)
  BY <1>2, <1>9, <1>10, <1>11, <1>12, <1>13, FileNames
<1>15. ASSUME NEW f \in Files
       PROVE disk[f] \in DiskFile /\ Backed(f, disk[f].doc) /\ (disk[f].state # "whole" => disk[f].doc = EmptyDoc(f))
  <2>1. CASE disk[f] = Missing(f) BY <2>1, EmptyIsBacked, FileKinds
  <2>2. CASE \E doc : Backed(f, doc) /\ disk[f] = Whole(doc)
    <3>1. PICK doc : Backed(f, doc) /\ disk[f] = Whole(doc) BY <2>2
    <3> QED BY <3>1, FileKinds
  <2> QED BY <1>14, <2>1, <2>2
<1>16. DOMAIN disk = Files /\ disk = [f \in Files |-> disk[f]] BY <1>2, <1>13 DEF none
<1>17. DiskOK
  <2>1. disk \in [Files -> DiskFile] BY <1>15, <1>16
  <2> QED BY <1>15, <2>1 DEF DiskOK
<1>18. proc \in [Procs -> Command] /\ \A p \in Procs : ProcHolds(proc[p]) BY <1>1, <1>8, IdleHolds, IdleStarts
<1> QED BY <1>8, <1>17, <1>18 DEF DetectorInv

-----------------------------------------------------------------------------
(* What follows.                                                           *)

\* Every document on the disk and every command is as the invariant says.
THEOREM DetectorInvariant == Spec => []DetectorInv
<1>1. Init => DetectorInv BY DetectorInit
<1>2. DetectorInv /\ [Next]_vars => DetectorInv' BY DetectorNext
<1> QED BY <1>1, <1>2, PTL DEF Spec

\* Queued side notes rest on an approved project, on days that mention it and on no
\* progress, and only the user approves, rebuts and slows down.
THEOREM DetectorIsWarranted == Spec => []DetectorHolds
<1>1. DetectorInv => DetectorHolds
  <2> SUFFICES ASSUME DetectorInv PROVE DetectorHolds OBVIOUS
  <2>1. RegistryBacked(Load("registry")) /\ QueueBacked(Load("queue")) /\ SettingsBacked(Load("optout"))
    BY LoadedDocs DEF DetectorInv
  <2>2. OnlyTheUserDecides BY <2>1 DEF OnlyTheUserDecides, RegistryBacked, SettingsBacked, SlowedBy
  <2>3. ASSUME NEW note \in Load("queue")
        PROVE  LET start == note.created - WindowDays IN
               /\ note.project \in approved
               /\ note.refs \subseteq mentioned[note.project] /\ \A d \in note.refs : d >= start
               /\ Cardinality(note.refs) >= TriggerThreshold
               /\ Cardinality(note.refs) >= ActionThreshold <=> note.type \in {"action_suggestion", "fact"}
               /\ Cardinality(note.refs) >= FactThreshold <=> note.type = "fact"
               /\ \A d \in touched[note.project] \cup done[note.project] : d < start \/ d >= note.created
    <3>1. note \in NoteRow /\ Warranted(note) BY <2>1 DEF QueueBacked
    <3>2. Cardinality(note.refs) \in Nat
      <4>1. note.refs \subseteq 0..LastDay BY <3>1 DEF NoteRow, Days
      <4>2. IsFiniteSet(0..LastDay) BY DetectorAssumption, FS_Interval
      <4> QED BY <4>1, <4>2, FS_Subset, FS_CardinalityType
    <3>3. note.type = TypeFor(Cardinality(note.refs)) BY <3>1 DEF Warranted
    <3>4. /\ Cardinality(note.refs) >= ActionThreshold <=> note.type \in {"action_suggestion", "fact"}
          /\ Cardinality(note.refs) >= FactThreshold <=> note.type = "fact"
      BY <3>2, <3>3, DetectorAssumption DEF TypeFor
    <3> QED BY <3>1, <3>4 DEF Warranted
  <2> QED BY <2>2, <2>3 DEF DetectorHolds, NotesAreWarranted
<1> QED BY <1>1, DetectorInvariant, PTL

\* Only p itself moves p.
LEMMA OwnMove ==
    ASSUME DetectorInv, [Next]_vars, NEW p \in Procs, proc'[p].pc # proc[p].pc PROVE Step(p)
<1>1. ASSUME NEW q \in Procs, NEW new, NEW changed, NEW renamed, Become(q, new, changed, renamed) PROVE q = p
  <2>1. PICK l \in Command : l = proc[p] BY AtPlace
  <2>2. ASSUME q # p PROVE FALSE
    <3>1. PICK b, fd : proc'[p] = [l EXCEPT !.disturbed = b, !.fd = fd] BY <1>1, <2>1, <2>2 DEF Become
    <3>2. proc'[p].pc = l.pc BY <3>1 DEF Command
    <3> QED BY <2>1, <3>2
  <2> QED BY <2>2
<1>2. CASE Tick \/ Edit \/ UNCHANGED vars BY <1>2 DEF Tick, Edit, vars
<1>3. CASE Answer
  <2>1. PICK l \in Command : l = proc[p] BY AtPlace
  <2>2. PICK b : proc'[p] = [l EXCEPT !.disturbed = b] BY <1>3, <2>1 DEF Answer
  <2> QED BY <2>1, <2>2 DEF Command
<1>4. ASSUME NEW q \in Procs, Step(q) PROVE Step(p)
  <2>1. \E new, changed, renamed : Become(q, new, changed, renamed)
    <3>1. CASE Tell(q) BY <3>1 DEF Tell, Goto
    <3>2. CASE SetStatus(q) BY <3>2 DEF SetStatus, Goto
    <3>3. CASE Start(q) BY <3>3 DEF Start, Goto
    <3>4. CASE Sweep(q) BY <3>4 DEF Sweep, Goto
    <3>5. CASE Settings(q) BY <3>5 DEF Settings, Goto
    <3>6. CASE LoadProjects(q) BY <3>6 DEF LoadProjects, Goto
    <3>7. CASE Discover(q) BY <3>7 DEF Discover, Goto
    <3>8. CASE Scan(q) BY <3>8 DEF Scan, Goto
    <3>9. CASE Judge(q) BY <3>9 DEF Judge, Goto
    <3>10. CASE AppendNotes(q) BY <3>10 DEF AppendNotes, Goto
    <3>11. CASE Open(q) BY <3>11 DEF Open
    <3>12. CASE Write(q) BY <3>12 DEF Write, Goto
    <3>13. CASE Replace(q) BY <3>13 DEF Replace, Goto
    <3>14. CASE Die(q) BY <3>14 DEF Die, Goto
    <3> QED BY <1>4, <3>1, <3>2, <3>3, <3>4, <3>5, <3>6, <3>7, <3>8, <3>9, <3>10, <3>11, <3>12, <3>13, <3>14 DEF Step
  <2> QED BY <1>1, <1>4, <2>1
<1> QED BY <1>2, <1>3, <1>4 DEF Next

\* An undisturbed command takes nothing from the user and leaves its file whole.
THEOREM SavesAreKept == Spec => SavesKeepDecisions
<1> DEFINE Kept(p) ==
        /\ proc[p].pc = "open" /\ proc[p].file = "registry" =>
             KeepsProjects(Load("registry"), proc[p].doc, proc[p])
        /\ proc[p].pc = "open" /\ proc[p].file = "queue" => KeepsNotes(Load("queue"), proc[p].doc)
        /\ proc[p].pc = "write" /\ disk' # disk => disk'[proc[p].file] = Whole(proc[p].doc)
        /\ proc[p].pc = "replace" /\ disk' # disk =>
             /\ disk'["optout"].state = "whole"
             /\ KeepsSettings(Load("optout"), disk'["optout"].doc, proc[p])
<1>1. ASSUME DetectorInv, [Next]_vars, NEW p \in Procs, proc[p].pc # proc'[p].pc, ~proc[p].disturbed PROVE Kept(p)
  <2>1. PICK l \in Command : l = proc[p] BY <1>1, AtPlace
  <2>2. Undisturbed(l) BY <1>1, <2>1, AtPlace
  <2>3. Step(p) BY <1>1, OwnMove
  <2>4. ASSUME l.pc = "write", disk' # disk PROVE disk'[l.file] = Whole(l.doc)
    <3>1. Write(p)
      BY <2>1, <2>3, <2>4 DEF Step, Tell, SetStatus, Start, Sweep, Settings, LoadProjects, Discover, Scan, Judge, AppendNotes,
                              Open, Replace, Die
    <3>2. l.fd = l.file /\ disk[l.file].state = "partial" BY <2>2, <2>4 DEF Undisturbed
    <3>3. Written(l.fd, l.doc) = {Whole(l.doc)} BY <3>2 DEF Written
    <3>4. disk' = [disk EXCEPT ![l.file] = Whole(l.doc)] BY <2>1, <2>4, <3>1, <3>2, <3>3 DEF Write
    <3>5. l.file \in Files /\ disk \in [Files -> DiskFile] BY <1>1 DEF Command, Files, DetectorInv, DiskOK
    <3> QED BY <3>4, <3>5
  <2>5. ASSUME l.pc = "replace", disk' # disk
        PROVE  disk'["optout"].state = "whole" /\ KeepsSettings(Load("optout"), disk'["optout"].doc, l)
    <3>1. Replace(p)
      BY <2>1, <2>3, <2>5 DEF Step, Tell, SetStatus, Start, Sweep, Settings, LoadProjects, Discover, Scan, Judge, AppendNotes,
                              Open, Write, Die
    <3>2. disk["tmp"] = Whole(l.doc) BY <2>2, <2>5 DEF Undisturbed
    <3>3. l.file = "tmp" BY <1>1, <2>1, <2>5, AtPlace DEF CommandHolds
    <3>4. KeepsSettings(Load("optout"), l.doc, l) BY <2>2, <2>5, <3>3 DEF Undisturbed, Saving
    <3>5. disk' = [disk EXCEPT !["optout"] = disk["tmp"], !["tmp"] = Missing("tmp")] BY <2>5, <3>1 DEF Replace
    <3>6. disk \in [Files -> DiskFile] BY <1>1 DEF DetectorInv, DiskOK
    <3>7. disk'["optout"] = Whole(l.doc) BY <3>2, <3>5, <3>6, FileNames
    <3> QED BY <3>4, <3>7 DEF Whole
  <2>6. l.pc = "open" /\ l.file = "registry" => KeepsProjects(Load("registry"), l.doc, l) BY <2>2 DEF Undisturbed
  <2>7. l.pc = "open" /\ l.file = "queue" => KeepsNotes(Load("queue"), l.doc) BY <2>2 DEF Undisturbed
  <2> QED BY <2>1, <2>4, <2>5, <2>6, <2>7
<1>2. DetectorInv /\ [Next]_vars => [\A p \in Procs : proc[p].pc # proc'[p].pc /\ ~proc[p].disturbed => Kept(p)]_vars
  <2> HIDE DEF Kept
  <2> QED BY <1>1
<1> QED BY <1>2, DetectorInvariant, PTL DEF Spec, SavesKeepDecisions

\* An undisturbed run queues no second note within the cooldown.
THEOREM CooldownIsKept == Spec => CooldownHolds
<1> DEFINE Spaced(p) ==
        \A note \in proc[p].fresh, row \in proc[p].doc :
            ~SameId(note, row) /\ row.project = note.project /\ row.type = note.type =>
                \/ row.created > note.created
                \/ note.created - row.created > CooldownOf(proc[p].optout, note.type)
<1>1. ASSUME DetectorInv, NEW p \in Procs, proc[p].pc = "open", proc[p].file = "queue", ~proc[p].disturbed PROVE Spaced(p)
  BY <1>1, AtPlace DEF Undisturbed, Cooled
<1>2. DetectorInv /\ [Next]_vars =>
        [\A p \in Procs : proc[p].pc = "open" /\ proc[p].file = "queue" /\ proc[p].pc # proc'[p].pc /\ ~proc[p].disturbed
            => Spaced(p)]_vars
  <2> HIDE DEF Spaced
  <2> QED BY <1>1
<1> QED BY <1>2, DetectorInvariant, PTL DEF Spec, CooldownHolds

-----------------------------------------------------------------------------
(* NotebookOps: the operations and their calls.                            *)

\* What the operations of a shape call.
LEMMA ShapesOfCalls ==
    /\ DOMAIN MediaCalls = {"audio", "video", "cinematic_video"}
    /\ \A op \in DOMAIN MediaCalls : MediaCalls[op] = <<"make", "wait", "download">>
    /\ DOMAIN PaperCalls = {"report", "study_guide"}
    /\ \A op \in DOMAIN PaperCalls : PaperCalls[op] = <<"make", "wait", "download">>
    /\ DOMAIN DrillCalls = {"quiz", "flashcards"}
    /\ \A op \in DOMAIN DrillCalls : DrillCalls[op] = <<"make", "wait", "download">>
    /\ DOMAIN BoardCalls = {"infographic", "slide_deck", "data_table"}
    /\ \A op \in DOMAIN BoardCalls : BoardCalls[op] = <<"make", "wait", "download">>
    /\ DOMAIN MindMapCalls = {"mind_map"}
    /\ \A op \in DOMAIN MindMapCalls : MindMapCalls[op] = <<"chart", "download">>
    /\ DOMAIN FetchCalls = {"fetch"}
    /\ \A op \in DOMAIN FetchCalls : FetchCalls[op] = <<"wait", "download">>
    /\ DOMAIN SourceCalls = {"add_file", "add_url", "add_drive", "add_text"}
    /\ \A op \in DOMAIN SourceCalls : SourceCalls[op] = <<"add">>
    /\ DOMAIN NoteCalls = {"create_note", "update_note"}
    /\ \A op \in DOMAIN NoteCalls : NoteCalls[op] = IF op = "create_note" THEN <<"note">> ELSE <<"update", "get">>
    /\ DOMAIN ChatCalls = {"ask_note"}
    /\ \A op \in DOMAIN ChatCalls : ChatCalls[op] = <<"ask", "note">>
    /\ DOMAIN ReviseCalls = {"revise_slide"}
    /\ \A op \in DOMAIN ReviseCalls : ReviseCalls[op] = <<"revise", "wait", "get">>
    /\ DOMAIN ShareCalls = {"share", "share_at_level"}
    /\ \A op \in DOMAIN ShareCalls : ShareCalls[op] = IF op = "share" THEN <<"add_user">> ELSE <<"add_user", "level">>
    /\ DOMAIN PublishCalls = {"publish", "withdraw"}
    /\ \A op \in DOMAIN PublishCalls : PublishCalls[op] = <<"public", "level">>
BY DEF MediaCalls, PaperCalls, DrillCalls, BoardCalls, MindMapCalls, FetchCalls, SourceCalls, NoteCalls, ChatCalls, ReviseCalls, ShareCalls, PublishCalls, Tells

\* Every operation is of one of the shapes.
LEMMA CallsOf ==
    ASSUME NEW op \in DOMAIN Calls
    PROVE  \/ op \in DOMAIN MediaCalls /\ Calls[op] = MediaCalls[op]
           \/ op \in DOMAIN PaperCalls /\ Calls[op] = PaperCalls[op]
           \/ op \in DOMAIN DrillCalls /\ Calls[op] = DrillCalls[op]
           \/ op \in DOMAIN BoardCalls /\ Calls[op] = BoardCalls[op]
           \/ op \in DOMAIN MindMapCalls /\ Calls[op] = MindMapCalls[op]
           \/ op \in DOMAIN FetchCalls /\ Calls[op] = FetchCalls[op]
           \/ op \in DOMAIN SourceCalls /\ Calls[op] = SourceCalls[op]
           \/ op \in DOMAIN NoteCalls /\ Calls[op] = NoteCalls[op]
           \/ op \in DOMAIN ChatCalls /\ Calls[op] = ChatCalls[op]
           \/ op \in DOMAIN ReviseCalls /\ Calls[op] = ReviseCalls[op]
           \/ op \in DOMAIN ShareCalls /\ Calls[op] = ShareCalls[op]
           \/ op \in DOMAIN PublishCalls /\ Calls[op] = PublishCalls[op]
<1>1. CASE op \in DOMAIN MediaCalls
  BY ShapesOfCalls, <1>1 DEF Calls
<1>2. CASE op \in DOMAIN PaperCalls
  BY ShapesOfCalls, <1>2 DEF Calls
<1>3. CASE op \in DOMAIN DrillCalls
  BY ShapesOfCalls, <1>3 DEF Calls
<1>4. CASE op \in DOMAIN BoardCalls
  BY ShapesOfCalls, <1>4 DEF Calls
<1>5. CASE op \in DOMAIN MindMapCalls
  BY ShapesOfCalls, <1>5 DEF Calls
<1>6. CASE op \in DOMAIN FetchCalls
  BY ShapesOfCalls, <1>6 DEF Calls
<1>7. CASE op \in DOMAIN SourceCalls
  BY ShapesOfCalls, <1>7 DEF Calls
<1>8. CASE op \in DOMAIN NoteCalls
  BY ShapesOfCalls, <1>8 DEF Calls
<1>9. CASE op \in DOMAIN ChatCalls
  BY ShapesOfCalls, <1>9 DEF Calls
<1>10. CASE op \in DOMAIN ReviseCalls
  BY ShapesOfCalls, <1>10 DEF Calls
<1>11. CASE op \in DOMAIN ShareCalls
  BY ShapesOfCalls, <1>11 DEF Calls
<1>12. CASE op \in DOMAIN PublishCalls
  BY ShapesOfCalls, <1>12 DEF Calls
<1>a. op \in DOMAIN Calls
  OBVIOUS
<1> QED
  BY <1>a, <1>1, <1>2, <1>3, <1>4, <1>5, <1>6, <1>7, <1>8, <1>9, <1>10, <1>11, <1>12 DEF Calls

-----------------------------------------------------------------------------
OpNames == DOMAIN Calls \cup {"none"}
ItemStates == {"pending", "completed", "failed", "ready", "processing"}
ItemRow == [by : Nat, acct : PoolAccounts \cup {0}, state : ItemStates]
Doing ==
    [at : {"idle", "pick", "call"}, op : OpNames, noticed : {"never", "first", "midway", "last"}, budget : Nat, call : Nat,
     level : 0..2, acct : PoolAccounts \cup {0}, tried : SUBSET PoolAccounts, pos : Nat, item : Nat,
     result : {"none", "unavailable", "error", "ok"}]

OpsTypeOK ==
    /\ items \in Seq(ItemRow) /\ items # <<>>
    /\ files \in [OpCallers -> Nat]
    /\ sharing \in [invited : BOOLEAN, public : BOOLEAN, level : 0..2]
    /\ doing \in [OpCallers -> Doing]
    /\ opsPast \in [begun : Nat, unleveled : BOOLEAN]

\* The calls that l has behind it: one that left an item, the download.
HasMade(l) == \E k \in 1..(l.pos - 1) : Calls[l.op][k] \in Makers
HasFetched(l) == \E k \in 1..(l.pos - 1) : Calls[l.op][k] = "download"

\* A run that has its item, or a result.
Bound(l) == l.at = "call" \/ l.result = "ok"

\* What the locals of a run say of the items: while it goes on, all that it has made is on
\* accounts that it tried, and none on the present one until it makes one there.
RunHolds(l) ==
    /\ l.call <= opsPast.begun
    /\ l.at # "idle" => l.result = "none" /\ l.level # 0
    /\ l.at # "idle" \/ l.result = "ok" => l.op \in DOMAIN Calls /\ l.call > 0
    /\ l.at # "idle" => \A i \in DOMAIN items : items[i].by = l.call => items[i].acct \in l.tried
    /\ l.at = "call" => l.acct \in l.tried /\ l.pos \in 1..(Len(Calls[l.op]) + 1)
    /\ l.at = "call" /\ ~HasMade(l) =>
           \A i \in DOMAIN items : ~(items[i].by = l.call /\ items[i].acct = l.acct)
    /\ l.at = "call" /\ l.op \in Sharing \ {"share"} /\ l.pos > 2 => sharing.level # 0
    /\ l.at = "idle" /\ l.result = "ok" => l.pos = Len(Calls[l.op]) + 1

\* Its item, which is its own from the call that made it, and in the file from the download.
ItemHolds(l, file) ==
    Bound(l) =>
        /\ l.op \in Old \/ HasMade(l) => l.item \in DOMAIN items
        /\ HasMade(l) =>
               /\ items[l.item].by = l.call /\ items[l.item].acct = l.acct
               /\ l.op \in DOMAIN SourceCalls => items[l.item].state = "ready"
        /\ HasFetched(l) => file = l.item /\ items[l.item].state = "completed"

\* Items of different runs, or of one run on different accounts.
OneEach ==
    /\ \A i \in DOMAIN items : items[i].by <= opsPast.begun
    /\ \A i, j \in DOMAIN items :
           items[i].by = items[j].by /\ items[i].by > 0 /\ items[i].acct = items[j].acct => i = j

\* Who was let in without a level was let in by a sharing operation that is under way, or on
\* record.
LevelKept ==
    (sharing.public \/ sharing.invited) /\ sharing.level = 0 =>
        opsPast.unleveled \/ \E c \in OpCallers : doing[c].op \in Sharing /\ doing[c].at = "call"

\* The inductive invariant.
OpsInv ==
    /\ OpsTypeOK /\ OneEach /\ LevelKept
    /\ \A c, d \in OpCallers : doing[c].call = doing[d].call /\ doing[c].call > 0 => c = d
    /\ \A c \in OpCallers : RunHolds(doing[c]) /\ ItemHolds(doing[c], files[c])

-----------------------------------------------------------------------------
\* The shapes of the operations, call by call.
Shapes(op, s) ==
    \/ /\ op \in {"audio", "video", "cinematic_video", "report", "study_guide", "quiz", "flashcards", "infographic",
                  "slide_deck", "data_table"}
       /\ Len(s) = 3 /\ s[1] = "make" /\ s[2] = "wait" /\ s[3] = "download"
    \/ op = "mind_map" /\ Len(s) = 2 /\ s[1] = "chart" /\ s[2] = "download"
    \/ op = "fetch" /\ Len(s) = 2 /\ s[1] = "wait" /\ s[2] = "download"
    \/ op \in {"add_file", "add_url", "add_drive", "add_text"} /\ Len(s) = 1 /\ s[1] = "add"
    \/ op = "create_note" /\ Len(s) = 1 /\ s[1] = "note"
    \/ op = "update_note" /\ Len(s) = 2 /\ s[1] = "update" /\ s[2] = "get"
    \/ op = "ask_note" /\ Len(s) = 2 /\ s[1] = "ask" /\ s[2] = "note"
    \/ op = "revise_slide" /\ Len(s) = 3 /\ s[1] = "revise" /\ s[2] = "wait" /\ s[3] = "get"
    \/ op = "share" /\ Len(s) = 1 /\ s[1] = "add_user"
    \/ op = "share_at_level" /\ Len(s) = 2 /\ s[1] = "add_user" /\ s[2] = "level"
    \/ op \in {"publish", "withdraw"} /\ Len(s) = 2 /\ s[1] = "public" /\ s[2] = "level"

\* So each operation makes the calls of its shape.
LEMMA CallShapes ==
    ASSUME NEW op \in DOMAIN Calls
    PROVE  Shapes(op, Calls[op])
<1>1. CASE op \in DOMAIN MediaCalls /\ Calls[op] = MediaCalls[op]
  <2>1. op \in {"audio", "video", "cinematic_video"}
    BY <1>1, ShapesOfCalls
  <2>2. Calls[op] = <<"make", "wait", "download">>
    BY <1>1, ShapesOfCalls
  <2> QED
    BY <2>1, <2>2 DEF Shapes
<1>2. CASE op \in DOMAIN PaperCalls /\ Calls[op] = PaperCalls[op]
  <2>1. op \in {"report", "study_guide"}
    BY <1>2, ShapesOfCalls
  <2>2. Calls[op] = <<"make", "wait", "download">>
    BY <1>2, ShapesOfCalls
  <2> QED
    BY <2>1, <2>2 DEF Shapes
<1>3. CASE op \in DOMAIN DrillCalls /\ Calls[op] = DrillCalls[op]
  <2>1. op \in {"quiz", "flashcards"}
    BY <1>3, ShapesOfCalls
  <2>2. Calls[op] = <<"make", "wait", "download">>
    BY <1>3, ShapesOfCalls
  <2> QED
    BY <2>1, <2>2 DEF Shapes
<1>4. CASE op \in DOMAIN BoardCalls /\ Calls[op] = BoardCalls[op]
  <2>1. op \in {"infographic", "slide_deck", "data_table"}
    BY <1>4, ShapesOfCalls
  <2>2. Calls[op] = <<"make", "wait", "download">>
    BY <1>4, ShapesOfCalls
  <2> QED
    BY <2>1, <2>2 DEF Shapes
<1>5. CASE op \in DOMAIN MindMapCalls /\ Calls[op] = MindMapCalls[op]
  <2>1. op \in {"mind_map"}
    BY <1>5, ShapesOfCalls
  <2>2. Calls[op] = <<"chart", "download">>
    BY <1>5, ShapesOfCalls
  <2> QED
    BY <2>1, <2>2 DEF Shapes
<1>6. CASE op \in DOMAIN FetchCalls /\ Calls[op] = FetchCalls[op]
  <2>1. op \in {"fetch"}
    BY <1>6, ShapesOfCalls
  <2>2. Calls[op] = <<"wait", "download">>
    BY <1>6, ShapesOfCalls
  <2> QED
    BY <2>1, <2>2 DEF Shapes
<1>7. CASE op \in DOMAIN SourceCalls /\ Calls[op] = SourceCalls[op]
  <2>1. op \in {"add_file", "add_url", "add_drive", "add_text"}
    BY <1>7, ShapesOfCalls
  <2>2. Calls[op] = <<"add">>
    BY <1>7, ShapesOfCalls
  <2> QED
    BY <2>1, <2>2 DEF Shapes
<1>8. CASE op \in DOMAIN NoteCalls /\ Calls[op] = NoteCalls[op]
  <2>1. op \in {"create_note", "update_note"}
    BY <1>8, ShapesOfCalls
  <2>2. CASE op = "create_note"
    <3>1. Calls[op] = <<"note">>
      BY <1>8, <2>2, ShapesOfCalls
    <3> QED
      BY <2>2, <3>1 DEF Shapes
  <2>3. CASE op = "update_note"
    <3>1. Calls[op] = <<"update", "get">>
      BY <1>8, <2>3, ShapesOfCalls
    <3> QED
      BY <2>3, <3>1 DEF Shapes
  <2> QED
    BY <2>1, <2>2, <2>3
<1>9. CASE op \in DOMAIN ChatCalls /\ Calls[op] = ChatCalls[op]
  <2>1. op \in {"ask_note"}
    BY <1>9, ShapesOfCalls
  <2>2. Calls[op] = <<"ask", "note">>
    BY <1>9, ShapesOfCalls
  <2> QED
    BY <2>1, <2>2 DEF Shapes
<1>10. CASE op \in DOMAIN ReviseCalls /\ Calls[op] = ReviseCalls[op]
  <2>1. op \in {"revise_slide"}
    BY <1>10, ShapesOfCalls
  <2>2. Calls[op] = <<"revise", "wait", "get">>
    BY <1>10, ShapesOfCalls
  <2> QED
    BY <2>1, <2>2 DEF Shapes
<1>11. CASE op \in DOMAIN ShareCalls /\ Calls[op] = ShareCalls[op]
  <2>1. op \in {"share", "share_at_level"}
    BY <1>11, ShapesOfCalls
  <2>2. CASE op = "share"
    <3>1. Calls[op] = <<"add_user">>
      BY <1>11, <2>2, ShapesOfCalls
    <3> QED
      BY <2>2, <3>1 DEF Shapes
  <2>3. CASE op = "share_at_level"
    <3>1. Calls[op] = <<"add_user", "level">>
      BY <1>11, <2>3, ShapesOfCalls
    <3> QED
      BY <2>3, <3>1 DEF Shapes
  <2> QED
    BY <2>1, <2>2, <2>3
<1>12. CASE op \in DOMAIN PublishCalls /\ Calls[op] = PublishCalls[op]
  <2>1. op \in {"publish", "withdraw"}
    BY <1>12, ShapesOfCalls
  <2>2. Calls[op] = <<"public", "level">>
    BY <1>12, ShapesOfCalls
  <2> QED
    BY <2>1, <2>2 DEF Shapes
<1> QED
  BY CallsOf, <1>1, <1>2, <1>3, <1>4, <1>5, <1>6, <1>7, <1>8, <1>9, <1>10, <1>11, <1>12

\* What of the shapes the invariant rests on: an operation makes its item by one call, it
\* waits and downloads when it has one, and what lets others in is a sharing operation.
LEMMA CallFacts ==
    ASSUME NEW op \in DOMAIN Calls
    PROVE  /\ Len(Calls[op]) \in 1..3
           /\ \A k \in 1..Len(Calls[op]) :
                 /\ Calls[op][k] \in Makers => \A j \in 1..(k - 1) : Calls[op][j] \notin Makers \cup {"download"}
                 /\ Calls[op][k] \in {"wait", "download"} =>
                        op \in Old \/ \E j \in 1..(k - 1) : Calls[op][j] \in Makers
                 /\ Calls[op][k] = "download" => k = Len(Calls[op])
                 /\ Calls[op][k] \in {"add_user", "public", "level"} => op \in Sharing
                 /\ Calls[op][k] = "add" => op \in DOMAIN SourceCalls
           /\ op \notin Old \cup Sharing => \E j \in 1..Len(Calls[op]) : Calls[op][j] \in Makers
           /\ op \in Sharing \ {"share"} => Len(Calls[op]) = 2 /\ Calls[op][2] = "level"
           /\ op \in DOMAIN SourceCalls => Len(Calls[op]) = 1 /\ Calls[op][1] = "add"
<1> DEFINE s == Calls[op]
<1>0. Shapes(op, s)
  BY CallShapes
<1>h. /\ Sharing = {"share", "share_at_level", "publish", "withdraw"}
      /\ DOMAIN SourceCalls = {"add_file", "add_url", "add_drive", "add_text"}
      /\ Old = {"fetch", "update_note", "revise_slide"}
  BY ShapesOfCalls DEF Sharing, Old
<1> HIDE DEF s
<1>1. Len(s) \in 1..3
  BY <1>0 DEF Shapes
<1>2. ASSUME NEW k \in 1..Len(s)
      PROVE  /\ s[k] \in Makers => \A j \in 1..(k - 1) : s[j] \notin Makers \cup {"download"}
             /\ s[k] \in {"wait", "download"} => op \in Old \/ \E j \in 1..(k - 1) : s[j] \in Makers
             /\ s[k] = "download" => k = Len(s)
             /\ s[k] \in {"add_user", "public", "level"} => op \in Sharing
             /\ s[k] = "add" => op \in DOMAIN SourceCalls
  <2>1. k \in Int /\ 1 <= k /\ k <= Len(s) /\ (k = 1 \/ k = 2 \/ k = 3)
    <3>1. PICK n \in 1..3 : n = Len(s)
      BY <1>1
    <3>2. k \in 1..n
      BY <3>1, <1>2
    <3> QED
      BY <3>1, <3>2
  <2>2. ASSUME s[k] \in Makers, NEW j \in 1..(k - 1)
        PROVE  s[j] \notin Makers \cup {"download"}
    BY <2>1, <2>2, <1>0 DEF Shapes, Makers
  <2>3. ASSUME s[k] \in {"wait", "download"}, op \notin Old
        PROVE  s[1] \in Makers /\ 1 \in 1..(k - 1)
    BY <2>1, <2>3, <1>0, <1>h DEF Shapes, Makers
  <2>4. s[k] = "download" => k = Len(s)
    <3>1. CASE k = 1
      BY <3>1, <1>0 DEF Shapes
    <3>2. CASE k = 2
      BY <3>2, <2>1, <1>0 DEF Shapes
    <3>3. CASE k = 3
      BY <3>3, <2>1, <1>0 DEF Shapes
    <3> QED
      BY <2>1, <3>1, <3>2, <3>3
  <2>5. s[k] \in {"add_user", "public", "level"} => op \in Sharing
    BY <1>1, <2>1, <1>0, <1>h DEF Shapes
  <2>6. s[k] = "add" => op \in DOMAIN SourceCalls
    BY <2>1, <1>0, <1>h DEF Shapes
  <2> QED
    BY <2>2, <2>3, <2>4, <2>5, <2>6
<1>3. ASSUME op \notin Old \cup Sharing
      PROVE  \E j \in 1..Len(s) : s[j] \in Makers
  <2>1. s[1] \in Makers \/ (op = "ask_note" /\ Len(s) = 2 /\ s[2] = "note")
    BY <1>3, <1>0, <1>h DEF Shapes, Makers
  <2> QED
    BY <2>1, <1>1 DEF Makers
<1>4. op \in Sharing \ {"share"} => Len(s) = 2 /\ s[2] = "level"
  BY <1>0, <1>h DEF Shapes
<1>5. op \in DOMAIN SourceCalls => Len(s) = 1 /\ s[1] = "add"
  BY <1>0, <1>h DEF Shapes
<1> QED
  BY <1>0, <1>1, <1>2, <1>3, <1>4, <1>5 DEF s

-----------------------------------------------------------------------------
(* What a call of the service does to the notebook.                        *)

\* The items of a step of the run l: those there were, of which the unfinished may have
\* changed their state, and at most one more, which is its own.
ItemsStep(l) ==
    /\ items' \in Seq(ItemRow) /\ Len(items') \in {Len(items), Len(items) + 1}
    /\ \A i \in DOMAIN items :
          /\ items'[i].by = items[i].by /\ items'[i].acct = items[i].acct
          /\ items[i].state # "pending" => items'[i].state = items[i].state
    /\ Len(items') > Len(items) => items'[Len(items')].by = l.call /\ items'[Len(items')].acct = l.acct

\* A step that leaves the items alone is a step of any run.
LEMMA ItemsStay ==
    ASSUME OpsTypeOK, items' = items, NEW l
    PROVE  ItemsStep(l)
BY DEF OpsTypeOK, ItemsStep

\* Items are there to stay.
LEMMA ItemsDomain ==
    ASSUME OpsTypeOK, NEW l, ItemsStep(l)
    PROVE  /\ DOMAIN items = 1..Len(items) /\ DOMAIN items' = 1..Len(items') /\ Len(items) \in Nat
           /\ \A i \in DOMAIN items : i \in DOMAIN items' /\ items[i] \in ItemRow
           /\ \A i \in DOMAIN items' : items'[i] \in ItemRow /\ (i \in DOMAIN items \/ i = Len(items) + 1)
<1>1. items \in Seq(ItemRow) /\ items' \in Seq(ItemRow) /\ Len(items') \in {Len(items), Len(items) + 1}
  BY DEF OpsTypeOK, ItemsStep
<1>2. Len(items) \in Nat /\ DOMAIN items = 1..Len(items) /\ DOMAIN items' = 1..Len(items')
  BY <1>1
<1>3. \A i \in DOMAIN items : items[i] \in ItemRow
  BY <1>1
<1>4. \A i \in DOMAIN items' : items'[i] \in ItemRow
  BY <1>1
<1>n. PICK n \in Nat : n = Len(items)
  BY <1>2
<1>m. PICK m \in Nat : m = Len(items')
  BY <1>1
<1>o. m = n \/ m = n + 1
  BY <1>1, <1>n, <1>m
<1>5. \A i \in 1..m : i \in 1..n \/ i = n + 1
  BY <1>o
<1>6. 1..n \subseteq 1..m
  BY <1>o
<1> QED
  BY <1>n, <1>m, <1>2, <1>3, <1>4, <1>5, <1>6

\* A call under way, in the terms of the lemmas below.
Calling(c, l) ==
    /\ c \in OpCallers /\ l = doing[c] /\ l.at = "call" /\ l.op \in DOMAIN Calls /\ l.call > 0
    /\ l.pos \in 1..Len(Calls[l.op])

\* A call makes an item, finishes one, copies one to the file or changes the sharing.
LEMMA EffectOfCall ==
    ASSUME OpsInv, NEW c, NEW l, Calling(c, l), NEW call, call = Calls[l.op][l.pos],
           NEW answer \in Answers(call), Possible(c, call, answer), Effect(c, call, answer)
    PROVE  /\ ItemsStep(l)
           /\ call \in Makers => Len(items') = Len(items) + 1
           /\ call \notin Makers => Len(items') = Len(items)
           /\ call = "add" => items'[Len(items')].state = answer
           /\ call = "wait" /\ (l.op \in Old \/ HasMade(l)) => l.item \in DOMAIN items /\ items'[l.item].state = answer
           /\ call = "download" =>
                  l.item \in DOMAIN items /\ items' = items /\ items[l.item].state = "completed"
           /\ files' = IF call = "download" THEN [files EXCEPT ![c] = l.item] ELSE files
           /\ sharing' \in [invited : BOOLEAN, public : BOOLEAN, level : 0..2]
           /\ call = "level" => sharing'.level = l.level
           /\ call # "level" => sharing'.level = sharing.level
           /\ call \notin {"add_user", "public", "level"} => sharing' = sharing
<1>1. /\ l \in Doing /\ items \in Seq(ItemRow) /\ sharing \in [invited : BOOLEAN, public : BOOLEAN, level : 0..2]
      /\ l.acct \in PoolAccounts \cup {0} /\ l.call \in Nat /\ l.level \in 0..2
      /\ ItemHolds(l, files[c])
  BY DEF OpsInv, OpsTypeOK, Calling, Doing
<1>2. l.op \in Old \/ HasMade(l) => l.item \in DOMAIN items
  BY <1>1 DEF ItemHolds, Bound, Calling
<1>3. call \in {"wait", "download"} => l.op \in Old \/ HasMade(l)
  BY CallFacts DEF Calling, HasMade
<1>4. /\ files' = IF call = "download" THEN [files EXCEPT ![c] = l.item] ELSE files
      /\ sharing' \in [invited : BOOLEAN, public : BOOLEAN, level : 0..2]
      /\ call = "level" => sharing'.level = l.level
      /\ call # "level" => sharing'.level = sharing.level
      /\ call \notin {"add_user", "public", "level"} => sharing' = sharing
  <2>1. files' = IF call = "download" THEN [files EXCEPT ![c] = l.item] ELSE files
    BY DEF Effect, Calling
  <2>2. ASSUME call = "add_user"
        PROVE  sharing' \in [invited : BOOLEAN, public : BOOLEAN, level : 0..2] /\ sharing'.level = sharing.level
    BY <2>2, <1>1 DEF Effect
  <2>3. ASSUME call = "public"
        PROVE  sharing' \in [invited : BOOLEAN, public : BOOLEAN, level : 0..2] /\ sharing'.level = sharing.level
    BY <2>3, <1>1 DEF Effect
  <2>4. ASSUME call = "level"
        PROVE  sharing' \in [invited : BOOLEAN, public : BOOLEAN, level : 0..2] /\ sharing'.level = l.level
    BY <2>4, <1>1 DEF Effect, Calling
  <2>5. call \notin {"add_user", "public", "level"} => sharing' = sharing
    BY DEF Effect
  <2>6. call # "level" => sharing'.level = sharing.level
    BY <2>2, <2>3, <2>5
  <2>7. sharing' \in [invited : BOOLEAN, public : BOOLEAN, level : 0..2]
    BY <1>1, <2>2, <2>3, <2>4, <2>5
  <2> QED
    BY <2>1, <2>4, <2>5, <2>6, <2>7
<1>5. CASE call \in Makers
  <2>1. PICK row : row.by = l.call /\ row.acct = l.acct /\ row \in ItemRow /\ items' = Append(items, row)
                      /\ (call = "add" => row.state = answer)
    <3>1. CASE call \in {"make", "revise", "note"}
      <4>1. items' = Append(items, [by |-> l.call, acct |-> l.acct, state |-> "pending"])
        BY <3>1 DEF Effect, Made, Calling
      <4>2. [by |-> l.call, acct |-> l.acct, state |-> "pending"] \in ItemRow
        BY <1>1 DEF ItemRow, ItemStates
      <4> QED
        BY <3>1, <4>1, <4>2
    <3>2. CASE call = "chart"
      <4>1. items' = Append(items, [by |-> l.call, acct |-> l.acct, state |-> "completed"])
        BY <3>2 DEF Effect, Made, Calling
      <4>2. [by |-> l.call, acct |-> l.acct, state |-> "completed"] \in ItemRow
        BY <1>1 DEF ItemRow, ItemStates
      <4> QED
        BY <3>2, <4>1, <4>2
    <3>3. CASE call = "add"
      <4>1. items' = Append(items, [by |-> l.call, acct |-> l.acct, state |-> answer])
        BY <3>3 DEF Effect, Made, Calling
      <4>2. [by |-> l.call, acct |-> l.acct, state |-> answer] \in ItemRow
        BY <1>1, <3>3 DEF ItemRow, ItemStates, Answers
      <4> QED
        BY <3>3, <4>1, <4>2
    <3> QED
      BY <1>5, <3>1, <3>2, <3>3 DEF Makers
  <2>2. /\ items' \in Seq(ItemRow) /\ Len(items') = Len(items) + 1 /\ items'[Len(items')] = row
        /\ \A i \in DOMAIN items : items'[i] = items[i]
    BY <1>1, <2>1
  <2>3. ItemsStep(l)
    BY <1>1, <2>1, <2>2 DEF ItemsStep
  <2> QED
    BY <1>4, <1>5, <2>1, <2>2, <2>3 DEF Makers
<1>6. CASE call = "wait"
  <2>1. items' = [items EXCEPT ![l.item].state = answer] /\ answer \in {"completed", "failed", "pending"}
    BY <1>6 DEF Effect, Answers, Calling
  <2>2. l.item \in DOMAIN items /\ (items[l.item].state # "pending" => answer = items[l.item].state)
    BY <1>2, <1>3, <1>6 DEF Possible, Calling
  <2>3. /\ items' \in Seq(ItemRow) /\ Len(items') = Len(items) /\ items'[l.item].state = answer
        /\ \A i \in DOMAIN items : items'[i].by = items[i].by /\ items'[i].acct = items[i].acct
                                   /\ (i # l.item => items'[i] = items[i])
    <3>1. PICK row \in ItemRow : row = items[l.item]
      BY <1>1, <2>2
    <3>2. PICK new : new = [row EXCEPT !.state = answer]
      OBVIOUS
    <3>3. new \in ItemRow /\ new.by = row.by /\ new.acct = row.acct /\ new.state = answer
      BY <2>1, <3>2 DEF ItemRow, ItemStates
    <3>4. items' = [items EXCEPT ![l.item] = new]
      BY <2>1, <3>1, <3>2
    <3> QED
      BY <1>1, <2>2, <3>1, <3>3, <3>4
  <2>4. ItemsStep(l)
    BY <1>1, <2>2, <2>3 DEF ItemsStep
  <2> QED
    BY <1>4, <1>6, <2>2, <2>3, <2>4 DEF Makers
<1>7. CASE call \notin Makers \cup {"wait"}
  <2>1. items' = items
    BY <1>7 DEF Effect, Makers
  <2>2. call = "download" => items[l.item].state = "completed"
    BY DEF Possible, Calling
  <2>3. ItemsStep(l)
    BY <2>1, ItemsStay DEF OpsInv
  <2> QED
    BY <1>2, <1>3, <1>4, <1>7, <2>1, <2>2, <2>3 DEF Makers
<1> QED
  BY <1>5, <1>6, <1>7

-----------------------------------------------------------------------------
(* The parts of the invariant, one by one.                                 *)

\* What the step of c leaves the other callers.
LEMMA OthersHold ==
    ASSUME OpsInv, NEW c \in OpCallers, NEW d \in OpCallers, d # c, NEW l, l = doing[c], ItemsStep(l), l.call > 0,
           NEW e, e = doing[d], NEW file, file = files[d],
           sharing'.level = 0 => sharing.level = 0, opsPast'.begun >= opsPast.begun, opsPast'.begun \in Nat
    PROVE  RunHolds(e)' /\ ItemHolds(e, file)'
<1>1. /\ e \in Doing /\ e.call # l.call /\ RunHolds(e) /\ ItemHolds(e, file) /\ l.call \in Nat /\ e.call \in Nat
      /\ OpsTypeOK /\ opsPast.begun \in Nat
  BY DEF OpsInv, OpsTypeOK, Doing
<1>2. /\ \A i \in DOMAIN items : i \in DOMAIN items' /\ items'[i].by = items[i].by /\ items'[i].acct = items[i].acct
                                 /\ (items[i].state # "pending" => items'[i].state = items[i].state)
      /\ \A i \in DOMAIN items' : i \in DOMAIN items \/ items'[i].by = l.call
  <2>1. Len(items') \in {Len(items), Len(items) + 1} /\ Len(items) \in Nat
    BY <1>1, ItemsDomain DEF ItemsStep
  <2>2. ASSUME NEW i \in DOMAIN items', i \notin DOMAIN items
        PROVE  items'[i].by = l.call
    <3>1. i = Len(items) + 1 /\ i <= Len(items')
      BY <1>1, <2>2, ItemsDomain
    <3>2. i = Len(items') /\ Len(items') > Len(items)
      BY <2>1, <3>1
    <3> QED
      BY <3>2 DEF ItemsStep
  <2> QED
    BY <1>1, <2>2, ItemsDomain DEF ItemsStep
<1>3. RunHolds(e)'
  BY <1>1, <1>2 DEF RunHolds, HasMade
<1>4. ItemHolds(e, file)'
  <2>1. /\ HasMade(e)' <=> HasMade(e)
        /\ HasFetched(e)' <=> HasFetched(e)
        /\ Bound(e)' <=> Bound(e)
    BY DEF HasMade, HasFetched, Bound
  <2>2. Bound(e) /\ HasFetched(e) => e.op \in Old \/ HasMade(e)
    <3>1. Bound(e) => e.op \in DOMAIN Calls /\ e.pos \in 1..(Len(Calls[e.op]) + 1) /\ Len(Calls[e.op]) \in 1..3
      <4>1. Bound(e) => e.op \in DOMAIN Calls
        BY <1>1 DEF RunHolds, Bound
      <4>2. e.op \in DOMAIN Calls => Len(Calls[e.op]) \in 1..3
        BY CallFacts
      <4> QED
        BY <1>1, <4>1, <4>2 DEF RunHolds, Bound, Doing
    <3>2. ASSUME Bound(e), NEW k \in 1..(e.pos - 1), Calls[e.op][k] = "download"
          PROVE  e.op \in Old \/ HasMade(e)
      <4>1. k \in 1..Len(Calls[e.op]) /\ 1..(k - 1) \subseteq 1..(e.pos - 1)
        BY <3>1, <3>2
      <4>2. e.op \in Old \/ \E j \in 1..(k - 1) : Calls[e.op][j] \in Makers
        BY <3>1, <3>2, <4>1, CallFacts
      <4> QED
        BY <4>1, <4>2 DEF HasMade
    <3> QED
      BY <3>2 DEF HasFetched
  <2>3. ASSUME Bound(e), e.op \in Old \/ HasMade(e)
        PROVE  e.item \in DOMAIN items /\ e.item \in DOMAIN items'
    BY <1>1, <1>2, <2>3 DEF ItemHolds
  <2>4. ASSUME Bound(e), HasMade(e)
        PROVE  /\ items'[e.item].by = e.call /\ items'[e.item].acct = e.acct
               /\ e.op \in DOMAIN SourceCalls => items'[e.item].state = "ready"
    BY <1>1, <1>2, <2>3, <2>4 DEF ItemHolds
  <2>5. ASSUME Bound(e), HasFetched(e)
        PROVE  file = e.item /\ items'[e.item].state = "completed"
    BY <1>1, <1>2, <2>2, <2>3, <2>5 DEF ItemHolds
  <2> QED
    BY <2>1, <2>3, <2>4, <2>5 DEF ItemHolds
<1> QED
  BY <1>3, <1>4

\* A run that has made no item on its account yet may make one.
LEMMA OneEachHolds ==
    ASSUME OpsInv, NEW c \in OpCallers, NEW l, l = doing[c], ItemsStep(l), l.at = "call",
           Len(items') > Len(items) => ~HasMade(l), opsPast'.begun = opsPast.begun
    PROVE  OneEach'
<1>1. /\ l \in Doing /\ RunHolds(l) /\ OpsTypeOK /\ OneEach /\ opsPast.begun \in Nat /\ l.call \in Nat
  BY DEF OpsInv, OpsTypeOK, Doing
<1>2. /\ \A i \in DOMAIN items : i \in DOMAIN items' /\ items'[i].by = items[i].by /\ items'[i].acct = items[i].acct
      /\ \A i \in DOMAIN items' : i \notin DOMAIN items =>
            i = Len(items') /\ Len(items') > Len(items) /\ items'[i].by = l.call /\ items'[i].acct = l.acct
  <2>1. Len(items') \in {Len(items), Len(items) + 1} /\ Len(items) \in Nat
    BY <1>1, ItemsDomain DEF ItemsStep
  <2>2. ASSUME NEW i \in DOMAIN items', i \notin DOMAIN items
        PROVE  i = Len(items') /\ Len(items') > Len(items) /\ items'[i].by = l.call /\ items'[i].acct = l.acct
    <3>1. i = Len(items) + 1 /\ i <= Len(items')
      BY <1>1, <2>2, ItemsDomain
    <3>2. i = Len(items') /\ Len(items') > Len(items)
      BY <2>1, <3>1
    <3> QED
      BY <3>2 DEF ItemsStep
  <2> QED
    BY <1>1, <2>2, ItemsDomain DEF ItemsStep
<1>3. ASSUME NEW i \in DOMAIN items, NEW j \in DOMAIN items', j \notin DOMAIN items
      PROVE  ~(items'[i].by = items'[j].by /\ items'[i].acct = items'[j].acct)
  BY <1>1, <1>2, <1>3 DEF RunHolds
<1>4. \A i \in DOMAIN items' : items'[i].by <= opsPast'.begun
  BY <1>1, <1>2 DEF OneEach, RunHolds
<1>5. ASSUME NEW i \in DOMAIN items', NEW j \in DOMAIN items',
             items'[i].by = items'[j].by, items'[i].by > 0, items'[i].acct = items'[j].acct
      PROVE  i = j
  <2>1. CASE i \in DOMAIN items /\ j \in DOMAIN items
    BY <1>1, <1>2, <1>5, <2>1 DEF OneEach
  <2>2. CASE i \notin DOMAIN items /\ j \notin DOMAIN items
    BY <1>2, <2>2
  <2> QED
    BY <1>3, <1>5, <2>1, <2>2
<1> QED
  BY <1>4, <1>5 DEF OneEach

\* A run that goes from l to m.
RunStep(c, l, m) ==
    /\ l = doing[c] /\ m \in Doing /\ doing' = [doing EXCEPT ![c] = m] /\ m.call = l.call
    /\ opsPast' \in [begun : Nat, unleveled : BOOLEAN] /\ opsPast'.begun = opsPast.begun

\* A step of a run that keeps what the invariant says of itself keeps the invariant.
LEMMA Combined ==
    ASSUME OpsInv, NEW c \in OpCallers, NEW l, NEW m, RunStep(c, l, m), l.at = "call", ItemsStep(l),
           Len(items') > Len(items) => ~HasMade(l), files' \in [OpCallers -> Nat],
           \A d \in OpCallers : d # c => files'[d] = files[d],
           sharing' \in [invited : BOOLEAN, public : BOOLEAN, level : 0..2], sharing'.level = 0 => sharing.level = 0,
           RunHolds(m)', NEW file, file = files'[c], ItemHolds(m, file)', LevelKept'
    PROVE  OpsInv'
<1>1. /\ OpsTypeOK /\ doing \in [OpCallers -> Doing] /\ items # <<>> /\ items \in Seq(ItemRow) /\ l \in Doing /\ l.call > 0
      /\ doing' \in [OpCallers -> Doing] /\ doing'[c] = m /\ \A d \in OpCallers : d # c => doing'[d] = doing[d]
  BY DEF OpsInv, OpsTypeOK, RunStep, RunHolds
<1>2. OpsTypeOK'
  <2>1. items' \in Seq(ItemRow) /\ Len(items') >= Len(items) /\ Len(items) > 0
    BY <1>1 DEF ItemsStep
  <2>2. items' # <<>>
    BY <2>1
  <2> QED
    BY <1>1, <2>1, <2>2 DEF OpsTypeOK, RunStep
<1>3. OneEach'
  BY OneEachHolds DEF RunStep
<1>4. ASSUME NEW d \in OpCallers
      PROVE  RunHolds(doing[d])' /\ ItemHolds(doing[d], files[d])'
  <2>1. CASE d = c
    <3>1. RunHolds(doing[d])' <=> RunHolds(m)'
      BY <1>1, <2>1 DEF RunHolds, HasMade
    <3>2. ItemHolds(doing[d], files[d])' <=> ItemHolds(m, file)'
      BY <1>1, <2>1 DEF ItemHolds, HasMade, HasFetched, Bound
    <3> QED
      BY <3>1, <3>2
  <2>2. CASE d # c
    <3>1. PICK e : e = doing[d]
      OBVIOUS
    <3>2. PICK g : g = files[d]
      OBVIOUS
    <3>3. RunHolds(e)' /\ ItemHolds(e, g)'
      BY <1>1, <2>2, <3>1, <3>2, OthersHold DEF RunStep
    <3>4. doing'[d] = e /\ files'[d] = g
      BY <1>1, <2>2, <3>1, <3>2
    <3>5. RunHolds(doing[d])' <=> RunHolds(e)'
      BY <3>4 DEF RunHolds, HasMade
    <3>6. ItemHolds(doing[d], files[d])' <=> ItemHolds(e, g)'
      BY <3>4 DEF ItemHolds, HasMade, HasFetched, Bound
    <3> QED
      BY <3>3, <3>5, <3>6
  <2> QED
    BY <2>1, <2>2
<1>5. \A d, e \in OpCallers : doing'[d].call = doing'[e].call /\ doing'[d].call > 0 => d = e
  <2>1. \A d \in OpCallers : doing'[d].call = doing[d].call
    BY <1>1 DEF RunStep
  <2> QED
    BY <2>1 DEF OpsInv
<1> QED
  BY <1>2, <1>3, <1>4, <1>5 DEF OpsInv

\* A run that raises promises no result; a sharing operation that raises is on record.
LEMMA RaiseHolds ==
    ASSUME OpsInv, NEW c \in OpCallers, NEW l, l = doing[c], l.at = "call", ItemsStep(l), NEW rotates \in BOOLEAN,
           Raise(c, rotates), sharing'.level = 0 => sharing.level = 0, sharing' = sharing \/ l.op \in Sharing,
           NEW file
    PROVE  \E m : RunStep(c, l, m) /\ RunHolds(m)' /\ ItemHolds(m, file)' /\ LevelKept'
<1>1. /\ l \in Doing /\ RunHolds(l) /\ OpsTypeOK /\ LevelKept /\ doing \in [OpCallers -> Doing] /\ l.result = "none"
      /\ opsPast \in [begun : Nat, unleveled : BOOLEAN]
  BY DEF OpsInv, OpsTypeOK, RunHolds
<1>2. PICK m : m = IF rotates /\ Cardinality(l.tried) <= l.budget
                   THEN [l EXCEPT !.at = "pick"] ELSE [l EXCEPT !.at = "idle", !.result = "error"]
  OBVIOUS
<1>3. doing' = [doing EXCEPT ![c] = m]
  BY <1>2 DEF Raise, Return
<1>4. /\ m \in Doing /\ m.call = l.call /\ m.op = l.op /\ m.tried = l.tried /\ m.level = l.level
      /\ (m.at = "pick" /\ m.result = "none") \/ (m.at = "idle" /\ m.result = "error")
  BY <1>1, <1>2 DEF Doing
<1>5. opsPast' \in [begun : Nat, unleveled : BOOLEAN] /\ opsPast'.begun = opsPast.begun
      /\ opsPast'.unleveled = (opsPast.unleveled \/ l.op \in Sharing)
  BY <1>1 DEF Raise
<1>6. RunStep(c, l, m)
  BY <1>3, <1>4, <1>5 DEF RunStep
<1>7. RunHolds(m)'
  <2>1. \A i \in DOMAIN items' : items'[i].by = l.call => items'[i].acct \in l.tried
    <3>1. \A i \in DOMAIN items' : i \in DOMAIN items \/ items'[i].acct = l.acct
      <4>1. Len(items') \in {Len(items), Len(items) + 1} /\ Len(items) \in Nat
        BY <1>1, ItemsDomain DEF ItemsStep
      <4>2. ASSUME NEW i \in DOMAIN items', i \notin DOMAIN items
            PROVE  items'[i].acct = l.acct
        <5>1. i = Len(items) + 1 /\ i <= Len(items')
          BY <1>1, <4>2, ItemsDomain
        <5>2. i = Len(items') /\ Len(items') > Len(items)
          BY <4>1, <5>1
        <5> QED
          BY <5>2 DEF ItemsStep
      <4> QED
        BY <4>2
    <3> QED
      BY <1>1, <3>1 DEF ItemsStep, RunHolds
  <2> QED
    BY <1>1, <1>4, <1>5, <2>1 DEF RunHolds
<1>8. ItemHolds(m, file)'
  BY <1>4 DEF ItemHolds, Bound
<1>9. LevelKept'
  <2>1. CASE l.op \in Sharing \/ opsPast.unleveled
    BY <1>5, <2>1 DEF LevelKept
  <2>2. CASE l.op \notin Sharing /\ ~opsPast.unleveled
    <3>1. sharing' = sharing
      BY <2>2
    <3>2. ASSUME NEW d \in OpCallers, doing[d].op \in Sharing, doing[d].at = "call"
          PROVE  doing'[d].op \in Sharing /\ doing'[d].at = "call"
      BY <1>1, <1>3, <2>2, <3>2
    <3> QED
      BY <1>1, <1>5, <2>2, <3>1, <3>2 DEF LevelKept
  <2> QED
    BY <2>1, <2>2
<1> QED
  BY <1>6, <1>7, <1>8, <1>9

-----------------------------------------------------------------------------
(* The operations.                                                         *)

\* The call that is due is a call of the operation.
LEMMA DueOfCall ==
    ASSUME OpsInv, NEW c \in OpCallers, NEW l, l = doing[c], CanCall(c)
    PROVE  Calling(c, l) /\ Due(c) = Calls[l.op][l.pos]
<1>1. l \in Doing /\ RunHolds(l) /\ l.at = "call" /\ ~(l.pos > Len(Calls[l.op]))
  BY DEF OpsInv, OpsTypeOK, CanCall, Finished
<1>2. l.op \in DOMAIN Calls /\ l.call > 0 /\ l.pos \in 1..(Len(Calls[l.op]) + 1)
  BY <1>1 DEF RunHolds
<1>3. PICK n \in 1..3 : n = Len(Calls[l.op])
  BY <1>2, CallFacts
<1> QED
  BY <1>1, <1>2, <1>3 DEF Calling, Due

\* A call whose answer is accepted.
LEMMA AcceptedCall ==
    ASSUME OpsInv, NEW c \in OpCallers, NEW l, Calling(c, l), NEW call, call = Calls[l.op][l.pos],
           NEW answer \in Answers(call), Possible(c, call, answer), Effect(c, call, answer),
           answer \in Accepted(l.op, call), UNCHANGED opsPast,
           doing' = [doing EXCEPT ![c].pos = @ + 1, ![c].item = IF call \in Makers THEN Len(items') ELSE @]
    PROVE  OpsInv'
<1>1. /\ l \in Doing /\ RunHolds(l) /\ OpsTypeOK /\ doing \in [OpCallers -> Doing] /\ l = doing[c] /\ l.at = "call"
      /\ files \in [OpCallers -> Nat] /\ ItemHolds(l, files[c]) /\ LevelKept /\ l.item \in Nat /\ l.call > 0
      /\ opsPast \in [begun : Nat, unleveled : BOOLEAN] /\ items \in Seq(ItemRow)
  BY DEF OpsInv, OpsTypeOK, Calling, Doing
<1>2. PICK n \in 1..3 : n = Len(Calls[l.op]) /\ l.pos \in 1..n
  BY CallFacts DEF Calling
<1>e. /\ ItemsStep(l)
      /\ call \in Makers => Len(items') = Len(items) + 1
      /\ call \notin Makers => Len(items') = Len(items)
      /\ call = "add" => items'[Len(items')].state = answer
      /\ call = "download" => l.item \in DOMAIN items /\ items' = items /\ items[l.item].state = "completed"
      /\ files' = IF call = "download" THEN [files EXCEPT ![c] = l.item] ELSE files
      /\ sharing' \in [invited : BOOLEAN, public : BOOLEAN, level : 0..2]
      /\ call = "level" => sharing'.level = l.level
      /\ call # "level" => sharing'.level = sharing.level
      /\ call \notin {"add_user", "public", "level"} => sharing' = sharing
  BY EffectOfCall
<1>i. /\ Len(items') \in Nat /\ Len(items) \in Nat /\ DOMAIN items = 1..Len(items) /\ DOMAIN items' = 1..Len(items')
      /\ \A i \in DOMAIN items : i \in DOMAIN items' /\ items'[i].by = items[i].by /\ items'[i].acct = items[i].acct
      /\ \A i \in DOMAIN items' : i \in DOMAIN items \/ i = Len(items) + 1
      /\ call \notin Makers => DOMAIN items' = DOMAIN items
  <2>1. items' \in Seq(ItemRow)
    BY <1>e DEF ItemsStep
  <2>2. Len(items') \in Nat
    BY <2>1
  <2> QED
    BY <1>1, <1>e, <2>2, ItemsDomain DEF ItemsStep
<1>3. PICK m : m = [l EXCEPT !.pos = @ + 1, !.item = IF call \in Makers THEN Len(items') ELSE @]
  OBVIOUS
<1>4. /\ m \in Doing /\ doing' = [doing EXCEPT ![c] = m] /\ m.call = l.call /\ m.pos = l.pos + 1 /\ m.op = l.op
      /\ m.at = "call" /\ m.tried = l.tried /\ m.acct = l.acct /\ m.level = l.level /\ m.result = l.result
      /\ m.item = IF call \in Makers THEN Len(items') ELSE l.item
  <2>1. doing' = [doing EXCEPT ![c] = m]
    BY <1>1, <1>3
  <2>2. PICK k \in Nat : k = IF call \in Makers THEN Len(items') ELSE l.item
    BY <1>1, <1>i
  <2>3. m = [l EXCEPT !.pos = @ + 1, !.item = k]
    BY <1>1, <1>3, <2>2
  <2>p. PICK p \in Nat : p = l.pos + 1
    BY <1>2
  <2>4. m \in Doing
    <3>1. m = [l EXCEPT !.pos = p, !.item = k]
      BY <2>3, <2>p
    <3> QED
      BY <1>1, <3>1 DEF Doing
  <2>5. /\ m.call = l.call /\ m.op = l.op /\ m.at = l.at /\ m.tried = l.tried /\ m.acct = l.acct /\ m.level = l.level
        /\ m.result = l.result /\ m.pos = l.pos + 1 /\ m.item = k
    BY <1>1, <2>3 DEF Doing
  <2> QED
    BY <1>1, <2>1, <2>2, <2>4, <2>5
<1>5. RunStep(c, l, m)
  BY <1>1, <1>4 DEF RunStep
<1>6. call \in Makers => ~HasMade(l) /\ ~HasFetched(l)
  BY <1>2, CallFacts DEF HasMade, HasFetched, Calling
<1>7. HasMade(m) <=> HasMade(l) \/ call \in Makers
  <2>1. \A k \in 1..(m.pos - 1) : k \in 1..(l.pos - 1) \/ k = l.pos
    BY <1>2, <1>4
  <2>2. l.pos \in 1..(m.pos - 1) /\ \A k \in 1..(l.pos - 1) : k \in 1..(m.pos - 1)
    BY <1>2, <1>4
  <2> QED
    BY <1>4, <2>1, <2>2 DEF HasMade
<1>8. HasFetched(m) <=> HasFetched(l) \/ call = "download"
  <2>1. \A k \in 1..(m.pos - 1) : k \in 1..(l.pos - 1) \/ k = l.pos
    BY <1>2, <1>4
  <2>2. l.pos \in 1..(m.pos - 1) /\ \A k \in 1..(l.pos - 1) : k \in 1..(m.pos - 1)
    BY <1>2, <1>4
  <2> QED
    BY <1>4, <2>1, <2>2 DEF HasFetched
<1>9. ~HasFetched(l)
  <2>1. ASSUME NEW k \in 1..(l.pos - 1), Calls[l.op][k] = "download"
        PROVE  FALSE
    <3>1. k \in 1..n /\ k < n
      BY <1>2, <2>1
    <3>2. k = n
      BY <1>2, <2>1, <3>1, CallFacts DEF Calling
    <3> QED
      BY <3>1, <3>2
  <2> QED
    BY <2>1 DEF HasFetched
<1>10. RunHolds(m)'
  <2>1. m.call <= opsPast'.begun /\ m.result = "none" /\ m.op \in DOMAIN Calls /\ m.call > 0
        /\ m.level # 0 /\ m.acct \in m.tried
    BY <1>1, <1>4 DEF RunHolds
  <2>2. m.pos \in 1..(Len(Calls[m.op]) + 1)
    BY <1>2, <1>4
  <2>3. \A i \in DOMAIN items' : items'[i].by = m.call => items'[i].acct \in m.tried
    <3>1. ASSUME NEW i \in DOMAIN items', i \notin DOMAIN items
          PROVE  items'[i].acct = l.acct
      <4>1. i = Len(items') /\ Len(items') > Len(items)
        <5>1. PICK a \in Nat : a = Len(items)
          BY <1>i
        <5>2. PICK b \in Nat : b = Len(items')
          BY <1>i
        <5>3. (b = a \/ b = a + 1) /\ i = a + 1 /\ i \in 1..b
          BY <1>e, <1>i, <3>1, <5>1, <5>2
        <5> QED
          BY <5>1, <5>2, <5>3
      <4> QED
        BY <4>1, <1>e DEF ItemsStep
    <3> QED
      BY <1>1, <1>4, <1>i, <3>1 DEF RunHolds
  <2>4. ~HasMade(m) => \A i \in DOMAIN items' : ~(items'[i].by = m.call /\ items'[i].acct = m.acct)
    <3>1. ASSUME ~HasMade(m), NEW i \in DOMAIN items', items'[i].by = m.call, items'[i].acct = m.acct
          PROVE  FALSE
      <4>1. ~HasMade(l) /\ i \in DOMAIN items
        BY <1>7, <1>i, <3>1
      <4>2. items[i].by = l.call /\ items[i].acct = l.acct
        BY <1>4, <1>i, <3>1, <4>1
      <4> QED
        BY <1>1, <4>1, <4>2 DEF RunHolds
    <3> QED
      BY <3>1
  <2>5. m.op \in Sharing \ {"share"} /\ m.pos > 2 => sharing'.level # 0
    <3>1. ASSUME m.op \in Sharing \ {"share"}, m.pos > 2
          PROVE  sharing'.level # 0
      <4>1. n = 2 /\ Calls[l.op][2] = "level"
        BY <1>2, <1>4, <3>1, CallFacts DEF Calling
      <4>2. l.pos = 2
        BY <1>2, <1>4, <3>1, <4>1
      <4> QED
        BY <1>4, <1>e, <2>1, <4>1, <4>2
    <3> QED
      BY <3>1
  <2>6. HasMade(m)' <=> HasMade(m)
    BY DEF HasMade
  <2> QED
    BY <1>4, <2>1, <2>2, <2>3, <2>4, <2>5, <2>6 DEF RunHolds
<1>11. /\ m.op \in Old \/ HasMade(m) => m.item \in DOMAIN items'
       /\ HasMade(m) => /\ items'[m.item].by = m.call /\ items'[m.item].acct = m.acct
                        /\ m.op \in DOMAIN SourceCalls => items'[m.item].state = "ready"
       /\ HasFetched(m) => files'[c] = m.item /\ items'[m.item].state = "completed"
  <2>1. CASE call \in Makers
    <3>1. m.item = Len(items') /\ m.item \in DOMAIN items' /\ Len(items') > Len(items)
      <4>1. PICK a \in Nat : a = Len(items)
        BY <1>i
      <4>2. Len(items') = a + 1 /\ DOMAIN items' = 1..(a + 1)
        BY <1>e, <1>i, <2>1, <4>1
      <4> QED
        BY <1>4, <2>1, <4>1, <4>2
    <3>2. items'[m.item].by = m.call /\ items'[m.item].acct = m.acct
      BY <1>4, <1>e, <3>1 DEF ItemsStep
    <3>3. ASSUME m.op \in DOMAIN SourceCalls
          PROVE  items'[m.item].state = "ready"
      <4>1. call = "add"
        BY <1>2, <1>4, <3>3, CallFacts DEF Calling
      <4> QED
        BY <1>e, <3>1, <4>1 DEF Accepted
    <3>4. ~HasFetched(m)
      BY <1>8, <1>9, <2>1 DEF Makers
    <3> QED
      BY <3>1, <3>2, <3>3, <3>4
  <2>2. CASE call \notin Makers
    <3>1. m.item = l.item /\ (HasMade(m) <=> HasMade(l))
      BY <1>4, <1>7, <2>2
    <3>2. m.op \in Old \/ HasMade(m) => m.item \in DOMAIN items /\ m.item \in DOMAIN items'
      BY <1>1, <1>4, <1>i, <3>1 DEF ItemHolds, Bound
    <3>3. HasMade(m) => items'[m.item].by = m.call /\ items'[m.item].acct = m.acct
      <4>1. ASSUME HasMade(m)
            PROVE  items[l.item].by = l.call /\ items[l.item].acct = l.acct
        BY <1>1, <3>1, <4>1 DEF ItemHolds, Bound
      <4> QED
        BY <1>4, <1>i, <3>1, <3>2, <4>1
    <3>4. m.op \in DOMAIN SourceCalls => ~HasMade(m)
      <4>1. m.op \in DOMAIN SourceCalls => n = 1
        BY <1>2, <1>4, CallFacts DEF Calling
      <4>2. n = 1 => 1..(l.pos - 1) = {}
        BY <1>2
      <4> QED
        BY <3>1, <4>1, <4>2 DEF HasMade
    <3>5. HasFetched(m) => files'[c] = m.item /\ items'[m.item].state = "completed"
      BY <1>1, <1>8, <1>9, <1>e, <3>1
    <3> QED
      BY <3>2, <3>3, <3>4, <3>5
  <2> QED
    BY <2>1, <2>2
<1>12. PICK file : file = files'[c]
  OBVIOUS
<1>13. ItemHolds(m, file)'
  <2>1. (HasMade(m)' <=> HasMade(m)) /\ (HasFetched(m)' <=> HasFetched(m))
    BY DEF HasMade, HasFetched
  <2> QED
    BY <1>11, <1>12, <2>1 DEF ItemHolds
<1>14. LevelKept'
  <2>1. CASE l.op \in Sharing
    BY <1>1, <1>4, <2>1 DEF LevelKept
  <2>2. CASE l.op \notin Sharing
    <3>1. sharing' = sharing
      BY <1>2, <1>e, <2>2, CallFacts DEF Calling
    <3>2. \A d \in OpCallers : doing'[d].op = doing[d].op /\ doing'[d].at = doing[d].at
      BY <1>1, <1>4
    <3> QED
      BY <1>1, <3>1, <3>2 DEF LevelKept
  <2> QED
    BY <2>1, <2>2
<1>15. /\ files' \in [OpCallers -> Nat] /\ \A d \in OpCallers : d # c => files'[d] = files[d]
       /\ sharing'.level = 0 => sharing.level = 0
       /\ Len(items') > Len(items) => ~HasMade(l)
  <2>1. sharing'.level = 0 => sharing.level = 0
    BY <1>1, <1>e DEF RunHolds
  <2>2. files' \in [OpCallers -> Nat] /\ \A d \in OpCallers : d # c => files'[d] = files[d]
    BY <1>1, <1>e
  <2>3. Len(items') > Len(items) => ~HasMade(l)
    <3>1. PICK a \in Nat : a = Len(items)
      BY <1>i
    <3>2. CASE call \in Makers
      BY <1>6, <3>2
    <3>3. CASE call \notin Makers
      <4>1. Len(items') = a
        BY <1>e, <3>1, <3>3
      <4> QED
        BY <3>1, <4>1
    <3> QED
      BY <3>2, <3>3
  <2> QED
    BY <2>1, <2>2, <2>3
<1> QED
  BY <1>1, <1>5, <1>10, <1>12, <1>13, <1>14, <1>15, <1>e, Combined

\* A call of which the run sees an error.
LEMMA BrokenCall ==
    ASSUME OpsInv, NEW c \in OpCallers, NEW l, l = doing[c], l.at = "call", ItemsStep(l), NEW rotates \in BOOLEAN,
           Raise(c, rotates), Len(items') > Len(items) => ~HasMade(l), files' \in [OpCallers -> Nat],
           \A d \in OpCallers : d # c => files'[d] = files[d],
           sharing' \in [invited : BOOLEAN, public : BOOLEAN, level : 0..2], sharing'.level = 0 => sharing.level = 0,
           sharing' = sharing \/ l.op \in Sharing
    PROVE  OpsInv'
<1>1. PICK file : file = files'[c]
  OBVIOUS
<1>2. PICK m : RunStep(c, l, m) /\ RunHolds(m)' /\ ItemHolds(m, file)' /\ LevelKept'
  BY RaiseHolds
<1> QED
  BY <1>1, <1>2, Combined

\* A call whose effect is there, but not its answer, or an answer that is not accepted.
LEMMA BrokenEffect ==
    ASSUME OpsInv, NEW c \in OpCallers, CanCall(c), NEW answer \in Answers(Due(c)), Possible(c, Due(c), answer),
           Effect(c, Due(c), answer), NEW rotates \in BOOLEAN, Raise(c, rotates)
    PROVE  OpsInv'
<1>1. PICK l : l = doing[c]
  OBVIOUS
<1>2. Calling(c, l)
  BY <1>1, DueOfCall
<1>3. PICK call : call = Due(c) /\ call = Calls[l.op][l.pos]
  BY <1>1, DueOfCall
<1>e. /\ ItemsStep(l)
      /\ call \notin Makers => Len(items') = Len(items)
      /\ files' = IF call = "download" THEN [files EXCEPT ![c] = l.item] ELSE files
      /\ sharing' \in [invited : BOOLEAN, public : BOOLEAN, level : 0..2]
      /\ call = "level" => sharing'.level = l.level
      /\ call # "level" => sharing'.level = sharing.level
      /\ call \notin {"add_user", "public", "level"} => sharing' = sharing
  BY <1>2, <1>3, EffectOfCall
<1>4. /\ l.at = "call" /\ l.pos \in 1..Len(Calls[l.op]) /\ l.op \in DOMAIN Calls /\ l.item \in Nat /\ l.level # 0
      /\ files \in [OpCallers -> Nat] /\ Len(items) \in Nat
  BY <1>1, <1>2 DEF Calling, OpsInv, OpsTypeOK, Doing, RunHolds
<1>5. Len(items') > Len(items) => ~HasMade(l)
  <2>1. call \in Makers => ~HasMade(l)
    BY <1>3, <1>4, CallFacts DEF HasMade
  <2> QED
    BY <1>4, <1>e, <2>1
<1>6. sharing' = sharing \/ l.op \in Sharing
  BY <1>3, <1>4, <1>e, CallFacts
<1>7. files' \in [OpCallers -> Nat] /\ \A d \in OpCallers : d # c => files'[d] = files[d]
  BY <1>4, <1>e
<1>8. sharing'.level = 0 => sharing.level = 0
  BY <1>4, <1>e
<1> QED
  BY <1>1, <1>4, <1>5, <1>6, <1>7, <1>8, <1>e, BrokenCall

\* A run that breaks off without another effect.
LEMMA BrokenOff ==
    ASSUME OpsInv, NEW c \in OpCallers, doing[c].at = "call", UNCHANGED <<items, files, sharing>>,
           NEW rotates \in BOOLEAN, Raise(c, rotates)
    PROVE  OpsInv'
<1>1. PICK l : l = doing[c]
  OBVIOUS
<1>2. OpsTypeOK /\ Len(items) \in Nat
  BY DEF OpsInv, OpsTypeOK
<1>3. ItemsStep(l)
  BY <1>2, ItemsStay
<1> QED
  BY <1>1, <1>2, <1>3, BrokenCall DEF OpsTypeOK

\* A call that answers keeps the invariant.
LEMMA CallServiceHolds ==
    ASSUME OpsInv, NEW c \in OpCallers, CallService(c)
    PROVE  OpsInv'
<1>1. PICK l : l = doing[c]
  OBVIOUS
<1>2. CanCall(c)
  BY DEF CallService
<1>3. Calling(c, l)
  BY <1>1, <1>2, DueOfCall
<1>4. PICK call : call = Due(c) /\ call = Calls[l.op][l.pos]
  BY <1>1, <1>2, DueOfCall
<1>5. PICK answer \in Answers(call) :
          /\ Possible(c, call, answer) /\ Effect(c, call, answer)
          /\ \/ /\ answer \in Accepted(l.op, call) /\ UNCHANGED opsPast
                /\ doing' = [doing EXCEPT ![c].pos = @ + 1, ![c].item = IF call \in Makers THEN Len(items') ELSE @]
             \/ \E captcha \in BOOLEAN : Raise(c, captcha)
  BY <1>1, <1>4 DEF CallService
<1>6. CASE \E captcha \in BOOLEAN : Raise(c, captcha)
  BY <1>2, <1>4, <1>5, <1>6, BrokenEffect
<1>7. CASE /\ answer \in Accepted(l.op, call) /\ UNCHANGED opsPast
           /\ doing' = [doing EXCEPT ![c].pos = @ + 1, ![c].item = IF call \in Makers THEN Len(items') ELSE @]
  BY <1>3, <1>4, <1>5, <1>7, AcceptedCall
<1> QED
  BY <1>5, <1>6, <1>7

\* A call that raises keeps the invariant.
LEMMA CallRaisesHolds ==
    ASSUME OpsInv, NEW c \in OpCallers, CallRaises(c)
    PROVE  OpsInv'
<1>1. CanCall(c) /\ doing[c].at = "call"
  BY DEF CallRaises, CanCall
<1>2. CASE UNCHANGED <<items, files, sharing>> /\ \E rotates \in BOOLEAN : Raise(c, rotates)
  BY <1>1, <1>2, BrokenOff
<1>3. CASE /\ \E answer \in Answers(Due(c)) : Possible(c, Due(c), answer) /\ Effect(c, Due(c), answer)
           /\ \E rotates \in BOOLEAN : Raise(c, rotates)
  BY <1>1, <1>3, BrokenEffect
<1> QED
  BY <1>2, <1>3 DEF CallRaises

\* A refused argument keeps the invariant.
LEMMA RefuseHolds ==
    ASSUME OpsInv, NEW c \in OpCallers, Refuse(c)
    PROVE  OpsInv'
BY BrokenOff DEF Refuse

\* A run that is done keeps the invariant: of a sharing operation that asked for a level,
\* the level is set.
LEMMA CloseClientHolds ==
    ASSUME OpsInv, NEW c \in OpCallers, CloseClient(c)
    PROVE  OpsInv'
<1>1. CASE \E rotates \in BOOLEAN : Raise(c, rotates)
  BY <1>1, BrokenOff DEF CloseClient
<1>2. CASE Return(c, "ok") /\ opsPast' = [opsPast EXCEPT !.unleveled = @ \/ doing[c].op = "share"]
  <2>1. PICK l : l = doing[c]
    OBVIOUS
  <2>2. PICK m : m = [l EXCEPT !.at = "idle", !.result = "ok"]
    OBVIOUS
  <2>3. /\ l \in Doing /\ RunHolds(l) /\ OpsTypeOK /\ doing \in [OpCallers -> Doing] /\ l.at = "call" /\ LevelKept
        /\ files \in [OpCallers -> Nat] /\ ItemHolds(l, files[c]) /\ UNCHANGED <<items, files, sharing>>
        /\ opsPast \in [begun : Nat, unleveled : BOOLEAN] /\ l.pos > Len(Calls[l.op])
    BY <2>1 DEF OpsInv, OpsTypeOK, CloseClient, Finished
  <2>4. /\ m \in Doing /\ doing' = [doing EXCEPT ![c] = m] /\ m.call = l.call /\ m.pos = l.pos /\ m.op = l.op
        /\ m.at = "idle" /\ m.result = "ok" /\ m.acct = l.acct /\ m.item = l.item
    BY <1>2, <2>1, <2>2, <2>3 DEF Doing, Return
  <2>5. /\ opsPast' \in [begun : Nat, unleveled : BOOLEAN] /\ opsPast'.begun = opsPast.begun
        /\ opsPast'.unleveled = (opsPast.unleveled \/ l.op = "share")
    BY <1>2, <2>1, <2>3
  <2>6. RunStep(c, l, m)
    BY <2>1, <2>4, <2>5 DEF RunStep
  <2>7. l.op \in DOMAIN Calls /\ l.call > 0 /\ l.call <= opsPast.begun /\ l.level # 0
        /\ l.pos \in 1..(Len(Calls[l.op]) + 1)
    BY <2>3 DEF RunHolds
  <2>8. PICK n \in 1..3 : n = Len(Calls[l.op])
    BY <2>7, CallFacts
  <2>9. l.pos = n + 1
    BY <2>3, <2>7, <2>8
  <2>10. RunHolds(m)'
    BY <2>4, <2>5, <2>7, <2>8, <2>9 DEF RunHolds
  <2>11. PICK file : file = files'[c]
    OBVIOUS
  <2>12. ItemHolds(m, file)'
    <3>1. /\ HasMade(m)' <=> HasMade(l)
          /\ HasFetched(m)' <=> HasFetched(l)
      BY <2>4 DEF HasMade, HasFetched
    <3> QED
      BY <2>3, <2>4, <2>11, <3>1 DEF ItemHolds, Bound
  <2>13. LevelKept'
    <3>1. CASE l.op \in Sharing \ {"share"}
      <4>1. n = 2
        BY <2>7, <2>8, <3>1, CallFacts
      <4>2. sharing.level # 0
        BY <2>3, <2>9, <3>1, <4>1 DEF RunHolds
      <4> QED
        BY <2>3, <4>2 DEF LevelKept
    <3>2. CASE l.op = "share"
      BY <2>5, <3>2 DEF LevelKept
    <3>3. CASE l.op \notin Sharing
      <4>1. ASSUME NEW d \in OpCallers, doing[d].op \in Sharing, doing[d].at = "call"
            PROVE  doing'[d].op \in Sharing /\ doing'[d].at = "call"
        BY <2>1, <2>3, <2>4, <3>3, <4>1
      <4> QED
        BY <2>3, <2>5, <4>1 DEF LevelKept
    <3> QED
      BY <3>1, <3>2, <3>3
  <2>14. ItemsStep(l) /\ Len(items') = Len(items) /\ Len(items) \in Nat
    BY <2>3, ItemsStay DEF OpsTypeOK
  <2> QED
    BY <2>3, <2>6, <2>10, <2>11, <2>12, <2>13, <2>14, Combined DEF OpsTypeOK
<1> QED
  BY <1>1, <1>2 DEF CloseClient

\* A step of a run that is between its attempts: the service is not called.
LEMMA QuietStep ==
    ASSUME OpsInv, NEW c \in OpCallers, NEW l, l = doing[c], l.at # "call", NEW m \in Doing,
           doing' = [doing EXCEPT ![c] = m], UNCHANGED <<items, files, sharing>>,
           opsPast' \in [begun : Nat, unleveled : BOOLEAN], opsPast'.begun >= opsPast.begun,
           opsPast'.unleveled = opsPast.unleveled, m.call = l.call \/ m.call > opsPast.begun,
           RunHolds(m)', NEW file, file = files[c], ItemHolds(m, file)'
    PROVE  OpsInv'
<1>1. /\ OpsTypeOK /\ doing \in [OpCallers -> Doing] /\ LevelKept /\ OneEach /\ opsPast \in [begun : Nat, unleveled : BOOLEAN]
      /\ doing' \in [OpCallers -> Doing] /\ doing'[c] = m /\ \A d \in OpCallers : d # c => doing'[d] = doing[d]
      /\ items \in Seq(ItemRow)
  BY DEF OpsInv, OpsTypeOK
<1>2. OpsTypeOK'
  BY <1>1 DEF OpsTypeOK
<1>3. OneEach'
  <2>1. \A i \in DOMAIN items : items[i] \in ItemRow
    BY <1>1
  <2> QED
    BY <1>1, <2>1 DEF OneEach, ItemRow
<1>4. ASSUME NEW d \in OpCallers
      PROVE  RunHolds(doing[d])' /\ ItemHolds(doing[d], files[d])'
  <2>1. CASE d = c
    <3>1. RunHolds(doing[d])' <=> RunHolds(m)'
      BY <1>1, <2>1 DEF RunHolds, HasMade
    <3>2. ItemHolds(doing[d], files[d])' <=> ItemHolds(m, file)'
      BY <1>1, <2>1 DEF ItemHolds, HasMade, HasFetched, Bound
    <3> QED
      BY <3>1, <3>2
  <2>2. CASE d # c
    <3>1. doing'[d] = doing[d] /\ RunHolds(doing[d]) /\ ItemHolds(doing[d], files[d]) /\ doing[d].call \in Nat
      BY <1>1, <2>2 DEF OpsInv, Doing
    <3>2. RunHolds(doing[d])'
      BY <1>1, <3>1 DEF RunHolds, HasMade
    <3>3. ItemHolds(doing[d], files[d])'
      BY <3>1 DEF ItemHolds, HasMade, HasFetched, Bound
    <3> QED
      BY <3>2, <3>3
  <2> QED
    BY <2>1, <2>2
<1>5. \A d, e \in OpCallers : doing'[d].call = doing'[e].call /\ doing'[d].call > 0 => d = e
  <2>1. \A d \in OpCallers : doing[d].call \in Nat /\ doing[d].call <= opsPast.begun
    BY <1>1 DEF OpsInv, RunHolds, Doing
  <2>2. \A d, e \in OpCallers : doing[d].call = doing[e].call /\ doing[d].call > 0 => d = e
    BY DEF OpsInv
  <2>3. CASE m.call = l.call
    <3>1. \A d \in OpCallers : doing'[d].call = doing[d].call
      BY <1>1, <2>3
    <3> QED
      BY <2>2, <3>1
  <2>4. CASE m.call > opsPast.begun
    <3>1. \A d \in OpCallers : d # c => doing'[d].call = doing[d].call /\ doing'[d].call # m.call
      BY <1>1, <2>1, <2>4
    <3> QED
      BY <1>1, <2>2, <3>1
  <2> QED
    BY <2>3, <2>4
<1>6. LevelKept'
  <2>1. ASSUME NEW d \in OpCallers, doing[d].op \in Sharing, doing[d].at = "call"
        PROVE  doing'[d].op \in Sharing /\ doing'[d].at = "call"
    BY <1>1, <2>1
  <2> QED
    BY <1>1, <2>1 DEF LevelKept
<1> QED
  BY <1>2, <1>3, <1>4, <1>5, <1>6 DEF OpsInv

\* A new call has an identity that no item has.
LEMMA DemandHolds ==
    ASSUME OpsInv, NEW c \in OpCallers, Demand(c)
    PROVE  OpsInv'
<1>0. PICK op \in Wanted[c], budget \in Rotations, level \in 1..2 :
         \E noticed \in Stages(op) :
             doing' = [doing EXCEPT ![c] = [NoCall EXCEPT !.at = "pick", !.op = op, !.noticed = noticed, !.budget = budget,
                                                          !.level = level, !.call = opsPast.begun + 1]]
  BY DEF Demand
<1>1. PICK noticed \in Stages(op) :
          doing' = [doing EXCEPT ![c] = [NoCall EXCEPT !.at = "pick", !.op = op, !.noticed = noticed, !.budget = budget,
                                                       !.level = level, !.call = opsPast.begun + 1]]
  BY <1>0
<1>2. PICK m : m = [NoCall EXCEPT !.at = "pick", !.op = op, !.noticed = noticed, !.budget = budget,
                                  !.level = level, !.call = opsPast.begun + 1]
  OBVIOUS
<1>3. /\ OpsTypeOK /\ OneEach /\ opsPast.begun \in Nat /\ doing[c].at = "idle" /\ UNCHANGED <<items, files, sharing>>
      /\ opsPast' \in [begun : Nat, unleveled : BOOLEAN] /\ opsPast'.begun = opsPast.begun + 1
      /\ opsPast'.unleveled = opsPast.unleveled
  <2>1. OpsTypeOK /\ OneEach
    BY DEF OpsInv
  <2>2. opsPast \in [begun : Nat, unleveled : BOOLEAN] /\ opsPast' = [opsPast EXCEPT !.begun = @ + 1]
    BY <2>1 DEF OpsTypeOK, Demand
  <2> QED
    BY <2>1, <2>2 DEF Demand
<1>4. m = [at |-> "pick", op |-> op, noticed |-> noticed, budget |-> budget, call |-> opsPast.begun + 1, level |-> level,
           acct |-> 0, tried |-> {}, pos |-> 1, item |-> 0, result |-> "none"]
  BY <1>2 DEF NoCall
<1>5. op \in DOMAIN Calls /\ budget \in Nat /\ noticed \in {"never", "first", "midway", "last"}
  BY WantedAssumption, OpsAssumption DEF Stages
<1>6. m \in Doing
  BY <1>3, <1>4, <1>5 DEF Doing, OpNames
<1>7. RunHolds(m)'
  <2>1. \A i \in DOMAIN items : items[i].by # m.call
    <3>1. \A i \in DOMAIN items : items[i] \in ItemRow /\ items[i].by <= opsPast.begun
      BY <1>3 DEF OneEach, OpsTypeOK
    <3> QED
      BY <1>3, <1>4, <3>1 DEF ItemRow
  <2> QED
    BY <1>3, <1>4, <1>5, <2>1 DEF RunHolds
<1>8. PICK file : file = files[c]
  OBVIOUS
<1>9. ItemHolds(m, file)'
  BY <1>4 DEF ItemHolds, Bound
<1>10. m.call > opsPast.begun /\ opsPast'.begun >= opsPast.begun
  BY <1>3, <1>4
<1>11. doing' = [doing EXCEPT ![c] = m]
  BY <1>1, <1>2
<1> QED
  BY <1>3, <1>6, <1>7, <1>8, <1>9, <1>10, <1>11, QuietStep

\* An account that was not tried holds nothing of this call.
LEMMA PickOneHolds ==
    ASSUME OpsInv, NEW c \in OpCallers, PickOne(c)
    PROVE  OpsInv'
<1>1. PICK l : l = doing[c]
  OBVIOUS
<1>2. /\ OpsTypeOK /\ l \in Doing /\ RunHolds(l) /\ l.at = "pick" /\ UNCHANGED <<items, files, sharing>>
      /\ opsPast' = opsPast /\ opsPast \in [begun : Nat, unleveled : BOOLEAN] /\ doing \in [OpCallers -> Doing] /\ items # <<>>
      /\ items \in Seq(ItemRow)
  BY <1>1 DEF OpsInv, OpsTypeOK, PickOne
<1>3. PICK file : file = files[c]
  OBVIOUS
<1>o. /\ opsPast' \in [begun : Nat, unleveled : BOOLEAN] /\ opsPast'.begun >= opsPast.begun
      /\ opsPast'.unleveled = opsPast.unleveled
  BY <1>2
<1>4. CASE Return(c, "unavailable")
  <2>1. PICK m : m = [l EXCEPT !.at = "idle", !.result = "unavailable"]
    OBVIOUS
  <2>2. m \in Doing /\ doing' = [doing EXCEPT ![c] = m] /\ m.call = l.call /\ m.at = "idle" /\ m.result = "unavailable"
    BY <1>1, <1>2, <1>4, <2>1 DEF Doing, Return
  <2>3. RunHolds(m)'
    BY <1>2, <2>2 DEF RunHolds
  <2>4. ItemHolds(m, file)'
    BY <2>2 DEF ItemHolds, Bound
  <2> QED
    BY <1>1, <1>2, <1>3, <1>o, <2>2, <2>3, <2>4, QuietStep
<1>5. ASSUME NEW a \in PoolAccounts, a \notin l.tried,
             doing' = [doing EXCEPT ![c].at = "call", ![c].acct = a, ![c].pos = 1,
                                    ![c].item = IF doing[c].op \in Old THEN 1 ELSE 0,
                                    ![c].tried = Remembered(@, a)]
      PROVE  OpsInv'
  <2>1. PICK k \in 0..1 : k = IF l.op \in Old THEN 1 ELSE 0
    OBVIOUS
  <2>2. PICK m : m = [l EXCEPT !.at = "call", !.acct = a, !.pos = 1, !.item = k, !.tried = @ \cup {a}]
    OBVIOUS
  <2>3. doing' = [doing EXCEPT ![c] = m]
    BY <1>1, <1>2, <1>5, <2>1, <2>2 DEF Remembered
  <2>4. /\ m \in Doing /\ m.call = l.call /\ m.at = "call" /\ m.acct = a /\ m.pos = 1 /\ m.item = k
        /\ m.tried = l.tried \cup {a} /\ m.op = l.op /\ m.level = l.level /\ m.result = l.result
    <3>1. PICK tried \in SUBSET PoolAccounts : tried = l.tried \cup {a}
      BY <1>2 DEF Doing
    <3>2. m = [l EXCEPT !.at = "call", !.acct = a, !.pos = 1, !.item = k, !.tried = tried]
      BY <1>2, <2>2, <3>1 DEF Doing
    <3>3. PICK acct \in PoolAccounts \cup {0} : acct = a
      BY <1>5
    <3>4. m \in Doing
      BY <1>2, <2>1, <3>1, <3>2, <3>3 DEF Doing
    <3> QED
      BY <1>2, <3>1, <3>2, <3>4 DEF Doing
  <2>5. l.op \in DOMAIN Calls /\ l.call > 0 /\ l.call <= opsPast.begun /\ l.level # 0 /\ l.result = "none"
        /\ \A i \in DOMAIN items : items[i].by = l.call => items[i].acct \in l.tried
    BY <1>2 DEF RunHolds
  <2>6. PICK n \in 1..3 : n = Len(Calls[l.op])
    BY <2>5, CallFacts
  <2>7. m.pos \in 1..(Len(Calls[m.op]) + 1) /\ 1..(m.pos - 1) = {}
    BY <2>4, <2>6
  <2>8. RunHolds(m)'
    BY <1>2, <1>5, <2>4, <2>5, <2>7 DEF RunHolds
  <2>9. ~HasMade(m)' /\ ~HasFetched(m)'
    BY <2>7 DEF HasMade, HasFetched
  <2>10. m.op \in Old => m.item \in DOMAIN items
    BY <1>2, <2>1, <2>4
  <2>11. ItemHolds(m, file)'
    BY <1>2, <2>9, <2>10 DEF ItemHolds
  <2> QED
    BY <1>1, <1>2, <1>3, <1>o, <2>3, <2>4, <2>8, <2>11, QuietStep
<1> QED
  BY <1>1, <1>4, <1>5 DEF PickOne

\* The invariant holds at the start.
LEMMA OpsInitHolds ==
    ASSUME OpsInit
    PROVE  OpsInv
<1>1. PICK row : row = [by |-> 0, acct |-> 0, state |-> "pending"] /\ items = <<row>>
  BY DEF OpsInit
<1>2. items \in Seq(ItemRow) /\ items # <<>> /\ DOMAIN items = {1} /\ items[1] = row
  BY <1>1 DEF ItemRow, ItemStates
<1>3. NoCall \in Doing
  BY DEF NoCall, Doing, OpNames
<1>4. OpsTypeOK
  BY <1>2, <1>3 DEF OpsInit, OpsTypeOK
<1>5. \A c \in OpCallers : doing[c] = NoCall /\ RunHolds(doing[c]) /\ ItemHolds(doing[c], files[c])
  BY DEF OpsInit, NoCall, RunHolds, ItemHolds, Bound
<1> QED
  BY <1>1, <1>2, <1>4, <1>5 DEF OpsInit, OpsInv, OneEach, LevelKept, NoCall

\* It is inductive.
LEMMA OpsInvariant == OpsInit /\ [][OpsNext]_opsVars => []OpsInv
<1>1. OpsInit => OpsInv
  BY OpsInitHolds
<1>2. OpsInv /\ [OpsNext]_opsVars => OpsInv'
  <2> SUFFICES ASSUME OpsInv, [OpsNext]_opsVars
               PROVE  OpsInv'
    OBVIOUS
  <2>1. ASSUME NEW c \in OpCallers, Demand(c)
        PROVE  OpsInv'
    BY <2>1, DemandHolds
  <2>2. ASSUME NEW c \in OpCallers, PickOne(c)
        PROVE  OpsInv'
    BY <2>2, PickOneHolds
  <2>3. ASSUME NEW c \in OpCallers, Refuse(c)
        PROVE  OpsInv'
    BY <2>3, RefuseHolds
  <2>4. ASSUME NEW c \in OpCallers, CallService(c)
        PROVE  OpsInv'
    BY <2>4, CallServiceHolds
  <2>5. ASSUME NEW c \in OpCallers, CallRaises(c)
        PROVE  OpsInv'
    BY <2>5, CallRaisesHolds
  <2>6. ASSUME NEW c \in OpCallers, CloseClient(c)
        PROVE  OpsInv'
    BY <2>6, CloseClientHolds
  <2>7. CASE UNCHANGED opsVars
    BY <2>7 DEF opsVars, OpsInv, OneEach, LevelKept, OpsTypeOK, RunHolds, ItemHolds, HasMade, HasFetched, Bound
  <2> QED
    BY <2>1, <2>2, <2>3, <2>4, <2>5, <2>6, <2>7 DEF OpsNext
<1> QED
  BY <1>1, <1>2, PTL

\* Whatever is called, by however many callers, on whatever accounts and however often it is
\* run again: what a call returns is the last item it made, complete and in the file; the
\* attempts of a call leave at most one item on an account; and nobody was let in at a level
\* that nobody chose (run_with_pool and its op_fns).
THEOREM CompositesHold == OpsInit /\ [][OpsNext]_opsVars => []OpsHold
<1>1. OpsInv => OpsHold
  <2> SUFFICES ASSUME OpsInv
               PROVE  OpsHold
    OBVIOUS
  <2>1. ASSUME NEW c \in OpCallers, doing[c].result = "ok", doing[c].op \notin Sharing
        PROVE  /\ doing[c].op \notin Old => items[doing[c].item].by = doing[c].call /\ items[doing[c].item].acct = doing[c].acct
               /\ (\E k \in 1..Len(Calls[doing[c].op]) : Calls[doing[c].op][k] = "download") =>
                      files[c] = doing[c].item /\ items[doing[c].item].state = "completed"
               /\ doing[c].op \in DOMAIN SourceCalls => items[doing[c].item].state = "ready"
    <3>1. PICK l : l = doing[c]
      OBVIOUS
    <3>2. l \in Doing /\ RunHolds(l) /\ ItemHolds(l, files[c]) /\ l.result = "ok"
      BY <2>1, <3>1 DEF OpsInv, OpsTypeOK
    <3>3. l.at = "idle" /\ l.op \in DOMAIN Calls /\ Bound(l) /\ l.pos = Len(Calls[l.op]) + 1
      BY <3>2 DEF RunHolds, Doing, Bound
    <3>4. PICK n \in 1..3 : n = Len(Calls[l.op])
      BY <3>3, CallFacts
    <3>5. 1..(l.pos - 1) = 1..Len(Calls[l.op])
      BY <3>3, <3>4
    <3>6. l.op \notin Old => HasMade(l)
      BY <2>1, <3>1, <3>3, <3>5, CallFacts DEF HasMade
    <3>7. ASSUME NEW k \in 1..Len(Calls[l.op]), Calls[l.op][k] = "download"
          PROVE  HasFetched(l)
      BY <3>5, <3>7 DEF HasFetched
    <3>8. l.op \in DOMAIN SourceCalls => l.op \notin Old
      BY ShapesOfCalls DEF Old
    <3> QED
      BY <3>1, <3>2, <3>3, <3>6, <3>7, <3>8 DEF ItemHolds
  <2>2. ResultIsReal
    BY <2>1 DEF ResultIsReal
  <2>3. OneItemPerAccount
    BY DEF OpsInv, OneEach, OneItemPerAccount, ItemsOf
  <2>4. LevelIsAsked
    BY DEF OpsInv, LevelKept, LevelIsAsked
  <2> QED
    BY <2>2, <2>3, <2>4 DEF OpsHold
<1> QED
  BY <1>1, OpsInvariant, PTL

-----------------------------------------------------------------------------
(* The mirror: what the invariant says of the profile, of what is proposed *)
(* about it and of the plan.  Nothing in it is about the notes as they are *)
(* now, which the user goes on writing.                                    *)

Linked(was, n, m) == n # m /\ (m \in was[n].links \/ n \in was[m].links)
ToolsNote(n) == n.type = "ai" \/ n.owner = "noeticbraid" \/ n.named \/ n.folder \in AiMarked
UsersNote(n) == ~(n.type = "ai" /\ n.owner # "user")

\* Every folder of the tool and of the user has been given to them.
ToolsFolder(p, f) ==
    \/ f \in p.config.ai
    \/ /\ ~InZones(f, p.config.raw)
       /\ InZones(f, p.config.ai) \/ \E n \in DOMAIN p.notes : p.notes[n].folder = f /\ ToolsNote(p.notes[n])
UsersFolder(p, f) ==
    \/ f \in p.config.raw \/ InZones(f, p.config.raw)
    \/ \E n \in DOMAIN p.notes : p.notes[n].folder = f /\ UsersNote(p.notes[n])

\* Every risk that calls for action is there.
RiskIsReal(p, r) ==
    /\ r.code \in {"missing_index", "missing_project_index"} =>
        /\ \E n \in DOMAIN p.notes : p.notes[n].folder = r.folder
        /\ \A n \in DOMAIN p.notes : p.notes[n].folder = r.folder => ~p.notes[n].index
    /\ r.code = "orphan_cluster" =>
        /\ \A n \in r.evidence, m \in DOMAIN p.notes : ~Linked(p.notes, n, m)
        /\ <<r.folder, r.evidence>> \in p.orphans
    /\ r.code = "ambiguous_ai_zone" => ~InZones(r.folder, p.ai)

SameRisk(r, s) == r.code = s.code /\ r.folder = s.folder
CallsForAction(p) == {r \in p.risks : r.code \in Actionable}

ProfileIsReal(p) ==
    /\ \A f \in p.ai : ToolsFolder(p, f)
    /\ \A f \in p.raw : UsersFolder(p, f)
    /\ \A r \in CallsForAction(p) : RiskIsReal(p, r)
    /\ \A r, s \in CallsForAction(p) : SameRisk(r, s) => r = s

ReportGroups(side) == [t \in {"fact", "hypothesis", "challenge", "action"} |-> Group(side, t)]

ProposedHolds ==
    /\ proposed = [suggestions |-> proposed.suggestions, side |-> proposed.side, digestions |-> proposed.digestions,
                   report |-> proposed.report, failed |-> proposed.failed]
    /\ proposed.suggestions # {} => Profiled /\ proposed.suggestions = {Suggestion(r) : r \in CallsForAction(profile)}
    /\ proposed.side # {} =>
        Profiled /\ proposed.side = SideNotes(profile) /\ proposed.digestions = {Digestion(n) : n \in proposed.side}
    /\ proposed.report # {} => proposed.side # {}
    /\ \A r \in proposed.report : r.groups = ReportGroups(proposed.side) /\ r.digestions = proposed.digestions

PlanHolds ==
    plan # NoPlan =>
        /\ Lint(plan) = {}
        /\ \A n \in plan.sources : \A e \in {"ingestion", "compilation"} : Log(e, {n}) \in plan.logs
        /\ UNION plan.output = {c.source : c \in plan.compiled}

MirrorInv ==
    /\ profile.known \in BOOLEAN
    /\ Profiled => ProfileIsReal(profile)
    /\ ProposedHolds /\ PlanHolds

-----------------------------------------------------------------------------
\* A zone is inferred from the settings, or else from what the note says.
LEMMA ZoneFacts ==
    ASSUME NEW n
    PROVE  /\ InferredZone(n) = "ai_allowed" =>
                ~InZones(n.folder, config.raw) /\ (InZones(n.folder, config.ai) \/ ToolsNote(n))
           /\ InferredZone(n) = "raw_user" => InZones(n.folder, config.raw) \/ UsersNote(n)
BY Zenon DEF InferredZone, InferredOwner, InferredType, ToolsNote, UsersNote

\* A risk that calls for action is one of four, and the folder says the rest of it.
LEMMA RiskFacts ==
    ASSUME NEW ai, NEW r \in Risks(ai), r.code \in Actionable
    PROVE  \/ r.folder \in MissingIndexes /\ r = Risk(IndexCode(r.folder), r.folder, {r.folder})
           \/ r.folder \in Orphans /\ r = Risk("orphan_cluster", r.folder, Weak(r.folder))
           \/ r.folder \in Untemplated /\ r = Risk("missing_frontmatter_template", r.folder, Bare(r.folder))
           \/ r.folder \in AmbiguousAi(ai) /\ r = Risk("ambiguous_ai_zone", r.folder, {r.folder})
<1>1. CASE r \in {Risk(IndexCode(f), f, {f}) : f \in MissingIndexes}
  <2>1. PICK f \in MissingIndexes : r = Risk(IndexCode(f), f, {f})
    BY <1>1
  <2> QED
    BY <2>1 DEF Risk
<1>2. CASE r \in {Risk("orphan_cluster", f, Weak(f)) : f \in Orphans}
  <2>1. PICK f \in Orphans : r = Risk("orphan_cluster", f, Weak(f))
    BY <1>2
  <2> QED
    BY <2>1 DEF Risk
<1>3. CASE r \in {Risk("missing_frontmatter_template", f, Bare(f)) : f \in Untemplated}
  <2>1. PICK f \in Untemplated : r = Risk("missing_frontmatter_template", f, Bare(f))
    BY <1>3
  <2> QED
    BY <2>1 DEF Risk
<1>4. CASE r \in {Risk("ambiguous_ai_zone", f, {f}) : f \in AmbiguousAi(ai)}
  <2>1. PICK f \in AmbiguousAi(ai) : r = Risk("ambiguous_ai_zone", f, {f})
    BY <1>4
  <2> QED
    BY <2>1 DEF Risk
<1>5. ASSUME r \in {Risk("duplicate_topic_name", CHOOSE f \in t : TRUE, t) : t \in Twins} PROVE FALSE
  <2>1. PICK t \in Twins : r = Risk("duplicate_topic_name", CHOOSE f \in t : TRUE, t)
    BY <1>5
  <2> QED
    BY <2>1 DEF Risk, Actionable
<1> QED
  BY <1>1, <1>2, <1>3, <1>4, <1>5 DEF Risks

LEMMA IndexCodes == ASSUME NEW f PROVE IndexCode(f) \in {"missing_index", "missing_project_index"}
BY DEF IndexCode

LEMMA RiskIsOne ==
    ASSUME NEW ai, NEW r \in Risks(ai), NEW s \in Risks(ai), r.code \in Actionable, s.code \in Actionable, SameRisk(r, s)
    PROVE  r = s
<1>1. r.code = s.code /\ r.folder = s.folder
  BY DEF SameRisk
<1> DEFINE f == r.folder
<1>2. \/ r = Risk(IndexCode(f), f, {f})
      \/ r = Risk("orphan_cluster", f, Weak(f))
      \/ r = Risk("missing_frontmatter_template", f, Bare(f))
      \/ r = Risk("ambiguous_ai_zone", f, {f})
  BY RiskFacts
<1>3. \/ s = Risk(IndexCode(f), f, {f})
      \/ s = Risk("orphan_cluster", f, Weak(f))
      \/ s = Risk("missing_frontmatter_template", f, Bare(f))
      \/ s = Risk("ambiguous_ai_zone", f, {f})
  BY RiskFacts, <1>1
<1>4. IndexCode(f) \in {"missing_index", "missing_project_index"}
  BY IndexCodes
<1> HIDE DEF f
<1> QED
  BY <1>1, <1>2, <1>3, <1>4 DEF Risk

\* What ScanVault sees of the vault is real.
LEMMA OrphansAreUnlinked ==
    ASSUME NEW f, NEW n \in Weak(f), NEW m \in DOMAIN notes
    PROVE  ~Linked(notes, n, m)
BY DEF Weak, In, Unlinked, Incoming, Linked

LEMMA IndexesAreMissing ==
    ASSUME NEW f \in MissingIndexes
    PROVE  /\ \E n \in DOMAIN notes : notes[n].folder = f
           /\ \A n \in DOMAIN notes : notes[n].folder = f => ~notes[n].index
BY DEF MissingIndexes, In, HasIndex

Scanned(ai) ==
    [known |-> TRUE, failed |-> FALSE, notes |-> notes, config |-> config, ai |-> ai,
     raw |-> config.raw \cup Zoned("raw_user"),
     missing |-> MissingIndexes, orphans |-> {<<f, Weak(f)>> : f \in Orphans}, risks |-> Risks(ai)]

LEMMA ScannedIsReal ==
    ASSUME NEW ai, ai = config.ai \cup Zoned("ai_allowed"), NEW p, p = Scanned(ai)
    PROVE  ProfileIsReal(p)
<1>1. /\ p.notes = notes /\ p.config = config /\ p.ai = ai /\ p.raw = config.raw \cup Zoned("raw_user")
      /\ p.orphans = {<<f, Weak(f)>> : f \in Orphans} /\ p.risks = Risks(ai)
  BY DEF Scanned
<1>2. ASSUME NEW f \in ai PROVE ToolsFolder(p, f)
  <2>1. CASE f \in config.ai
    BY <1>1, <2>1 DEF ToolsFolder
  <2>2. CASE f \in Zoned("ai_allowed")
    <3>1. PICK n \in DOMAIN notes : InferredZone(notes[n]) = "ai_allowed" /\ f = notes[n].folder
      BY <2>2 DEF Zoned
    <3>2. ~InZones(f, config.raw) /\ (InZones(f, config.ai) \/ ToolsNote(notes[n]))
      BY <3>1, ZoneFacts
    <3> QED
      BY <1>1, <3>1, <3>2 DEF ToolsFolder
  <2> QED
    BY <2>1, <2>2
<1>3. ASSUME NEW f \in p.raw PROVE UsersFolder(p, f)
  <2>1. CASE f \in config.raw
    BY <1>1, <2>1 DEF UsersFolder
  <2>2. CASE f \in Zoned("raw_user")
    <3>1. PICK n \in DOMAIN notes : InferredZone(notes[n]) = "raw_user" /\ f = notes[n].folder
      BY <2>2 DEF Zoned
    <3>2. InZones(f, config.raw) \/ UsersNote(notes[n])
      BY <3>1, ZoneFacts
    <3> QED
      BY <1>1, <3>1, <3>2 DEF UsersFolder
  <2> QED
    BY <1>1, <2>1, <2>2
<1>4. ASSUME NEW r \in CallsForAction(p) PROVE RiskIsReal(p, r)
  <2>1. r \in Risks(ai) /\ r.code \in Actionable
    BY <1>1 DEF CallsForAction
  <2>2. CASE r.folder \in MissingIndexes /\ r = Risk(IndexCode(r.folder), r.folder, {r.folder})
    <3>1. r.code \in {"missing_index", "missing_project_index"}
      BY <2>2, IndexCodes DEF Risk
    <3> QED
      BY <1>1, <2>2, <3>1, IndexesAreMissing DEF RiskIsReal
  <2>3. CASE r.folder \in Orphans /\ r = Risk("orphan_cluster", r.folder, Weak(r.folder))
    <3>1. r.code = "orphan_cluster" /\ r.evidence = Weak(r.folder)
      BY <2>3 DEF Risk
    <3>2. \A n \in r.evidence, m \in DOMAIN notes : ~Linked(notes, n, m)
      BY <3>1, OrphansAreUnlinked
    <3>3. <<r.folder, r.evidence>> \in p.orphans
      BY <1>1, <2>3, <3>1
    <3> QED
      BY <1>1, <3>1, <3>2, <3>3 DEF RiskIsReal
  <2>4. CASE r.folder \in Untemplated /\ r = Risk("missing_frontmatter_template", r.folder, Bare(r.folder))
    <3>1. r.code = "missing_frontmatter_template"
      BY <2>4 DEF Risk
    <3> QED
      BY <3>1 DEF RiskIsReal
  <2>5. CASE r.folder \in AmbiguousAi(ai) /\ r = Risk("ambiguous_ai_zone", r.folder, {r.folder})
    <3>1. r.code = "ambiguous_ai_zone" /\ ~InZones(r.folder, ai)
      BY <2>5 DEF Risk, AmbiguousAi
    <3> QED
      BY <1>1, <3>1 DEF RiskIsReal
  <2> QED
    BY <2>1, <2>2, <2>3, <2>4, <2>5, RiskFacts
<1>5. ASSUME NEW r \in CallsForAction(p), NEW s \in CallsForAction(p), SameRisk(r, s) PROVE r = s
  BY <1>1, <1>5, RiskIsOne DEF CallsForAction
<1> QED
  BY <1>1, <1>2, <1>3, <1>4, <1>5 DEF ProfileIsReal

-----------------------------------------------------------------------------
(* The steps.                                                              *)

LEMMA MirrorBegins == ASSUME MirrorInit PROVE MirrorInv
<1>1. profile = [known |-> FALSE] /\ plan = NoPlan
  BY DEF MirrorInit, NoProfile
<1>2. profile.known = FALSE /\ ~Profiled
  BY <1>1 DEF Profiled
<1>3. proposed = [suggestions |-> {}, side |-> {}, digestions |-> {}, report |-> {}, failed |-> FALSE]
  BY DEF MirrorInit, Nothing
<1>4. ProposedHolds
  BY <1>3 DEF ProposedHolds
<1> QED
  BY <1>1, <1>2, <1>4 DEF MirrorInv, PlanHolds

LEMMA StillProfiled == ASSUME UNCHANGED profile PROVE Profiled' = Profiled
BY DEF Profiled

LEMMA ScanVaultKeeps == ASSUME MirrorInv, ScanVault PROVE MirrorInv'
<1> DEFINE ai == config.ai \cup Zoned("ai_allowed")
<1>1. /\ ~profile.known /\ plan = NoPlan /\ plan' = plan /\ proposed' = proposed
      /\ profile' = IF ScanFails(Risks(ai)) THEN [known |-> TRUE, failed |-> TRUE] ELSE Scanned(ai)
  BY DEF ScanVault, Scanned
<1>2. PICK p : p = profile'
  OBVIOUS
<1>3. p.known = TRUE /\ (~p.failed => p = Scanned(ai))
  BY <1>1, <1>2 DEF Scanned
<1>4. Profiled' => ProfileIsReal(p)
  BY <1>2, <1>3, ScannedIsReal DEF Profiled
<1>5. proposed.side = {} /\ proposed.suggestions = {}
  BY <1>1 DEF MirrorInv, ProposedHolds, Profiled
<1>6. ProposedHolds'
  <2>1. UNCHANGED proposed
    BY <1>1
  <2> QED
    BY <1>5, <2>1 DEF MirrorInv, ProposedHolds
<1>7. PlanHolds'
  BY <1>1 DEF PlanHolds
<1>8. Profiled' => ProfileIsReal(profile)'
  BY <1>2, <1>4
<1> QED
  BY <1>2, <1>3, <1>6, <1>7, <1>8 DEF MirrorInv

\* A step that neither scans nor compiles.
LEMMA ProfileStays ==
    ASSUME MirrorInv, UNCHANGED <<profile, plan>>, ProposedHolds' PROVE MirrorInv'
<1>1. (Profiled => ProfileIsReal(profile))'
  <2>1. ProfileIsReal(profile)' = ProfileIsReal(profile)
    BY DEF ProfileIsReal, CallsForAction, RiskIsReal, ToolsFolder, UsersFolder
  <2> QED
    BY <2>1, StillProfiled DEF MirrorInv
<1>2. PlanHolds'
  BY DEF MirrorInv, PlanHolds
<1> QED
  BY <1>1, <1>2 DEF MirrorInv

LEMMA SuggestKeeps == ASSUME MirrorInv, Suggest PROVE MirrorInv'
<1>1. /\ Profiled /\ UNCHANGED <<profile, plan>>
      /\ proposed' = [proposed EXCEPT !.suggestions = {Suggestion(r) : r \in CallsForAction(profile)}]
  BY DEF Suggest, CallsForAction
<1>2. Profiled'
  BY <1>1, StillProfiled
<1>3. PICK made : made = {Suggestion(r) : r \in CallsForAction(profile)}
  OBVIOUS
<1>4. made = {Suggestion(r) : r \in CallsForAction(profile)}'
  BY <1>1, <1>3
<1>5. proposed' = [suggestions |-> made, side |-> proposed.side, digestions |-> proposed.digestions,
                   report |-> proposed.report, failed |-> proposed.failed]
  BY <1>1, <1>3 DEF MirrorInv, ProposedHolds
<1>6. SideNotes(profile)' = SideNotes(profile)
  BY <1>1 DEF SideNotes
<1>7. ProposedHolds'
  BY <1>2, <1>4, <1>5, <1>6 DEF MirrorInv, ProposedHolds
<1> QED
  BY <1>1, <1>7, ProfileStays

LEMMA CommentKeeps == ASSUME MirrorInv, Comment PROVE MirrorInv'
<1>1. /\ Profiled /\ UNCHANGED <<profile, plan>> /\ proposed.side = {}
      /\ proposed' = [proposed EXCEPT !.side = SideNotes(profile),
                                      !.digestions = {Digestion(n) : n \in SideNotes(profile)}]
  BY DEF Comment
<1>2. Profiled'
  BY <1>1, StillProfiled
<1>3. PICK about, digested : about = SideNotes(profile) /\ digested = {Digestion(n) : n \in about}
  OBVIOUS
<1>4. about = SideNotes(profile)'
  BY <1>1, <1>3 DEF SideNotes
<1>5. proposed' = [suggestions |-> proposed.suggestions, side |-> about, digestions |-> digested,
                   report |-> proposed.report, failed |-> proposed.failed]
  BY <1>1, <1>3 DEF MirrorInv, ProposedHolds
<1>6. proposed.report = {}
  BY <1>1 DEF MirrorInv, ProposedHolds
<1>7. proposed.suggestions # {} => proposed.suggestions = {Suggestion(r) : r \in CallsForAction(profile)}'
  BY <1>1 DEF MirrorInv, ProposedHolds
<1>8. ProposedHolds'
  BY <1>2, <1>3, <1>4, <1>5, <1>6, <1>7 DEF ProposedHolds
<1> QED
  BY <1>1, <1>8, ProfileStays

LEMMA ReportKeeps == ASSUME MirrorInv, Report PROVE MirrorInv'
<1>1. proposed.side # {} /\ UNCHANGED <<profile, plan>>
  BY DEF Report
<1>2. PICK groups : groups = ReportGroups(proposed.side)
  OBVIOUS
<1>3. \/ proposed' = [proposed EXCEPT !.failed = TRUE]
      \/ proposed' = [proposed EXCEPT !.report = {GrowthReport(p, groups) : p \in {"daily", "weekly", "monthly"}}]
  BY <1>2 DEF Report, ReportGroups
<1>4. PICK reports : reports = {GrowthReport(p, groups) : p \in {"daily", "weekly", "monthly"}}
  OBVIOUS
<1>5. \E report \in {proposed.report, reports}, failed \in {proposed.failed, TRUE} :
        proposed' = [suggestions |-> proposed.suggestions, side |-> proposed.side,
                     digestions |-> proposed.digestions, report |-> report, failed |-> failed]
  BY <1>3, <1>4 DEF MirrorInv, ProposedHolds
<1>6. PICK report \in {proposed.report, reports}, failed \in {proposed.failed, TRUE} :
        proposed' = [suggestions |-> proposed.suggestions, side |-> proposed.side,
                     digestions |-> proposed.digestions, report |-> report, failed |-> failed]
  BY <1>5
<1>7. /\ proposed'.suggestions = proposed.suggestions /\ proposed'.side = proposed.side
      /\ proposed'.digestions = proposed.digestions /\ proposed'.report = report
  BY <1>6
<1>8. \A r \in reports : r.groups = ReportGroups(proposed.side) /\ r.digestions = proposed.digestions
  BY <1>2, <1>4 DEF GrowthReport
<1>9. \A r \in report : r.groups = ReportGroups(proposed'.side) /\ r.digestions = proposed'.digestions
  BY <1>7, <1>8 DEF MirrorInv, ProposedHolds
<1>10. SideNotes(profile)' = SideNotes(profile) /\ CallsForAction(profile)' = CallsForAction(profile) /\ Profiled' = Profiled
  BY <1>1, StillProfiled DEF SideNotes, CallsForAction
<1>11. proposed'.suggestions # {} => Profiled' /\ proposed'.suggestions = {Suggestion(r) : r \in CallsForAction(profile)'}
  BY <1>7, <1>10 DEF MirrorInv, ProposedHolds
<1>12. Profiled' /\ proposed'.side = SideNotes(profile)' /\ proposed'.digestions = {Digestion(n) : n \in proposed'.side}
  BY <1>1, <1>7, <1>10 DEF MirrorInv, ProposedHolds
<1>13. ProposedHolds'
  BY <1>1, <1>6, <1>7, <1>9, <1>11, <1>12 DEF ProposedHolds, ReportGroups, Group
<1> QED
  BY <1>1, <1>13, ProfileStays

\* A plan of what is compiled is complete.
LEMMA CompileKeeps == ASSUME MirrorInv, Compile PROVE MirrorInv'
<1>1. UNCHANGED <<profile, proposed>>
  BY DEF Compile
<1>2. PICK sources \in (SUBSET DOMAIN notes) \ {{}} :
        plan' = [sources |-> sources, compiled |-> {Wiki(n) : n \in sources}, output |-> {sources},
                 logs |-> {Log("ingestion", {n}) : n \in sources} \cup {Log("compilation", {n}) : n \in sources}
                          \cup {Log("output", sources)}]
  BY DEF Compile
<1>3. PICK p : p = plan'
  OBVIOUS
<1>4. /\ p.sources = sources /\ p.compiled = {Wiki(n) : n \in sources} /\ p.output = {sources}
      /\ p.logs = {Log("ingestion", {n}) : n \in sources} \cup {Log("compilation", {n}) : n \in sources}
                  \cup {Log("output", sources)}
  BY <1>2, <1>3
<1>5. \A n \in sources : Wiki(n).source = n
  BY DEF Wiki
<1>6. {c.source : c \in p.compiled} = sources
  BY <1>4, <1>5
<1>7. Log("output", sources) \in p.logs
  BY <1>4
<1>8. Lint(p) = {}
  <2>1. sources # {}
    OBVIOUS
  <2>2. \A c \in p.compiled : c.source \in p.sources
    BY <1>4, <1>5
  <2>3. \A o \in p.output : o \subseteq p.sources
    BY <1>4
  <2> QED
    BY <1>4, <1>7, <2>1, <2>2, <2>3 DEF Lint
<1>9. ASSUME NEW n \in p.sources, NEW e \in {"ingestion", "compilation"} PROVE Log(e, {n}) \in p.logs
  BY <1>4
<1>10. UNION p.output = sources
  BY <1>4
<1>11. PlanHolds'
  BY <1>3, <1>6, <1>8, <1>9, <1>10 DEF PlanHolds, Lint, Log
<1>12. ProposedHolds'
  BY <1>1 DEF MirrorInv, ProposedHolds, SideNotes, CallsForAction, Profiled, ReportGroups, Group
<1>13. (Profiled => ProfileIsReal(profile))'
  <2>1. ProfileIsReal(profile)' = ProfileIsReal(profile)
    BY <1>1 DEF ProfileIsReal, CallsForAction, RiskIsReal, ToolsFolder, UsersFolder
  <2> QED
    BY <1>1, <2>1, StillProfiled DEF MirrorInv
<1> QED
  BY <1>1, <1>11, <1>12, <1>13 DEF MirrorInv

LEMMA NothingProposed ==
    ASSUME MirrorInv, UNCHANGED <<profile, proposed, plan>> PROVE MirrorInv'
<1>1. ProposedHolds'
  BY DEF MirrorInv, ProposedHolds, SideNotes, CallsForAction, Profiled, ReportGroups, Group
<1> QED
  BY <1>1, ProfileStays

LEMMA MirrorStep == ASSUME MirrorInv, [MirrorNext]_mirrorVars PROVE MirrorInv'
<1>1. CASE ScanVault
  BY <1>1, ScanVaultKeeps
<1>2. CASE Suggest
  BY <1>2, SuggestKeeps
<1>3. CASE Comment
  BY <1>3, CommentKeeps
<1>4. CASE Report
  BY <1>4, ReportKeeps
<1>5. CASE Compile
  BY <1>5, CompileKeeps
<1>6. CASE Rewrite \/ UNCHANGED mirrorVars
  BY <1>6, NothingProposed DEF Rewrite, mirrorVars
<1> QED
  BY <1>1, <1>2, <1>3, <1>4, <1>5, <1>6 DEF MirrorNext

-----------------------------------------------------------------------------
(* What the invariant says of the mirror.                                  *)

\* A side note is of one of four types, and a fact is about a folder of the user.
LEMMA SideNoteFacts ==
    ASSUME NEW p, NEW n \in SideNotes(p)
    PROVE  /\ n.type \in {"fact", "hypothesis", "challenge", "action"}
           /\ n.type = "fact" => \E f \in p.raw : n = SideNote("fact", "raw zone", f, {f})
<1>1. CASE n \in {SideNote("fact", "raw zone", f, {f}) : f \in p.raw}
  <2>1. PICK f \in p.raw : n = SideNote("fact", "raw zone", f, {f})
    BY <1>1
  <2> QED
    BY <2>1 DEF SideNote
<1>2. CASE n \in {SideNote("hypothesis", "orphans", o[1], o[2]) : o \in p.orphans}
  <2>1. PICK o \in p.orphans : n = SideNote("hypothesis", "orphans", o[1], o[2])
    BY <1>2
  <2> QED
    BY <2>1 DEF SideNote
<1>3. CASE n \in {SideNote("challenge", "ai zone", r.folder, r.evidence) :
                   r \in {x \in p.risks : x.code = "ambiguous_ai_zone"}}
  <2>1. PICK r : n = SideNote("challenge", "ai zone", r.folder, r.evidence)
    BY <1>3
  <2> QED
    BY <2>1 DEF SideNote
<1>4. CASE n \in {SideNote("action", ActionFor(r.code), r.folder, r.evidence) :
                   r \in {x \in p.risks : x.code \in Actionable \ {"orphan_cluster", "ambiguous_ai_zone"}}}
  <2>1. PICK r : n = SideNote("action", ActionFor(r.code), r.folder, r.evidence)
    BY <1>4
  <2> QED
    BY <2>1 DEF SideNote
<1> QED
  BY <1>1, <1>2, <1>3, <1>4 DEF SideNotes

LEMMA RealIsGrounded == ASSUME MirrorInv PROVE MirrorIsGrounded
<1> SUFFICES ASSUME Profiled PROVE MirrorIsGrounded
  BY DEF MirrorIsGrounded
<1> DEFINE was == profile.notes
<1>1. ProfileIsReal(profile) /\ ProposedHolds
  BY DEF MirrorInv
<1>2. ASSUME NEW f \in profile.ai \ profile.config.ai
      PROVE  /\ ~InZones(f, profile.config.raw)
             /\ \/ InZones(f, profile.config.ai)
                \/ \E n \in DOMAIN was : was[n].folder = f /\ ToolsNote(was[n])
  BY <1>1 DEF ProfileIsReal, ToolsFolder
<1>3. ASSUME NEW s \in proposed.suggestions
      PROVE  /\ s.code \in {"missing_index", "missing_project_index"} =>
                  /\ \E n \in DOMAIN was : was[n].folder = s.folder
                  /\ \A n \in DOMAIN was : was[n].folder = s.folder => ~was[n].index
             /\ s.code = "orphan_cluster" => \A n \in s.evidence, m \in DOMAIN was : ~Linked(was, n, m)
             /\ s.action = "split_ai_zone" => ~InZones(s.folder, profile.ai)
  <2>1. PICK r \in CallsForAction(profile) : s = Suggestion(r)
    BY <1>1 DEF ProposedHolds
  <2>2. s.code = r.code /\ s.folder = r.folder /\ s.evidence = r.evidence /\ s.action = ActionFor(r.code)
    BY <2>1 DEF Suggestion
  <2>3. RiskIsReal(profile, r) /\ r.code \in Actionable
    BY <1>1 DEF ProfileIsReal, CallsForAction
  <2>4. s.action = "split_ai_zone" => r.code = "ambiguous_ai_zone"
    BY <2>2, <2>3 DEF ActionFor, Actionable
  <2> QED
    BY <2>2, <2>3, <2>4 DEF RiskIsReal
<1>4. ASSUME NEW n \in proposed.side, n.type = "fact"
      PROVE  \/ n.folder \in profile.config.raw \/ InZones(n.folder, profile.config.raw)
             \/ \E m \in DOMAIN was : was[m].folder = n.folder /\ UsersNote(was[m])
  <2>1. n \in SideNotes(profile)
    BY <1>1 DEF ProposedHolds
  <2>2. PICK f \in profile.raw : n = SideNote("fact", "raw zone", f, {f})
    BY <1>4, <2>1, SideNoteFacts
  <2>3. n.folder = f /\ UsersFolder(profile, f)
    BY <1>1, <2>2 DEF ProfileIsReal, SideNote
  <2> QED
    BY <2>3 DEF UsersFolder
<1> QED
  BY <1>2, <1>3, <1>4 DEF MirrorIsGrounded, Linked, ToolsNote, UsersNote

\* A risk that calls for action has its side note.
LEMMA RiskIsNoted ==
    ASSUME NEW p, ProfileIsReal(p), NEW r \in CallsForAction(p) PROVE \E n \in SideNotes(p) : n.evidence = r.evidence
<1>1. r \in p.risks /\ r.code \in Actionable
  BY DEF CallsForAction
<1>2. CASE r.code = "orphan_cluster"
  <2>1. PICK o : o = <<r.folder, r.evidence>>
    OBVIOUS
  <2>2. o[2] = r.evidence /\ o \in p.orphans
    BY <1>2, <2>1 DEF ProfileIsReal, RiskIsReal
  <2>3. SideNote("hypothesis", "orphans", o[1], o[2]) \in SideNotes(p)
    BY <2>2 DEF SideNotes
  <2> QED
    BY <2>2, <2>3 DEF SideNote
<1>3. CASE r.code = "ambiguous_ai_zone"
  <2>1. SideNote("challenge", "ai zone", r.folder, r.evidence) \in SideNotes(p)
    BY <1>1, <1>3 DEF SideNotes
  <2> QED
    BY <2>1 DEF SideNote
<1>4. CASE r.code \notin {"orphan_cluster", "ambiguous_ai_zone"}
  <2>1. SideNote("action", ActionFor(r.code), r.folder, r.evidence) \in SideNotes(p)
    BY <1>1, <1>4 DEF SideNotes
  <2> QED
    BY <2>1 DEF SideNote
<1> QED
  BY <1>2, <1>3, <1>4

\* A side note is of exactly one of the types.
LEMMA OneGroup ==
    ASSUME NEW side, side = SideNotes(profile), NEW n \in side, NEW groups, groups = ReportGroups(side)
    PROVE  Cardinality({t \in DOMAIN groups : n \in groups[t]}) = 1
<1>1. n.type \in {"fact", "hypothesis", "challenge", "action"}
  BY SideNoteFacts
<1>2. DOMAIN groups = {"fact", "hypothesis", "challenge", "action"}
  BY DEF ReportGroups
<1>3. \A t \in DOMAIN groups : n \in groups[t] <=> n.type = t
  BY DEF ReportGroups, Group
<1>4. {t \in DOMAIN groups : n \in groups[t]} = {n.type}
  BY <1>1, <1>2, <1>3
<1> QED
  BY <1>4, FS_Singleton

\* A risk that calls for action has one suggestion of its code and folder.
Suggested(p) == {Suggestion(r) : r \in CallsForAction(p)}
Alone(made, r) == Cardinality({s \in made : s.code = r.code /\ s.folder = r.folder}) = 1

LEMMA OneSuggestion ==
    ASSUME NEW p, ProfileIsReal(p), NEW r \in CallsForAction(p), NEW made, made = Suggested(p)
    PROVE  Alone(made, r)
<1>1. \A q \in CallsForAction(p) : Suggestion(q).code = q.code /\ Suggestion(q).folder = q.folder
  BY DEF Suggestion
<1>2. ASSUME NEW s \in made, s.code = r.code, s.folder = r.folder PROVE s = Suggestion(r)
  <2>1. PICK q \in CallsForAction(p) : s = Suggestion(q)
    BY DEF Suggested
  <2>2. SameRisk(q, r)
    BY <1>1, <1>2, <2>1 DEF SameRisk
  <2> QED
    BY <2>1, <2>2 DEF ProfileIsReal
<1>3. {s \in made : s.code = r.code /\ s.folder = r.folder} = {Suggestion(r)}
  BY <1>1, <1>2 DEF Suggested
<1> QED
  BY <1>3, FS_Singleton DEF Alone

LEMMA NothingLost == ASSUME MirrorInv PROVE NothingIsLost
<1>1. ProposedHolds /\ PlanHolds /\ (Profiled => ProfileIsReal(profile))
  BY DEF MirrorInv
<1>2. ASSUME proposed.suggestions # {}, NEW r \in profile.risks, r.code \in Actionable
      PROVE  Cardinality({s \in proposed.suggestions : s.code = r.code /\ s.folder = r.folder}) = 1
  <2>1. r \in CallsForAction(profile) /\ ProfileIsReal(profile) /\ proposed.suggestions = Suggested(profile)
    BY <1>1, <1>2 DEF ProposedHolds, CallsForAction, Suggested
  <2>2. Alone(proposed.suggestions, r)
    BY <2>1, OneSuggestion
  <2> QED
    BY <2>2 DEF Alone
<1>3. ASSUME proposed.side # {}
      PROVE  /\ \A r \in profile.risks : r.code \in Actionable => \E n \in proposed.side : n.evidence = r.evidence
             /\ {d.note : d \in proposed.digestions} = proposed.side
  <2>1. /\ proposed.side = SideNotes(profile) /\ ProfileIsReal(profile)
        /\ proposed.digestions = {Digestion(n) : n \in proposed.side}
    BY <1>1, <1>3 DEF ProposedHolds
  <2>2. \A r \in CallsForAction(profile) : \E n \in proposed.side : n.evidence = r.evidence
    BY <2>1, RiskIsNoted
  <2>3. \A n \in proposed.side : Digestion(n).note = n
    BY DEF Digestion
  <2> QED
    BY <2>1, <2>2, <2>3 DEF CallsForAction
<1>4. ASSUME NEW r \in proposed.report, NEW n \in proposed.side
      PROVE  /\ Cardinality({t \in DOMAIN r.groups : n \in r.groups[t]}) = 1
             /\ \E d \in r.digestions : d.note = n
  <2>1. /\ proposed.side = SideNotes(profile) /\ proposed.digestions = {Digestion(m) : m \in proposed.side}
        /\ r.groups = ReportGroups(proposed.side) /\ r.digestions = proposed.digestions
    BY <1>1 DEF ProposedHolds
  <2>2. Digestion(n) \in r.digestions /\ Digestion(n).note = n
    BY <2>1 DEF Digestion
  <2> QED
    BY <2>1, <2>2, OneGroup
<1> QED
  BY <1>1, <1>2, <1>3, <1>4 DEF NothingIsLost, PlanHolds

\* Whatever the vault and the settings, and whatever the user writes after the scan: the
\* tool is given a folder only by the settings or by a note in it, what is suggested was
\* so when it was scanned, and no risk, comment or source is lost on the way (scanner.py,
\* candidates.py, reuse.py).
THEOREM MirrorIsTrue == MirrorInit /\ [][MirrorNext]_mirrorVars => []MirrorHolds
<1>1. MirrorInit => MirrorInv
  BY MirrorBegins
<1>2. MirrorInv /\ [MirrorNext]_mirrorVars => MirrorInv'
  BY MirrorStep
<1>3. MirrorInv => MirrorHolds
  BY RealIsGrounded, NothingLost DEF MirrorHolds
<1> QED
  BY <1>1, <1>2, <1>3, PTL
=============================================================================
