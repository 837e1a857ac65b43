------------------------------ MODULE LessonLoop ------------------------------
(***************************************************************************)
(* The OMC workspace: lessons that task cards leave behind, are reused by  *)
(* later task cards and adopted by the user.  omc_workspace/               *)
(* project_store.py (one JSON file, read and rewritten whole, through one  *)
(* temporary name), adoption.py, d2_01_adapter.py, cli_adopt.py and the    *)
(* routes of api/routes/projects.py, with the run ledger they append to.   *)
(*                                                                         *)
(* The handlers of the server do not await, so it serves one request at a  *)
(* time; the command line is a process of its own on the same files.       *)
(***************************************************************************)
EXTENDS Integers, FiniteSets, Functions

CONSTANTS
    Server,       \* the server process
    Clis,         \* processes of the command line
    MaxEvidence,  \* max_length of R6GateState.ledger_evidence_refs (100)
    MaxClock,     \* bound on the seconds that pass
    MaxSubmits,   \* bound on the task cards submitted
    MaxAdopts,    \* bound on the adoptions asked for
    MaxDeaths     \* bound on the processes killed

ASSUME LessonAssumption ==
    /\ Server \notin Clis
    /\ {MaxEvidence, MaxClock, MaxSubmits, MaxAdopts, MaxDeaths} \subseteq Nat
    /\ MaxEvidence > 0

Procs == {Server} \cup Clis

\* The seed lesson and the lesson of the project's only task card.
Lessons == {"help", "ingest"}

\* Run ids: the seed's, the one derived from the task, and those with the
\* second of the submission appended.
SeedRun == -1
BaseRun == 0

\* A lesson: reuses that its gate records, and adoptions by their second.  The
\* gate's adopted_at is set exactly when there is an adoption.
NewLesson(run) == [status |-> "candidate", run |-> run, evidence |-> {}, adoptions |-> {}]

SeedLesson == [NewLesson(SeedRun) EXCEPT !.status = "adopted"]

\* The document: candidates, adopted_history, and the runs it mentions
\* (run_refs of the project and run_records).
Seeded == [id \in {"help"} |-> SeedLesson]

Default == [lessons |-> Seeded, adopted |-> Seeded, runs |-> {SeedRun}]

\* A file is missing, is not (yet) a JSON document, or holds one.
Missing == [state |-> "missing", doc |-> Default]
Partial == [state |-> "partial", doc |-> Default]
Whole(doc) == [state |-> "whole", doc |-> doc]

VARIABLES
    store,      \* project_state.json
    tmp,        \* project_state.json.tmp
    ledger,     \* the rows of run_ledger.jsonl
    artifacts,  \* the adoption artifacts written
    proc,       \* proc[p]: the locals of the call p is in
    clock,      \* seconds
    submits, adopts, deaths

vars == <<store, tmp, ledger, artifacts, proc, clock, submits, adopts, deaths>>

files == <<store, tmp, ledger, artifacts>>
bounds == <<submits, adopts, deaths>>

Idle == [pc |-> "idle", op |-> "none", id |-> "ingest", lesson |-> NewLesson(BaseRun),
         doc |-> Default, run |-> BaseRun, matches |-> {}, second |-> 0,
         disturbed |-> FALSE, fd |-> "none"]

Init ==
    /\ store = Missing /\ tmp = Missing
    /\ ledger = {} /\ artifacts = {}
    /\ proc = [p \in Procs |-> Idle]
    /\ clock = 0
    /\ submits = 0 /\ adopts = 0 /\ deaths = 0

-----------------------------------------------------------------------------
(* The ledger and the document.                                            *)

\* D2-01's three rows; the row of an extraction with the lessons it reused; the
\* row of an adoption with its artifact.
DebateRow == [kind |-> "debate", run |-> BaseRun]
ExtractRow(run, reused) == [kind |-> "extract", run |-> run, reused |-> reused]
AdoptRow(run, id, second) == [kind |-> "adopt", run |-> run, id |-> id, second |-> second]

\* load: a file that cannot be read counts as no file.
Load(file) == IF file.state = "whole" THEN file.doc ELSE Default

With(map, id, lesson) == [i \in DOMAIN map \cup {id} |-> IF i = id THEN lesson ELSE map[i]]

\* upsert_candidate and adopt_candidate: both copy an adopted lesson to the history.
Put(doc, id, lesson) ==
    [lessons |-> With(doc.lessons, id, lesson),
     adopted |-> IF lesson.status = "adopted" THEN With(doc.adopted, id, lesson) ELSE doc.adopted,
     runs |-> doc.runs \cup {lesson.run}]

\* _used_run_ids.
Used(doc) ==
    doc.runs \cup UNION {{l.run} \cup l.evidence : l \in Range(doc.lessons) \cup Range(doc.adopted)}

\* _unique_submit_run_id; it sleeps while the second is taken.
UniqueRuns(doc) == IF BaseRun \notin Used(doc) THEN {BaseRun} ELSE {clock} \ Used(doc)

-----------------------------------------------------------------------------
Become(p, new) == proc' = [proc EXCEPT ![p] = new]

\* p puts a document in place: every other call under way is disturbed, as its copy
\* is outdated, and open descriptors go where the file they were opened on has gone.
Publish(p, new, file, renamed) ==
    LET Moved(fd) == CASE ~renamed -> fd [] fd = "tmp" -> "store" [] fd = "store" -> "gone" [] OTHER -> fd
    IN  /\ store' = file
        /\ proc' = [q \in Procs |->
             IF q = p THEN new
             ELSE IF proc[q].pc = "idle" THEN proc[q]
             ELSE [proc[q] EXCEPT !.disturbed = TRUE, !.fd = Moved(@)]]

-----------------------------------------------------------------------------
(* Submitting a task card (the server).                                    *)

\* The extraction and the debate; the card's sources match the seed's or not.
Submit(p) ==
    /\ p = Server /\ proc[p].pc = "idle" /\ submits < MaxSubmits
    /\ submits' = submits + 1
    /\ \E matching \in BOOLEAN :
        Become(p, [Idle EXCEPT !.pc = "debate", !.op = "reuse",
                               !.matches = IF matching THEN Lessons ELSE {}])
    /\ UNCHANGED <<files, clock, adopts, deaths>>

\* run_debate_loop appends its rows under the run id derived from the task.
Debate(p) ==
    /\ proc[p].pc = "debate"
    /\ ledger' = ledger \cup {DebateRow}
    /\ Become(p, [proc[p] EXCEPT !.pc = "choose"])
    /\ UNCHANGED <<store, tmp, artifacts, clock, bounds>>

\* The submission's run id and the lessons in the store that match it, other
\* than its own.
Choose(p) ==
    /\ proc[p].pc = "choose"
    /\ LET doc == Load(store) IN
        \E run \in UniqueRuns(doc) :
            Become(p, [proc[p] EXCEPT !.pc = "evidence", !.run = run,
                                      !.matches = (@ \cap DOMAIN doc.lessons) \ {"ingest"}])
    /\ UNCHANGED <<files, clock, bounds>>

AfterEvidence(l, p) ==
    IF proc[p].matches # {} THEN [l EXCEPT !.pc = "reuse"]
    ELSE [l EXCEPT !.pc = "load", !.op = "store", !.id = "ingest", !.lesson = NewLesson(proc[p].run)]

\* Faulty variant of Evidence: the row does not say which lessons are reused.
EvidenceUnnamed(p) ==
    /\ proc[p].pc = "evidence"
    /\ ledger' = ledger \cup {ExtractRow(proc[p].run, {})}
    /\ Become(p, AfterEvidence(proc[p], p))
    /\ UNCHANGED <<store, tmp, artifacts, clock, bounds>>

\* append_ledger_records with the extraction's rows.
Evidence(p) ==
    /\ proc[p].pc = "evidence"
    /\ ledger' = ledger \cup {ExtractRow(proc[p].run, proc[p].matches)}
    /\ Become(p, AfterEvidence(proc[p], p))
    /\ UNCHANGED <<store, tmp, artifacts, clock, bounds>>

\* The lesson with the run in its gate's evidence.
Reused(lesson, run) == [lesson EXCEPT !.evidence = @ \cup {run}]

\* Faulty variant of Reuse: the new evidence replaces the old.
ReuseAnew(p) ==
    /\ proc[p].pc = "reuse"
    /\ \E id \in proc[p].matches \cap DOMAIN Load(store).lessons :
        Become(p, [proc[p] EXCEPT !.pc = "load", !.id = id, !.matches = @ \ {id}, !.disturbed = FALSE,
                     !.lesson = [Load(store).lessons[id] EXCEPT !.evidence = {proc[p].run}]])
    /\ UNCHANGED <<files, clock, bounds>>

\* record_reuse of one matching lesson, up to its call of upsert_candidate.  A
\* gate that is full, or a lesson that has disappeared, ends the request with an
\* error: the candidate is not stored.
Reuse(p) ==
    /\ proc[p].pc = "reuse"
    /\ LET doc == Load(store)
           Full(id) == Cardinality(Reused(doc.lessons[id], proc[p].run).evidence) > MaxEvidence
       IN  \E id \in proc[p].matches :
            IF id \in DOMAIN doc.lessons /\ ~Full(id)
            THEN Become(p, [proc[p] EXCEPT !.pc = "load", !.id = id, !.matches = @ \ {id}, !.disturbed = FALSE,
                              !.lesson = Reused(doc.lessons[id], proc[p].run)])
            ELSE Become(p, Idle)
    /\ UNCHANGED <<files, clock, bounds>>

-----------------------------------------------------------------------------
(* Adopting a lesson (the server and the command line).                    *)

\* The command line refuses a lesson that is adopted; the server does not.
Find(p) ==
    /\ proc[p].pc = "idle" /\ adopts < MaxAdopts
    /\ adopts' = adopts + 1
    /\ \E id \in DOMAIN Load(store).lessons :
        LET lesson == Load(store).lessons[id] IN
        /\ p \in Clis => lesson.status # "adopted"
        /\ Become(p, [Idle EXCEPT !.pc = IF p = Server THEN "artifact" ELSE "prompt",
                                  !.op = "adopt", !.id = id, !.lesson = lesson])
    /\ UNCHANGED <<files, clock, submits, deaths>>

\* The command line waits for the user (--yes: not for long).
Prompt(p) ==
    /\ proc[p].pc = "prompt"
    /\ \/ Become(p, [proc[p] EXCEPT !.pc = "artifact"])
       \/ Become(p, Idle)
    /\ UNCHANGED <<files, clock, bounds>>

\* adopt_candidate of adoption.py writes the artifact named for the second ...
Artifact(p) ==
    /\ proc[p].pc = "artifact"
    /\ artifacts' = artifacts \cup {<<proc[p].id, clock>>}
    /\ Become(p, [proc[p] EXCEPT !.pc = "row", !.second = clock])
    /\ UNCHANGED <<store, tmp, ledger, clock, bounds>>

Adopted(lesson, second) ==
    [lesson EXCEPT !.status = "adopted", !.adoptions = @ \cup {second}]

\* ... appends the row that names it, and makes the adopted lesson of the copy.
Row(p) ==
    /\ proc[p].pc = "row"
    /\ ledger' = ledger \cup {AdoptRow(proc[p].lesson.run, proc[p].id, proc[p].second)}
    /\ Become(p, [proc[p] EXCEPT !.pc = "load", !.lesson = Adopted(@, proc[p].second)])
    /\ UNCHANGED <<store, tmp, artifacts, clock, bounds>>

-----------------------------------------------------------------------------
(* upsert_candidate and adopt_candidate of the store: load, change, save.  *)

\* A new candidate is no copy of what the store holds; other lessons are.
LoadDoc(p) ==
    /\ proc[p].pc = "load"
    /\ Become(p, [proc[p] EXCEPT !.pc = "open", !.doc = Put(Load(store), proc[p].id, proc[p].lesson),
                                 !.disturbed = IF proc[p].op = "store" THEN FALSE ELSE @])
    /\ UNCHANGED <<files, clock, bounds>>

\* write_text truncates the temporary file, whoever made it: two processes that
\* have it open disturb each other.
Open(p) ==
    /\ proc[p].pc = "open"
    /\ tmp' = Partial
    /\ LET others == {q \in Procs \ {p} : proc[q].pc \in {"write", "replace"}} IN
        proc' = [q \in Procs |->
          CASE q = p -> [proc[p] EXCEPT !.pc = "write", !.fd = "tmp", !.disturbed = @ \/ others # {}]
            [] q \in others -> [proc[q] EXCEPT !.disturbed = TRUE]
            [] OTHER -> proc[q]]
    /\ UNCHANGED <<store, ledger, artifacts, clock, bounds>>

\* ... and writes; over a document another process has written to the same file,
\* a shorter one leaves the end of the longer.
Written(file, doc) == IF file.state = "whole" THEN {Whole(doc), Partial} ELSE {Whole(doc)}

Write(p) ==
    /\ proc[p].pc = "write"
    /\ LET me == [proc[p] EXCEPT !.pc = "replace", !.fd = "none"] IN
        CASE proc[p].fd = "tmp"   -> tmp' \in Written(tmp, proc[p].doc) /\ Become(p, me) /\ UNCHANGED store
          [] proc[p].fd = "store" -> /\ \E f \in Written(store, proc[p].doc) : Publish(p, me, f, FALSE)
                                     /\ UNCHANGED tmp
          [] OTHER                -> Become(p, me) /\ UNCHANGED <<store, tmp>>
    /\ UNCHANGED <<ledger, artifacts, clock, bounds>>

\* What the call does next.
AfterSave(p) ==
    CASE proc[p].op # "reuse" -> Idle
      [] OTHER -> AfterEvidence([proc[p] EXCEPT !.doc = Default, !.fd = "none"], p)

\* os.replace; it fails when another process has taken the temporary file away.
Replace(p) ==
    /\ proc[p].pc = "replace"
    /\ IF tmp.state = "missing" THEN Become(p, Idle) /\ UNCHANGED <<store, tmp>>
       ELSE Publish(p, AfterSave(p), tmp, TRUE) /\ tmp' = Missing
    /\ UNCHANGED <<ledger, artifacts, clock, bounds>>

-----------------------------------------------------------------------------
\* A process is killed; what it has written stays.
Die(p) ==
    /\ proc[p].pc # "idle" /\ deaths < MaxDeaths
    /\ deaths' = deaths + 1
    /\ Become(p, Idle)
    /\ UNCHANGED <<files, clock, submits, adopts>>

Tick ==
    /\ clock < MaxClock
    /\ clock' = clock + 1
    /\ UNCHANGED <<files, proc, bounds>>

Step(p) ==
    \/ Submit(p) \/ Debate(p) \/ Choose(p) \/ Evidence(p) \/ Reuse(p)
    \/ Find(p) \/ Prompt(p) \/ Artifact(p) \/ Row(p)
    \/ LoadDoc(p) \/ Open(p) \/ Write(p) \/ Replace(p)
    \/ Die(p)

Next == Tick \/ \E p \in Procs : Step(p)

Spec == Init /\ [][Next]_vars

-----------------------------------------------------------------------------
(* Properties.                                                             *)

\* What the project file shows as adopted was adopted: except for the seed, an
\* adopted lesson names an adoption, and each adoption it names has its ledger row
\* and its artifact, whoever was killed and whoever else was saving (adoption.py
\* writes the artifact, then the row, then the store).
AdoptionIsBacked ==
    \A map \in {store.doc.lessons, store.doc.adopted} : \A id \in DOMAIN map :
        LET l == map[id] IN
        /\ l.status = "adopted" /\ id # "help" => l.adoptions # {}
        /\ \A s \in l.adoptions :
            /\ AdoptRow(l.run, id, s) \in ledger
            /\ <<id, s>> \in artifacts

\* "Independently checkable" evidence: every run in a gate's evidence has a ledger
\* row that says the run reused that lesson, and every run the project refers to,
\* other than the seed's, is in the ledger (the adapter appends before record_reuse).
EvidenceIsReal ==
    /\ \A id \in DOMAIN store.doc.lessons : \A run \in store.doc.lessons[id].evidence :
        \E row \in ledger : row.kind = "extract" /\ row.run = run /\ id \in row.reused
    /\ \A run \in store.doc.runs \ {SeedRun} :
        \E row \in ledger : row.kind = "extract" /\ row.run = run

\* The list of candidates and the adopted history never tell two stories of a
\* lesson that both call adopted.
ListsAgree ==
    \A id \in DOMAIN store.doc.lessons :
        store.doc.lessons[id].status = "adopted" =>
            /\ id \in DOMAIN store.doc.adopted
            /\ store.doc.adopted[id] = store.doc.lessons[id]

\* The project file agrees with the run ledger and the adoption artifacts, of which each
\* is written before it (adoption.py, d2_01_adapter.py, project_store.py).
StoreHolds == AdoptionIsBacked /\ EvidenceIsReal /\ ListsAgree

\* Nothing of the old document is missing in the new one: lessons, entries of the
\* adopted history, evidence and run references.
Keeps(old, new) ==
    /\ DOMAIN old.lessons \subseteq DOMAIN new.lessons
    /\ DOMAIN old.adopted \subseteq DOMAIN new.adopted
    /\ \A id \in DOMAIN old.lessons : old.lessons[id].evidence \subseteq new.lessons[id].evidence
    /\ old.runs \subseteq new.runs

\* A save that no other process disturbs leaves a readable file that has all the
\* old one had, whatever was killed before it and whatever a killed process left in
\* the temporary file (load and save of OMCProjectStore).
NothingForgotten ==
    [][\A p \in Procs :
        store' # store /\ proc[p] # proc'[p] /\ proc[p].pc \in {"write", "replace"} /\ ~proc[p].disturbed =>
            store'.state = "whole" /\ Keeps(Load(store), store'.doc)]_vars
=============================================================================
