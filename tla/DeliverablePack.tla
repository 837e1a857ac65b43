-------------------------- MODULE DeliverablePack --------------------------
(***************************************************************************)
(* The one deliverable of the panel (platform/deliverable): the command    *)
(* that renders the slides and the poster from their ledgered Markdown     *)
(* (materialize.py), and the server that reports the six modalities and    *)
(* serves their files (endpoint.py, plan.py).  The command is a process of *)
(* its own, may be started twice, and may die between its writes.          *)
(***************************************************************************)
EXTENDS Integers, Sequences, FiniteSets

CONSTANTS
    Renderers,  \* processes of materialize_deliverable
    Drafts,     \* contents a source file may have; a digest is the content
    Locked,     \* _SOURCE_MARKDOWN_SHA256: the draft that is preferred
    FirstRows,  \* rows [modality, file, sha] of the tasks that have run, row k of file k
    MaxRows,    \* bound on rows in the ledger
    MaxDate     \* bound on the clock

ASSUME DeliverableAssumption ==
    /\ Locked \in Drafts /\ MaxRows \in Nat /\ MaxDate \in Nat
    /\ FirstRows \in Seq([modality : {"document", "slides", "poster"}, file : Nat, sha : Drafts])
    /\ \A k \in DOMAIN FirstRows : FirstRows[k].file = k

\* _DELIVERABLE_PLAN: the kinds of source; one of the two binaries on disk stands for both.
Converted == {"slides", "poster"}
Planned == <<"document", "slides", "poster", "image", "music">>

VARIABLES
    packRows,     \* artifact_produced rows of the source tasks: [modality, file, sha]
    packSources,  \* source file -> content
    packLoose,    \* numbers of the unledgered image files
    packFiles,    \* rendered files: modality -> content or NoFile
    packSidecar,  \* the sidecar: [at, record], at = 0 when there is none
    renderers,    \* process -> what it is at
    packDate,
    packAnswer,   \* where in a report the server is, and what it said last
    packAlone      \* history: [rendered, alone]

packVars == <<packRows, packSources, packLoose, packFiles, packSidecar, renderers, packDate, packAnswer, packAlone>>

NoFile == [of |-> "none", draft |-> "none"]
Rendered(m, draft) == [of |-> m, draft |-> draft]     \* deterministic
NoSidecar == [at |-> 0, record |-> [m \in Converted |-> NoFile]]
Waiting == [at |-> "idle"]
Blocked(m) == [modality |-> m, status |-> "blocked", bytes |-> NoFile, url |-> FALSE]
Quiet == [at |-> 0, dated |-> 0, item |-> Blocked("music")]

PackInit ==
    /\ packRows = FirstRows /\ packLoose = {}
    /\ packSources = [f \in DOMAIN FirstRows |-> FirstRows[f].sha]
    /\ packFiles = [m \in Converted |-> NoFile] /\ packSidecar = NoSidecar
    /\ renderers = [p \in Renderers |-> Waiting] /\ packDate = 1
    /\ packAnswer = Quiet /\ packAlone = FALSE

-----------------------------------------------------------------------------
(* What counts as a source, and as rendered.                               *)

\* A row whose file is there and is what the row says.
Stands(row, m) ==
    row.modality = m /\ row.file \in DOMAIN packSources /\ packSources[row.file] = row.sha

Candidates(m) == {k \in DOMAIN packRows : Stands(packRows[k], m)}

\* resolve_ledger_artifact: the locked draft if there is one, else the first that stands.
Preferred(m) == {k \in Candidates(m) : m = "document" \/ packRows[k].sha = Locked}
Chosen(m) ==
    LET among == IF Preferred(m) # {} THEN Preferred(m) ELSE Candidates(m)
    IN  packRows[CHOOSE k \in among : \A j \in among : k <= j]
HasSource(m) == Candidates(m) # {}

\* Faulty variant of IsMaterialized: the sidecar is enough.
IsMaterializedByRecord(m) == packSidecar.at # 0

\* resolve_materialized_artifact.
IsMaterialized(m) ==
    packSidecar.at # 0 /\ packFiles[m] # NoFile /\ packFiles[m] = packSidecar.record[m]

-----------------------------------------------------------------------------
(* The command.                                                            *)

Step(p, now) == renderers' = [renderers EXCEPT ![p] = now]
Busy == {p \in Renderers : renderers[p].at # "idle"}

\* materialize_deliverable: both sources are resolved and rendered before any write.
Render(p) ==
    /\ renderers[p].at = "idle"
    /\ \A m \in Converted : HasSource(m)
    /\ Step(p, [at |-> "slides", out |-> [m \in Converted |-> Rendered(m, Chosen(m).sha)]])
    /\ packAlone' = (Busy = {})
    /\ UNCHANGED <<packRows, packSources, packLoose, packFiles, packSidecar, packDate, packAnswer>>

After(m) == IF m = "slides" THEN "poster" ELSE "record"

WriteFile(p) ==
    /\ renderers[p].at \in Converted
    /\ LET m == renderers[p].at IN
        /\ packFiles' = [packFiles EXCEPT ![m] = renderers[p].out[m]]
        /\ Step(p, [renderers[p] EXCEPT !.at = After(m)])
    /\ UNCHANGED <<packRows, packSources, packLoose, packSidecar, packDate, packAnswer, packAlone>>

\* _file_record reads what is on disk; _stable_materialized_at keeps the first date.
Record(p) ==
    /\ renderers[p].at = "record"
    /\ Step(p, [at |-> "save", sidecar |->
                 [at |-> IF packSidecar.at # 0 THEN packSidecar.at ELSE packDate, record |-> packFiles]])
    /\ UNCHANGED <<packRows, packSources, packLoose, packFiles, packSidecar, packDate, packAnswer, packAlone>>

SaveSidecar(p) ==
    /\ renderers[p].at = "save"
    /\ packSidecar' = renderers[p].sidecar
    /\ Step(p, Waiting)
    /\ UNCHANGED <<packRows, packSources, packLoose, packFiles, packDate, packAnswer, packAlone>>

\* It dies, or one of its writes fails.
PackDie(p) ==
    /\ renderers[p].at # "idle" /\ Step(p, Waiting)
    /\ packAlone' = FALSE
    /\ UNCHANGED <<packRows, packSources, packLoose, packFiles, packSidecar, packDate, packAnswer>>

-----------------------------------------------------------------------------
(* The server.                                                             *)

\* _ledgered_markdown_payload, _converted_payload, _unledgered_binary_payload and
\* _not_attempted_payload; dated: the date that the head of the report has read.
Payload(m, dated) ==
    CASE m = "document" -> [modality |-> m, status |-> "delivered", url |-> TRUE,
                            bytes |-> Rendered(m, Chosen(m).sha)]
      [] m \in Converted /\ IsMaterialized(m) /\ dated # 0 ->
            [modality |-> m, status |-> "converted", bytes |-> packFiles[m], url |-> TRUE,
             date |-> dated, source |-> Chosen(m).sha]
      [] m = "image" /\ packLoose # {} ->
            [Blocked(m) EXCEPT !.url = TRUE,
                               !.bytes = Rendered(m, CHOOSE i \in packLoose : \A j \in packLoose : j <= i)]
      [] OTHER -> Blocked(m)

\* platform_read_deliverable and _serialize_deliverable: the date first, then each
\* modality from what the files are by then; a source that cannot be resolved fails
\* the whole report.
Report ==
    /\ packAnswer.at = 0
    /\ packAnswer' = [at |-> 1, dated |-> packSidecar.at, item |-> Blocked("music")]
    /\ UNCHANGED <<packRows, packSources, packLoose, packFiles, packSidecar, renderers, packDate, packAlone>>

NeedsSource(m) == m \in Converted \cup {"document"}

Item ==
    /\ packAnswer.at # 0
    /\ LET m == Planned[packAnswer.at] IN
        packAnswer' =
          IF NeedsSource(m) /\ ~HasSource(m) THEN Quiet
          ELSE [packAnswer EXCEPT !.item = Payload(m, packAnswer.dated),
                                  !.at = IF packAnswer.at = Len(Planned) THEN 0 ELSE packAnswer.at + 1]
    /\ UNCHANGED <<packRows, packSources, packLoose, packFiles, packSidecar, renderers, packDate, packAlone>>

\* _resolve_download: what is handed to the file response.
Refused(m) ==
    \/ NeedsSource(m) /\ ~HasSource(m)
    \/ m \in Converted /\ ~IsMaterialized(m)
    \/ m = "image" /\ packLoose = {}

Fetch ==
    /\ packAnswer.at = 0
    /\ \E m \in {"document", "slides", "poster", "image"} :
        packAnswer' = IF Refused(m) THEN Quiet
                      ELSE [Quiet EXCEPT !.item = [Payload(m, packSidecar.at) EXCEPT !.status = "file"]]
    /\ UNCHANGED <<packRows, packSources, packLoose, packFiles, packSidecar, renderers, packDate, packAlone>>

-----------------------------------------------------------------------------
(* The rest of the panel writes sources and rows; users change files.      *)

Produce ==
    /\ Len(packRows) < MaxRows
    /\ \E m \in Converted, d \in Drafts :
        /\ packSources' = [f \in DOMAIN packSources \cup {Len(packRows) + 1} |->
                             IF f = Len(packRows) + 1 THEN d ELSE packSources[f]]
        /\ packRows' = Append(packRows, [modality |-> m, file |-> Len(packRows) + 1, sha |-> d])
    /\ packAlone' = FALSE
    /\ UNCHANGED <<packLoose, packFiles, packSidecar, renderers, packDate, packAnswer>>

\* A file without a row; and a change to a source or to a rendered file; the command
\* would record a rendered file that is changed between its write and its record.
Spill ==
    /\ packLoose = {} /\ packLoose' = {Len(packRows)}
    /\ UNCHANGED <<packRows, packSources, packFiles, packSidecar, renderers, packDate, packAnswer, packAlone>>
Change ==
    /\ Busy = {} /\ packAlone' = FALSE
    /\ \/ \E f \in DOMAIN packSources : packSources' = [packSources EXCEPT ![f] = "changed"] /\ UNCHANGED packFiles
       \/ \E m \in Converted : packFiles' = [packFiles EXCEPT ![m] = Rendered(m, "changed")] /\ UNCHANGED packSources
    /\ UNCHANGED <<packRows, packLoose, packSidecar, renderers, packDate, packAnswer>>
PackTick ==
    /\ packDate < MaxDate /\ packDate' = packDate + 1
    /\ UNCHANGED <<packRows, packSources, packLoose, packFiles, packSidecar, renderers, packAnswer, packAlone>>

PackNext ==
    \/ \E p \in Renderers : Render(p) \/ WriteFile(p) \/ Record(p) \/ SaveSidecar(p) \/ PackDie(p)
    \/ Report \/ Item \/ Fetch \/ Produce \/ Spill \/ Change \/ PackTick

PackSpec == PackInit /\ [][PackNext]_packVars

-----------------------------------------------------------------------------
(* Properties.                                                             *)

Ledgered(m) == {packRows[k].sha : k \in {j \in DOMAIN packRows : packRows[j].modality = m}}

\* What is reported or served as delivered or converted has come from a draft that the
\* ledger has a row for, whatever became of the files, however many processes render at
\* once and wherever one of them dies; a conversion is dated no later than today; and
\* what the ledger has no row for is never called delivered (_converted_payload,
\* _resolve_download).
DeliveredIsLedgered ==
    LET i == packAnswer.item IN
        /\ i.status \in {"delivered", "converted", "file"} /\ NeedsSource(i.modality) =>
             i.bytes.of = i.modality /\ i.bytes.draft \in Ledgered(i.modality)
        /\ i.status = "converted" => i.date \in 1..packDate
        /\ ~NeedsSource(i.modality) => i.status \in {"blocked", "file"}

\* A run that nothing disturbed leaves both conversions available, of the sources that
\* it chose (materialize_deliverable).
RunMaterializes ==
    packAlone /\ Busy = {} =>
        \A m \in Converted : IsMaterialized(m) /\ packFiles[m] = Rendered(m, Chosen(m).sha)

\* The panel claims no delivery that the ledger does not warrant, and the command that
\* renders the missing ones achieves what it is run for.
PackHolds == DeliveredIsLedgered /\ RunMaterializes
=============================================================================
