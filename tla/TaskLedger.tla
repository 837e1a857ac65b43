----------------------------- MODULE TaskLedger -----------------------------
(***************************************************************************)
(* The files of one task and the store operations on them:                 *)
(* platform/tasks/store.py, platform/ledger/writer.py and                  *)
(* platform/artifacts/store.py.  A disk is a record of                     *)
(*   task    the state field of task.json (Absent: no such file),          *)
(*   ledger  the rows of ledger.jsonl; a row's seq is its position, since  *)
(*           append_event reads the last seq and appends without giving    *)
(*           the event loop back,                                          *)
(*   index   the task's row of the central tasks_index.jsonl,              *)
(*   files   the plan steps whose artifact file exists.                    *)
(* An operation is the disk it leaves; its Torn twin is the set of disks a *)
(* process that dies inside it may leave, one per durable write.           *)
(***************************************************************************)
EXTENDS TaskStates, Sequences

RowTypes == {"dispatch", "ai_call", "artifact_produced", "cross_validation", "error"}

Row == [type : RowTypes, from : States \cup {None}, to : States \cup {None}, step : Nat]

Index == [seq : Nat, state : States \cup {None}]

Disk == [task : States \cup {Absent}, ledger : Seq(Row), index : Index, files : SUBSET Nat]

EmptyDisk == [task |-> Absent, ledger |-> <<>>,
              index |-> [seq |-> 0, state |-> None], files |-> {}]

-----------------------------------------------------------------------------
(* Ledger events (ledger/events.py).  error_event always carries           *)
(* to_state = error, whatever task.json says afterwards.                   *)

DispatchRow(from, to) == [type |-> "dispatch", from |-> from, to |-> to, step |-> 0]
ErrorRow(from) == [type |-> "error", from |-> from, to |-> "error", step |-> 0]
AiCallRow(i) == [type |-> "ai_call", from |-> None, to |-> None, step |-> i]
ArtifactRow(i) == [type |-> "artifact_produced", from |-> None, to |-> None, step |-> i]
VerdictRow == [type |-> "cross_validation", from |-> None, to |-> None, step |-> 0]

-----------------------------------------------------------------------------
(* Durable writes.                                                         *)

WriteTask(d, st) == [d EXCEPT !.task = st]

WriteFile(d, i) == [d EXCEPT !.files = @ \cup {i}]

WriteRow(d, row) == [d EXCEPT !.ledger = Append(@, row)]

\* _update_index: an event without to_state keeps the state the index row had.
UpdateIndex(d, row) ==
    [d EXCEPT !.index = [seq |-> Len(d.ledger),
                         state |-> IF row.to # None THEN row.to ELSE @.state]]

AppendEvent(d, row) == UpdateIndex(WriteRow(d, row), row)

TornAppend(d, row) == {d, WriteRow(d, row)}

-----------------------------------------------------------------------------
(* Task store operations.                                                  *)

CreateTask(d) == AppendEvent(WriteTask(d, "created"), DispatchRow(None, "created"))

TornCreate(d) == {d} \cup TornAppend(WriteTask(d, "created"), DispatchRow(None, "created"))

\* An illegal target leaves task.json alone, appends an error event and raises.
UpdateTaskState(d, to) ==
    IF Legal(d.task, to)
    THEN AppendEvent(WriteTask(d, to), DispatchRow(d.task, to))
    ELSE AppendEvent(d, ErrorRow(d.task))

\* Faulty variant of TornUpdate: the ledger row before task.json.
RowFirstTorn(d, to) ==
    IF Legal(d.task, to)
    THEN TornAppend(d, DispatchRow(d.task, to))
    ELSE TornAppend(d, ErrorRow(d.task))

\* task.json is replaced first; the ledger row and the index follow.
TornUpdate(d, to) ==
    IF Legal(d.task, to)
    THEN {d} \cup TornAppend(WriteTask(d, to), DispatchRow(d.task, to))
    ELSE TornAppend(d, ErrorRow(d.task))

\* artifacts.store.persist: the file, then its artifact_produced row.
Persist(d, i) == AppendEvent(WriteFile(d, i), ArtifactRow(i))

TornPersist(d, i) == {d} \cup TornAppend(WriteFile(d, i), ArtifactRow(i))

-----------------------------------------------------------------------------
(* replay_path: the rows that carry to_state, in order, must start at      *)
(* created and follow the transition table.                                *)

Lifecycle(ledger) == {i \in DOMAIN ledger : ledger[i].to # None}

Replayable(ledger) ==
    /\ Lifecycle(ledger) # {}
    /\ \A j \in Lifecycle(ledger) :
          LET before == {i \in Lifecycle(ledger) : i < j}
          IN  IF before = {}
              THEN ledger[j].to = "created"
              ELSE \E i \in before :
                      /\ \A k \in before : k <= i
                      /\ Legal(ledger[i].to, ledger[j].to)

\* The state replay returns for a replayable ledger.
ReplayState(ledger) ==
    ledger[CHOOSE i \in Lifecycle(ledger) : \A k \in Lifecycle(ledger) : k <= i].to

\* Rows of one type about one plan step.
RowsOf(ledger, type, i) == {k \in DOMAIN ledger : ledger[k].type = type /\ ledger[k].step = i}
=============================================================================
