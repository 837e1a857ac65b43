------------------------- MODULE TaskDispatch_proofs -------------------------
(***************************************************************************)
(* Theorems about TaskDispatch, for any set of tasks, sessions and plans   *)
(* and any bounds.                                                         *)
(***************************************************************************)
EXTENDS TaskDispatch, SequenceTheorems, WellFoundedInduction, TLAPS

\* A change of one task's files that keeps to the lifecycle.
Moves(d, e) ==
    \/ e.task = d.task
    \/ d.task = Absent /\ e.task = "created"
    \/ Legal(d.task, e.task)

-----------------------------------------------------------------------------
(* The store operations.                                                   *)

\* Appending an event keeps task.json and the artifact files.
LEMMA AppendEventFacts ==
    ASSUME NEW d \in Disk, NEW row \in Row
    PROVE  /\ AppendEvent(d, row) \in Disk
           /\ AppendEvent(d, row).task = d.task
           /\ WriteRow(d, row) \in Disk
           /\ WriteRow(d, row).task = d.task
  <1> DEFINE lg == Append(d.ledger, row)
             w == WriteRow(d, row)
  <1>0. lg \in Seq(Row)
    BY DEF Disk
  <1>a. w = [d EXCEPT !.ledger = lg]
    BY DEF WriteRow
  <1> HIDE DEF lg
  <1>1. w \in Disk /\ w.task = d.task
    BY <1>0, <1>a DEF Disk
  <1>2. row.to \in States \cup {None}
    BY DEF Row
  <1>3. Len(w.ledger) \in Nat /\ w.index.state \in States \cup {None}
    BY <1>1 DEF Disk, Index
  <1> HIDE DEF w
  <1> DEFINE st == IF row.to # None THEN row.to ELSE w.index.state
             ix == [seq |-> Len(w.ledger), state |-> st]
  <1>4. st \in States \cup {None}
    BY <1>2, <1>3
  <1> HIDE DEF st
  <1>5. ix \in Index
    BY <1>3, <1>4 DEF Index
  <1>6. UpdateIndex(w, row) = [w EXCEPT !.index = ix]
    BY DEF UpdateIndex, st
  <1> HIDE DEF ix
  <1>7. UpdateIndex(w, row) \in Disk /\ UpdateIndex(w, row).task = w.task
    BY <1>1, <1>5, <1>6 DEF Disk
  <1> QED
    BY <1>1, <1>7 DEF AppendEvent, w

\* The rows the operations append are rows.
LEMMA RowFacts ==
    /\ \A from \in States \cup {None}, to \in States : DispatchRow(from, to) \in Row
    /\ \A from \in States \cup {Absent} : from # Absent => ErrorRow(from) \in Row
    /\ \A i \in Nat : AiCallRow(i) \in Row /\ ArtifactRow(i) \in Row
    /\ VerdictRow \in Row
  BY DEF DispatchRow, ErrorRow, AiCallRow, ArtifactRow, VerdictRow, Row, RowTypes, States

LEMMA WriteTaskFacts ==
    ASSUME NEW d \in Disk, NEW st \in States
    PROVE  WriteTask(d, st) \in Disk /\ WriteTask(d, st).task = st
  BY DEF WriteTask, Disk

\* A legal source is a state, so an existing task; a legal target is a state.
LEMMA LegalStates ==
    ASSUME NEW from, NEW to, Legal(from, to)
    PROVE  from \in States \ Terminal /\ to \in States
  BY DEF Legal, Transitions, Forward, States, Terminal

\* update_task_state moves task.json along one edge of the table or not at all.
LEMMA UpdateFacts ==
    ASSUME NEW d \in Disk, d.task # Absent, NEW to \in States
    PROVE  /\ UpdateTaskState(d, to) \in Disk
           /\ UpdateTaskState(d, to).task = IF Legal(d.task, to) THEN to ELSE d.task
           /\ Moves(d, UpdateTaskState(d, to))
           /\ \A e \in TornUpdate(d, to) : e \in Disk /\ e.task # Absent /\ Moves(d, e)
  <1>0. d.task \in States
    BY DEF Disk
  <1>1. CASE Legal(d.task, to)
    <2> DEFINE w == WriteTask(d, to)
               row == DispatchRow(d.task, to)
    <2>1. w \in Disk /\ w.task = to /\ row \in Row
      BY <1>0, WriteTaskFacts, RowFacts
    <2>2. /\ AppendEvent(w, row) \in Disk /\ AppendEvent(w, row).task = to
          /\ WriteRow(w, row) \in Disk /\ WriteRow(w, row).task = to
      BY <2>1, AppendEventFacts
    <2>3. UpdateTaskState(d, to) = AppendEvent(w, row)
      BY <1>1 DEF UpdateTaskState
    <2>4. TornUpdate(d, to) = {d, w, WriteRow(w, row)}
      BY <1>1 DEF TornUpdate, TornAppend
    <2>5. Absent \notin States
      BY DEF Absent, States
    <2> QED
      BY <1>1, <2>1, <2>2, <2>3, <2>4, <2>5 DEF Moves
  <1>2. CASE ~Legal(d.task, to)
    <2> DEFINE row == ErrorRow(d.task)
    <2>1. row \in Row
      BY <1>0, RowFacts
    <2>2. /\ AppendEvent(d, row) \in Disk /\ AppendEvent(d, row).task = d.task
          /\ WriteRow(d, row) \in Disk /\ WriteRow(d, row).task = d.task
      BY <2>1, AppendEventFacts
    <2>3. UpdateTaskState(d, to) = AppendEvent(d, row) /\ TornUpdate(d, to) = {d, WriteRow(d, row)}
      BY <1>2 DEF UpdateTaskState, TornUpdate, TornAppend
    <2> QED
      BY <1>2, <2>2, <2>3 DEF Moves
  <1> QED
    BY <1>1, <1>2

\* persist writes a file and a row, and leaves task.json alone.
LEMMA PersistFacts ==
    ASSUME NEW d \in Disk, NEW i \in Nat
    PROVE  /\ Persist(d, i) \in Disk /\ Persist(d, i).task = d.task
           /\ \A e \in TornPersist(d, i) : e \in Disk /\ e.task = d.task
  <1>1. WriteFile(d, i) \in Disk /\ WriteFile(d, i).task = d.task
    BY DEF WriteFile, Disk
  <1>2. ArtifactRow(i) \in Row
    BY RowFacts
  <1> QED
    BY <1>1, <1>2, AppendEventFacts DEF Persist, TornPersist, TornAppend

\* create_task makes an absent task appear as created.
LEMMA CreateFacts ==
    ASSUME NEW d \in Disk, d.task = Absent
    PROVE  /\ CreateTask(d) \in Disk /\ Moves(d, CreateTask(d))
           /\ \A e \in TornCreate(d) : e \in Disk /\ Moves(d, e)
  <1>1. "created" \in States /\ None \in States \cup {None}
    BY DEF States
  <1>2. /\ WriteTask(d, "created") \in Disk /\ WriteTask(d, "created").task = "created"
        /\ DispatchRow(None, "created") \in Row
    BY <1>1, WriteTaskFacts, RowFacts
  <1> QED
    BY <1>2, AppendEventFacts DEF CreateTask, TornCreate, TornAppend, Moves

-----------------------------------------------------------------------------
(* The invariant.  TypeOK and SingleDispatcher are not inductive: a run    *)
(* could write for a task that does not exist, or enter the working part   *)
(* of a task a second session already works on.  What rules both out is    *)
(* what a session knows of its task: it exists, and once the session works *)
(* the task is past planning, so that the store refuses everyone else the  *)
(* transition to dispatching.                                              *)

Attached ==
    \A s \in Sessions :
        /\ sess[s].pc # "offline" => Files(s).task # Absent
        /\ Working(s) => Files(s).task \notin {"created", "planning"}
        /\ sess[s].pc \in Running => sess[s].cur \in States \ Terminal

IInv == TypeOK /\ Attached /\ SingleDispatcher

\* A step changes one task's files, and moves its state along the lifecycle.
FilesStep(t, d) ==
    /\ d \in Disk
    /\ disk' = [disk EXCEPT ![t] = d]
    /\ Moves(disk[t], d)

\* A step of session s that leaves it in x.
SessionStep(s) ==
    \E t \in Tasks, d \in Disk, x \in Session :
        /\ FilesStep(t, d)
        /\ sess' = [sess EXCEPT ![s] = x]
        /\ x.pc # "offline" => x.task = t /\ d.task # Absent
        /\ x.pc \in Running => x.cur \in States \ Terminal
        /\ x.pc \in Running \ {"plan"} =>
              \/ Working(s) /\ sess[s].task = t
              \/ disk[t].task = "planning" /\ d.task = "dispatching"
        /\ sess[s].pc \in Running /\ x.pc = "idle" => sess[s].task = t /\ d.task \in Terminal

\* A step of no session.
WorldStep == UNCHANGED sess /\ \E t \in Tasks, d \in Disk : FilesStep(t, d)

\* A step that ends every session.
CrashStep ==
    /\ sess' = [s \in Sessions |-> Offline]
    /\ \E t \in Tasks, d \in Disk : FilesStep(t, d)

-----------------------------------------------------------------------------
(* Every step has one of these shapes.                                     *)

\* The handlers write the terminal state, or find one.
LEMMA EndFacts ==
    ASSUME NEW d \in Disk, d.task # Absent, NEW to \in {"blocked", "error"}
    PROVE  /\ UpdateTaskState(d, to) \in Disk /\ Moves(d, UpdateTaskState(d, to))
           /\ UpdateTaskState(d, to).task \in Terminal
  <1>1. to \in States /\ to \in Terminal /\ d.task \in States
    BY DEF States, Terminal, Disk
  <1>2. d.task \notin Terminal => Legal(d.task, to)
    BY <1>1 DEF Legal, Transitions
  <1> QED
    BY <1>1, <1>2, UpdateFacts

LEMMA StaysFacts ==
    ASSUME TypeOK, NEW t \in Tasks
    PROVE  FilesStep(t, disk[t]) <=> UNCHANGED disk
  BY DEF TypeOK, FilesStep, Moves

LEMMA OfflineFacts == Offline \in Session /\ Offline.pc = "offline"
  BY DispatchAssumption DEF Offline, Session, Running, Answers

\* The record updates the actions make.
LEMMA SessionFacts ==
    ASSUME NEW x \in Session, NEW p \in Running \cup {"offline", "idle"},
           NEW c \in States \cup {None}
    PROVE  /\ [x EXCEPT !.pc = p, !.cur = c] \in Session
           /\ [x EXCEPT !.pc = p] \in Session
           /\ [x EXCEPT !.cancel = TRUE] \in Session
           /\ [x EXCEPT !.pc = p, !.polls = 0] \in Session
           /\ \A a \in Answers : [x EXCEPT !.pc = p, !.answer = a] \in Session
           /\ \A a \in Answers, i \in Nat :
                 [x EXCEPT !.pc = p, !.step = i, !.answer = a] \in Session
  <1>1. [x EXCEPT !.pc = p, !.cur = c] \in Session
    BY DEF Session
  <1>2. [x EXCEPT !.pc = p] \in Session
    BY DEF Session
  <1>3. [x EXCEPT !.cancel = TRUE] \in Session
    BY DEF Session
  <1>4. [x EXCEPT !.pc = p, !.polls = 0] \in Session
    <2>1. 0 \in 0..PollBudget
      BY DispatchAssumption
    <2> QED
      BY <2>1 DEF Session
  <1>5. ASSUME NEW a \in Answers
        PROVE  [x EXCEPT !.pc = p, !.answer = a] \in Session
    BY DEF Session
  <1>6. ASSUME NEW a \in Answers, NEW i \in Nat
        PROVE  [x EXCEPT !.pc = p, !.step = i, !.answer = a] \in Session
    BY DEF Session
  <1> QED
    BY <1>1, <1>2, <1>3, <1>4, <1>5, <1>6

\* What a running session knows of its task.
LEMMA RunningFacts ==
    ASSUME TypeOK, Attached, NEW s \in Sessions, sess[s].pc # "offline"
    PROVE  /\ sess[s] \in Session /\ sess[s].task \in Tasks
           /\ sess[s].step \in Nat /\ sess[s].polls \in 0..PollBudget
           /\ Files(s) \in Disk /\ Files(s).task \in States
           /\ sess[s].pc \in Running => sess[s].cur \in States \ Terminal
           /\ Working(s) => Files(s).task \notin {"created", "planning"}
  BY DEF TypeOK, Attached, Session, Files, Disk

\* The end of a run.
LEMMA EndRunStep ==
    ASSUME TypeOK, Attached, NEW s \in Sessions, sess[s].pc \in Running,
           NEW d \in Disk, Moves(Files(s), d), d.task \in Terminal, SetFiles(s, d), EndRun(s)
    PROVE  SessionStep(s)
  <1> DEFINE x == [sess[s] EXCEPT !.pc = "idle", !.cur = None]
  <1>1. sess[s] \in Session /\ sess[s].task \in Tasks
    BY RunningFacts DEF Running
  <1>2. x \in Session /\ x.pc = "idle" /\ x.task = sess[s].task
    <2>1. x \in Session
      BY <1>1, SessionFacts
    <2> QED
      BY <1>1, <2>1 DEF Session
  <1>3. sess' = [sess EXCEPT ![s] = x]
    BY DEF EndRun
  <1>4. FilesStep(sess[s].task, d) /\ d.task # Absent
    BY DEF FilesStep, SetFiles, Files, Terminal, Absent
  <1>5. "idle" \notin Running
    BY DEF Running
  <1> QED
    BY <1>1, <1>2, <1>3, <1>4, <1>5 DEF SessionStep

\* The target of a transition in the run is the state it leads to.
LEMMA TargetFacts ==
    ASSUME NEW s \in Sessions, Target(s) # None
    PROVE  /\ Target(s) \in States /\ sess[s].pc \in {"plan", "judge", "loop", "deliver"}
           /\ sess[s].pc = "plan" => Target(s) = "dispatching"
           /\ sess[s].pc \in {"judge", "loop"} => Target(s) \in {"producing", "cross_validating"}
           /\ sess[s].pc = "deliver" => Target(s) = "delivered"
  BY DEF Target, States, None

LEMMA AdvanceStep ==
    ASSUME TypeOK, Attached, NEW s \in Sessions, Advance(s)
    PROVE  SessionStep(s)
  <1> DEFINE to == Target(s)
             d == UpdateTaskState(Files(s), to)
             x == [sess[s] EXCEPT !.pc = After(sess[s].pc), !.cur = to]
  <1>1. to \in States /\ sess[s].pc \in {"plan", "judge", "loop", "deliver"}
    BY TargetFacts DEF Advance
  <1>2. /\ sess[s] \in Session /\ sess[s].task \in Tasks
        /\ Files(s) \in Disk /\ Files(s).task \in States
    BY <1>1, RunningFacts
  <1>3. Files(s).task # Absent
    BY <1>2 DEF Absent, States
  <1>4. d \in Disk /\ d.task = to /\ Moves(Files(s), d)
    BY <1>1, <1>2, <1>3, UpdateFacts DEF Advance
  <1>5. After(sess[s].pc) \in (Running \ {"plan"}) \cup {"idle"}
    BY <1>1 DEF After, Running
  <1>6. /\ x \in Session /\ x.pc = After(sess[s].pc) /\ x.cur = to /\ x.task = sess[s].task
    <2>1. x \in Session
      BY <1>1, <1>2, <1>5, SessionFacts
    <2> QED
      BY <1>2, <2>1 DEF Session
  <1>7. sess' = [sess EXCEPT ![s] = x]
    BY DEF Advance
  <1>8. FilesStep(sess[s].task, d) /\ d.task # Absent
    BY <1>1, <1>4 DEF FilesStep, SetFiles, Files, Advance, Absent, States
  <1>9. x.pc \in Running => x.cur \in States \ Terminal
    BY <1>1, <1>6, TargetFacts DEF After, Running, States, Terminal, Advance
  <1>10. \/ Working(s)
         \/ Files(s).task = "planning" /\ to = "dispatching"
    <2>1. CASE sess[s].pc = "plan"
      BY <2>1, TargetFacts DEF Advance, Legal, Transitions, Forward, Terminal
    <2>2. CASE sess[s].pc # "plan"
      BY <2>2, <1>1 DEF Working, Running
    <2> QED
      BY <2>1, <2>2
  <1>11. x.pc = "idle" => d.task \in Terminal
    BY <1>1, <1>4, <1>6, TargetFacts DEF After, Terminal, Advance
  <1> HIDE DEF d, x, to
  <1> QED
    BY <1>2, <1>4, <1>6, <1>7, <1>8, <1>9, <1>10, <1>11 DEF SessionStep, Files

\* AfterException leaves a terminal task: the copy of a running session is not
\* terminal, so the handler asks for error.
LEMMA AfterExceptionFacts ==
    ASSUME NEW s \in Sessions, sess[s].cur \notin Terminal, NEW d \in Disk, d.task # Absent
    PROVE  /\ AfterException(s, d) \in Disk /\ Moves(d, AfterException(s, d))
           /\ AfterException(s, d).task \in Terminal
  BY EndFacts DEF AfterException

LEMMA RejectedStep ==
    ASSUME TypeOK, Attached, NEW s \in Sessions, Rejected(s)
    PROVE  SessionStep(s)
  <1> DEFINE b == UpdateTaskState(Files(s), Target(s))
             d == AfterException(s, b)
  <1>1. Target(s) \in States /\ sess[s].pc \in Running
    BY TargetFacts DEF Rejected, Running
  <1>2. Files(s) \in Disk /\ Files(s).task \in States /\ sess[s].cur \notin Terminal
    BY <1>1, RunningFacts DEF Running
  <1>3. Files(s).task # Absent
    BY <1>2 DEF Absent, States
  <1>4. b \in Disk /\ b.task = Files(s).task
    BY <1>1, <1>2, <1>3, UpdateFacts DEF Rejected
  <1>5. d \in Disk /\ Moves(b, d) /\ d.task \in Terminal
    BY <1>2, <1>3, <1>4, AfterExceptionFacts
  <1>6. SetFiles(s, d) /\ EndRun(s)
    BY DEF Rejected
  <1> HIDE DEF b, d
  <1>7. Moves(Files(s), d)
    BY <1>4, <1>5 DEF Moves
  <1> QED
    BY <1>1, <1>5, <1>6, <1>7, EndRunStep

LEMMA BlockStep ==
    ASSUME TypeOK, Attached, NEW s \in Sessions, Block(s)
    PROVE  SessionStep(s)
  <1>1. sess[s].pc \in Running
    BY DEF Block, MustBlock, Running
  <1>2. Files(s) \in Disk /\ Files(s).task # Absent
    BY <1>1, RunningFacts DEF Running, Absent, States
  <1>3. /\ AfterBlock(Files(s)) \in Disk /\ AfterBlock(Files(s)).task \in Terminal
        /\ Moves(Files(s), AfterBlock(Files(s)))
    BY <1>2, EndFacts DEF AfterBlock, Moves
  <1> QED
    BY <1>1, <1>3, EndRunStep DEF Block

LEMMA RaisesStep ==
    ASSUME TypeOK, Attached, NEW s \in Sessions, Raises(s)
    PROVE  SessionStep(s)
  <1>1. sess[s].pc \in Running
    BY DEF Raises, WritesNow, Running
  <1>2. Files(s) \in Disk /\ Files(s).task # Absent /\ sess[s].cur \notin Terminal
    BY <1>1, RunningFacts DEF Running, Absent, States
  <1> QED
    BY <1>1, <1>2, AfterExceptionFacts, EndRunStep DEF Raises

\* A step of the working part that leaves the task's state alone.
LEMMA WorkStep ==
    ASSUME TypeOK, Attached, NEW s \in Sessions, Working(s),
           NEW d \in Disk, d.task = Files(s).task, SetFiles(s, d),
           NEW x \in Session, sess' = [sess EXCEPT ![s] = x],
           x.pc \in Running \ {"plan"}, x.task = sess[s].task, x.cur = sess[s].cur
    PROVE  SessionStep(s)
  <1>1. /\ sess[s].pc \in Running /\ sess[s].pc # "offline"
        /\ x.pc # "idle"
    BY DEF Working, Running
  <1>2. /\ sess[s].task \in Tasks /\ Files(s).task # Absent
        /\ sess[s].cur \in States \ Terminal
    BY <1>1, RunningFacts DEF Absent, States
  <1>3. FilesStep(sess[s].task, d)
    BY DEF FilesStep, SetFiles, Files, Moves
  <1> QED
    BY <1>1, <1>2, <1>3 DEF SessionStep

\* Calling the hub, starting an async route, polling it.
LEMMA WaitStep ==
    ASSUME TypeOK, Attached, NEW s \in Sessions,
           CallHub(s) \/ HubStarts(s) \/ PollAgain(s)
    PROVE  SessionStep(s)
  <1>1. Working(s) /\ sess[s].pc # "offline"
    BY DEF CallHub, HubStarts, PollAgain, Working, Running
  <1>2. /\ sess[s] \in Session /\ sess[s].task \in Tasks /\ Files(s) \in Disk
        /\ sess[s].polls \in 0..PollBudget
    BY <1>1, RunningFacts
  <1>3. SetFiles(s, Files(s))
    BY <1>2 DEF CallHub, HubStarts, PollAgain, SetFiles, Files, TypeOK
  <1>4. CASE CallHub(s)
    <2> DEFINE x == [sess[s] EXCEPT !.pc = "calling"]
    <2>1. x \in Session
      BY <1>2, SessionFacts DEF Running
    <2>2. x.pc \in Running \ {"plan"} /\ x.task = sess[s].task /\ x.cur = sess[s].cur
      BY <1>2 DEF Session, Running
    <2>3. sess' = [sess EXCEPT ![s] = x]
      BY <1>4 DEF CallHub
    <2> HIDE DEF x
    <2> QED
      BY <1>1, <1>2, <1>3, <2>1, <2>2, <2>3, WorkStep
  <1>5. CASE HubStarts(s)
    <2> DEFINE x == [sess[s] EXCEPT !.pc = "polling", !.polls = 0]
    <2>1. x \in Session
      BY <1>2, SessionFacts DEF Running
    <2>2. x.pc \in Running \ {"plan"} /\ x.task = sess[s].task /\ x.cur = sess[s].cur
      BY <1>2 DEF Session, Running
    <2>3. sess' = [sess EXCEPT ![s] = x]
      BY <1>5 DEF HubStarts
    <2> HIDE DEF x
    <2> QED
      BY <1>1, <1>2, <1>3, <2>1, <2>2, <2>3, WorkStep
  <1>6. CASE PollAgain(s)
    <2> DEFINE k == sess[s].polls + 1
               x == [sess[s] EXCEPT !.polls = k]
    <2>1. k \in 0..PollBudget
      BY <1>2, <1>6, DispatchAssumption DEF PollAgain
    <2>2. sess' = [sess EXCEPT ![s] = x]
      BY <1>6 DEF PollAgain
    <2> HIDE DEF k
    <2>3. x \in Session
      BY <1>2, <2>1 DEF Session
    <2>4. x.pc \in Running \ {"plan"} /\ x.task = sess[s].task /\ x.cur = sess[s].cur
      BY <1>1, <1>2 DEF Session, Working
    <2> HIDE DEF x
    <2> QED
      BY <1>1, <1>2, <1>3, <2>2, <2>3, <2>4, WorkStep
  <1> QED
    BY <1>4, <1>5, <1>6

\* The hub's answer, an artifact or the verdict is written down.
LEMMA WriteDownStep ==
    ASSUME TypeOK, Attached, NEW s \in Sessions,
           HubAnswers(s) \/ WriteArtifact(s) \/ AppendVerdict(s)
    PROVE  SessionStep(s)
  <1>1. Working(s) /\ sess[s].pc # "offline"
    BY DEF HubAnswers, MayAnswer, WriteArtifact, WritesNow, AppendVerdict, Working, Running
  <1>2. /\ sess[s] \in Session /\ sess[s].task \in Tasks /\ Files(s) \in Disk
        /\ sess[s].step \in Nat
    BY <1>1, RunningFacts
  <1>3. CASE HubAnswers(s)
    <2>1. PICK a \in {"ok", "blocked"} :
            /\ SetFiles(s, AppendEvent(Files(s), AiCallRow(sess[s].step)))
            /\ sess' = [sess EXCEPT ![s] = [@ EXCEPT !.pc = "judge", !.answer = a]]
      BY <1>3 DEF HubAnswers
    <2> DEFINE d == AppendEvent(Files(s), AiCallRow(sess[s].step))
               x == [sess[s] EXCEPT !.pc = "judge", !.answer = a]
    <2>2. d \in Disk /\ d.task = Files(s).task
      BY <1>2, RowFacts, AppendEventFacts
    <2>3. x \in Session
      BY <1>2, SessionFacts DEF Running, Answers
    <2>4. x.pc \in Running \ {"plan"} /\ x.task = sess[s].task /\ x.cur = sess[s].cur
      BY <1>2 DEF Session, Running
    <2>5. sess' = [sess EXCEPT ![s] = x] /\ SetFiles(s, d)
      BY <2>1
    <2> HIDE DEF d, x
    <2> QED
      BY <1>1, <1>2, <2>2, <2>3, <2>4, <2>5, WorkStep
  <1>4. CASE WriteArtifact(s)
    <2> DEFINE d == Persist(Files(s), sess[s].step)
               i == sess[s].step + 1
               x == [sess[s] EXCEPT !.pc = "loop", !.step = i, !.answer = "none"]
    <2>1. sess' = [sess EXCEPT ![s] = x] /\ SetFiles(s, d)
      BY <1>4 DEF WriteArtifact
    <2>2. d \in Disk /\ d.task = Files(s).task
      BY <1>2, PersistFacts
    <2>a. i \in Nat
      BY <1>2
    <2> HIDE DEF d, i
    <2>3. x \in Session
      BY <1>2, <2>a, SessionFacts DEF Running, Answers
    <2>4. x.pc \in Running \ {"plan"} /\ x.task = sess[s].task /\ x.cur = sess[s].cur
      BY <1>2 DEF Session, Running
    <2> HIDE DEF x
    <2> QED
      BY <1>1, <1>2, <2>1, <2>2, <2>3, <2>4, WorkStep
  <1>5. CASE AppendVerdict(s)
    <2> DEFINE d == AppendEvent(Files(s), VerdictRow)
               x == [sess[s] EXCEPT !.pc = "deliver"]
    <2>1. sess' = [sess EXCEPT ![s] = x] /\ SetFiles(s, d)
      BY <1>5 DEF AppendVerdict
    <2>2. d \in Disk /\ d.task = Files(s).task
      BY <1>2, RowFacts, AppendEventFacts
    <2>3. x \in Session
      BY <1>2, SessionFacts DEF Running
    <2>4. x.pc \in Running \ {"plan"} /\ x.task = sess[s].task /\ x.cur = sess[s].cur
      BY <1>2 DEF Session, Running
    <2> HIDE DEF d, x
    <2> QED
      BY <1>1, <1>2, <2>1, <2>2, <2>3, <2>4, WorkStep
  <1> QED
    BY <1>3, <1>4, <1>5

\* Every step of a run.
LEMMA RunStep ==
    ASSUME TypeOK, Attached, NEW s \in Sessions, Run(s)
    PROVE  SessionStep(s)
  BY AdvanceStep, RejectedStep, BlockStep, WaitStep, RaisesStep, WriteDownStep DEF Run

-----------------------------------------------------------------------------
(* The connection, the other endpoints and the crashes.                    *)

LEMMA UserMessageStep ==
    ASSUME TypeOK, Attached, NEW s \in Sessions, UserMessage(s)
    PROVE  SessionStep(s)
  <1>1. sess[s].pc = "idle" /\ sess[s].pc # "offline"
    BY DEF UserMessage
  <1>2. /\ sess[s] \in Session /\ sess[s].task \in Tasks
        /\ Files(s) \in Disk /\ Files(s).task \in States
    BY <1>1, RunningFacts
  <1> DEFINE st == Files(s).task
             d == IF st = "created" THEN UpdateTaskState(Files(s), "planning") ELSE Files(s)
             n == sess[s].count + 1
             p == IF st \in Terminal THEN "idle" ELSE "plan"
             c == IF st \in Terminal THEN None ELSE IF st = "created" THEN "planning" ELSE st
             x == [Offline EXCEPT !.task = sess[s].task, !.count = n, !.pc = p, !.cur = c,
                                  !.step = 1]
  <1>3. sess' = [sess EXCEPT ![s] = x]
    BY DEF UserMessage
  <1>4. SetFiles(s, d)
    BY <1>2 DEF UserMessage, SetFiles, Files, TypeOK
  <1>5. n \in 0..MaxMessages
    BY <1>2, DispatchAssumption DEF UserMessage, Session
  <1>6. d \in Disk /\ Moves(Files(s), d) /\ d.task # Absent
    <2>1. "planning" \in States /\ "created" # Absent /\ Files(s).task # Absent
      BY <1>2 DEF States, Absent
    <2>2. CASE st = "created"
      <3>1. Legal(st, "planning")
        BY <2>2 DEF Legal, Transitions, Forward
      <3> QED
        BY <1>2, <2>1, <2>2, <3>1, UpdateFacts DEF Absent
    <2>3. CASE st # "created"
      BY <1>2, <2>1, <2>3 DEF Moves
    <2> QED
      BY <2>2, <2>3
  <1>7. p \in {"idle", "plan"} /\ c \in States \cup {None} /\ (p = "plan" => c \in States \ Terminal)
    BY <1>2 DEF States, Terminal
  <1> HIDE DEF n, p, c, d
  <1>8. x \in Session
    <2>1. p \in Running \cup {"offline", "idle"}
      BY <1>7 DEF Running
    <2> QED
      BY <1>2, <1>5, <1>7, <2>1, OfflineFacts DEF Session
  <1>9. x.pc = p /\ x.task = sess[s].task /\ x.cur = c
    BY DEF Offline
  <1>10. "idle" \notin Running
    BY DEF Running
  <1> HIDE DEF x
  <1>11. FilesStep(sess[s].task, d)
    BY <1>4, <1>6 DEF FilesStep, SetFiles, Files
  <1> QED
    BY <1>1, <1>2, <1>3, <1>6, <1>7, <1>8, <1>9, <1>10, <1>11 DEF SessionStep

\* A session that opens, closes or is told to stop.
LEMMA ConnectionStep ==
    ASSUME TypeOK, Attached, NEW s \in Sessions,
           (\E t \in Tasks : Connect(s, t)) \/ HangUp(s) \/ Disconnect(s) \/ Cancel(s)
    PROVE  SessionStep(s)
  <1>1. CASE \E t \in Tasks : Connect(s, t)
    <2>1. PICK t \in Tasks : Connect(s, t)
      BY <1>1
    <2> DEFINE x == [Offline EXCEPT !.pc = "idle", !.task = t]
    <2>2. x \in Session /\ x.pc = "idle" /\ x.task = t
      BY OfflineFacts DEF Session, Offline
    <2>3. sess' = [sess EXCEPT ![s] = x] /\ UNCHANGED disk /\ sess[s].pc = "offline"
      BY <2>1 DEF Connect
    <2>4. FilesStep(t, disk[t]) /\ disk[t] \in Disk /\ disk[t].task # Absent
      BY <2>1, <2>3, StaysFacts DEF TypeOK, Connect
    <2> HIDE DEF x
    <2> QED
      BY <2>2, <2>3, <2>4 DEF SessionStep, Running
  <1>2. CASE HangUp(s) \/ Disconnect(s)
    <2>1. sess' = [sess EXCEPT ![s] = Offline] /\ UNCHANGED disk /\ sess[s].pc # "offline"
      BY <1>2 DEF HangUp, Disconnect, Running
    <2>2. sess[s].task \in Tasks /\ Files(s) \in Disk
      BY <2>1, RunningFacts
    <2>3. FilesStep(sess[s].task, Files(s))
      BY <2>1, <2>2, StaysFacts DEF Files
    <2> QED
      BY <2>1, <2>2, <2>3, OfflineFacts DEF SessionStep, Running
  <1>3. CASE Cancel(s)
    <2> DEFINE x == [sess[s] EXCEPT !.cancel = TRUE]
    <2>1. /\ sess' = [sess EXCEPT ![s] = x] /\ UNCHANGED disk
          /\ sess[s].pc \in Running /\ sess[s].pc # "offline"
      BY <1>3 DEF Cancel, Running
    <2>2. /\ sess[s] \in Session /\ sess[s].task \in Tasks /\ Files(s) \in Disk
          /\ Files(s).task # Absent /\ sess[s].cur \in States \ Terminal
      BY <2>1, RunningFacts DEF Absent, States
    <2>3. x \in Session
      BY <2>2 DEF Session
    <2>4. x.pc = sess[s].pc /\ x.task = sess[s].task /\ x.cur = sess[s].cur
      BY <2>2 DEF Session
    <2>5. FilesStep(sess[s].task, Files(s))
      BY <2>1, <2>2, StaysFacts DEF Files
    <2>6. "idle" \notin Running
      BY DEF Running
    <2> HIDE DEF x
    <2> QED
      BY <2>1, <2>2, <2>3, <2>4, <2>5, <2>6 DEF SessionStep, Working
  <1> QED
    BY <1>1, <1>2, <1>3

LEMMA EndpointStep ==
    ASSUME TypeOK, NEW t \in Tasks, Create(t) \/ NoteLocalFailure(t)
    PROVE  WorldStep
  <1>1. disk[t] \in Disk
    BY DEF TypeOK
  <1>2. CASE Create(t)
    <2>1. FilesStep(t, CreateTask(disk[t])) /\ CreateTask(disk[t]) \in Disk
      BY <1>1, <1>2, CreateFacts DEF Create, FilesStep
    <2> QED
      BY <1>2, <2>1 DEF Create, WorldStep
  <1>3. CASE NoteLocalFailure(t)
    <2> DEFINE d == AppendEvent(disk[t], AiCallRow(0))
    <2>1. d \in Disk /\ d.task = disk[t].task
      BY <1>1, RowFacts, AppendEventFacts
    <2>2. disk' = [disk EXCEPT ![t] = d] /\ UNCHANGED sess
      BY <1>3 DEF NoteLocalFailure
    <2> HIDE DEF d
    <2> QED
      BY <2>1, <2>2 DEF WorldStep, FilesStep, Moves
  <1> QED
    BY <1>2, <1>3

\* What a dying process leaves keeps to the lifecycle too.
LEMMA TornFacts ==
    ASSUME NEW d \in Disk, d.task # Absent, NEW row \in Row, NEW to \in States
    PROVE  /\ \A e \in TornAppend(d, row) : e \in Disk /\ Moves(d, e)
           /\ \A e \in TornAttempt(d, to) : e \in Disk /\ Moves(d, e)
  <1>1. \A e \in TornAppend(d, row) : e \in Disk /\ Moves(d, e)
    BY AppendEventFacts DEF TornAppend, Moves
  <1>2. \A e \in TornUpdate(d, to) : e \in Disk /\ Moves(d, e)
    BY UpdateFacts
  <1>3. ASSUME ~Legal(d.task, to), NEW e \in TornUpdate(UpdateTaskState(d, to), "error")
        PROVE  e \in Disk /\ Moves(d, e)
    <2> DEFINE b == UpdateTaskState(d, to)
    <2>1. b \in Disk /\ b.task = d.task
      BY <1>3, UpdateFacts
    <2>2. "error" \in States
      BY DEF States
    <2> HIDE DEF b
    <2>3. \A f \in TornUpdate(b, "error") : f \in Disk /\ Moves(b, f)
      BY <2>1, <2>2, UpdateFacts
    <2> QED
      BY <1>3, <2>1, <2>3 DEF Moves, b
  <1> QED
    BY <1>1, <1>2, <1>3 DEF TornAttempt

LEMMA TornStepFacts ==
    ASSUME TypeOK, Attached, NEW s \in Sessions, sess[s].pc # "offline", NEW e \in TornStep(s)
    PROVE  e \in Disk /\ Moves(Files(s), e)
  <1>1. /\ Files(s) \in Disk /\ sess[s].step \in Nat /\ Files(s).task # Absent
    BY RunningFacts DEF Absent, States
  <1>2. /\ "planning" \in States /\ "blocked" \in States /\ "error" \in States
        /\ VerdictRow \in Row /\ AiCallRow(sess[s].step) \in Row
        /\ Target(s) # None => Target(s) \in States
    BY <1>1, RowFacts, TargetFacts DEF States
  <1>3. \A to \in States : \A f \in TornUpdate(Files(s), to) \cup TornAttempt(Files(s), to) :
            f \in Disk /\ Moves(Files(s), f)
    BY <1>1, <1>2, UpdateFacts, TornFacts
  <1>4. \A row \in Row : \A f \in TornAppend(Files(s), row) : f \in Disk /\ Moves(Files(s), f)
    BY <1>1, <1>2, TornFacts
  <1>5. \A f \in TornPersist(Files(s), sess[s].step) : f \in Disk /\ Moves(Files(s), f)
    BY <1>1, PersistFacts DEF Moves
  <1> QED
    BY <1>2, <1>3, <1>4, <1>5 DEF TornStep

LEMMA CrashesStep ==
    ASSUME TypeOK, Attached,
           \/ \E t \in Tasks : CrashInCreate(t) \/ CrashInNote(t)
           \/ \E s \in Sessions : CrashInRun(s)
    PROVE  CrashStep
  <1>1. ASSUME NEW t \in Tasks, CrashInCreate(t)
        PROVE  CrashStep
    BY <1>1, CreateFacts DEF CrashInCreate, Crash, CrashStep, FilesStep, TypeOK
  <1>2. ASSUME NEW t \in Tasks, CrashInNote(t)
        PROVE  CrashStep
    <2>1. AiCallRow(0) \in Row /\ "error" \in States
      BY RowFacts DEF States
    <2>2. \A d \in TornAppend(disk[t], AiCallRow(0)) : d \in Disk /\ Moves(disk[t], d)
      BY <1>2, <2>1, TornFacts DEF CrashInNote, TypeOK
    <2> QED
      BY <1>2, <2>2 DEF CrashInNote, Crash, CrashStep, FilesStep
  <1>3. ASSUME NEW s \in Sessions, CrashInRun(s)
        PROVE  CrashStep
    <2>1. PICK d \in TornStep(s) \cup {Files(s)} : SetFiles(s, d)
      BY <1>3 DEF CrashInRun
    <2>2. /\ sess[s].pc # "offline" /\ sess[s].task \in Tasks /\ Files(s) \in Disk
      BY <1>3, RunningFacts DEF CrashInRun
    <2>3. d \in Disk /\ Moves(Files(s), d)
      BY <2>1, <2>2, TornStepFacts DEF Moves
    <2> QED
      BY <1>3, <2>1, <2>2, <2>3 DEF CrashInRun, Crash, CrashStep, FilesStep, SetFiles, Files
  <1> QED
    BY <1>1, <1>2, <1>3

\* The shapes cover Next.
LEMMA NextShapes ==
    ASSUME TypeOK, Attached, Next
    PROVE  /\ (\E s \in Sessions : SessionStep(s)) \/ WorldStep \/ CrashStep
           /\ crashes' \in 0..MaxCrashes
  <1>1. (\E s \in Sessions : SessionStep(s)) \/ WorldStep \/ CrashStep
    BY RunStep, UserMessageStep, ConnectionStep, EndpointStep, CrashesStep DEF Next, Alive
  <1>2. crashes' \in 0..MaxCrashes
    BY DispatchAssumption DEF Next, TypeOK, CrashInCreate, CrashInNote, CrashInRun, Crash
  <1> QED
    BY <1>1, <1>2

-----------------------------------------------------------------------------
(* The invariant is inductive.                                             *)

LEMMA InitInvariant == Init => IInv
  <1> SUFFICES ASSUME Init PROVE IInv
    OBVIOUS
  <1>1. EmptyDisk \in Disk
    <2>1. <<>> \in Seq(Row)
      OBVIOUS
    <2>2. [seq |-> 0, state |-> None] \in Index
      BY DEF Index
    <2> QED
      BY <2>1, <2>2 DEF EmptyDisk, Disk
  <1>2. TypeOK
    BY <1>1, OfflineFacts, DispatchAssumption DEF Init, TypeOK
  <1>3. \A s \in Sessions : sess[s].pc = "offline"
    BY OfflineFacts DEF Init
  <1> QED
    BY <1>2, <1>3 DEF IInv, Attached, SingleDispatcher, Working, Running

\* A session's step keeps the invariant: of the sessions of one task, only the
\* one that takes the task from planning to dispatching starts to work.
LEMMA SessionInvariant ==
    ASSUME IInv, NEW s \in Sessions, SessionStep(s), crashes' \in 0..MaxCrashes
    PROVE  IInv'
  <1>1. PICK t \in Tasks, d \in Disk, x \in Session :
          /\ FilesStep(t, d)
          /\ sess' = [sess EXCEPT ![s] = x]
          /\ x.pc # "offline" => x.task = t /\ d.task # Absent
          /\ x.pc \in Running => x.cur \in States \ Terminal
          /\ x.pc \in Running \ {"plan"} =>
                \/ Working(s) /\ sess[s].task = t
                \/ disk[t].task = "planning" /\ d.task = "dispatching"
    BY DEF SessionStep
  <1>2. /\ disk' = [disk EXCEPT ![t] = d]
        /\ disk \in [Tasks -> Disk] /\ sess \in [Sessions -> Session]
    BY <1>1 DEF FilesStep, IInv, TypeOK
  <1>3. TypeOK'
    BY <1>1, <1>2 DEF IInv, TypeOK
  <1>4. d.task # Absent \/ disk[t].task = Absent
    BY <1>1, LegalStates DEF FilesStep, Moves, States, Absent
  <1>5. disk[t].task \notin {"created", "planning", Absent} => d.task \notin {"created", "planning"}
    BY <1>1 DEF FilesStep, Moves, Legal, Transitions, Forward, States, Terminal
  <1>6. ASSUME NEW q \in Sessions
        PROVE  /\ (sess[q].pc # "offline" => Files(q).task # Absent)'
               /\ (Working(q) => Files(q).task \notin {"created", "planning"})'
               /\ (sess[q].pc \in Running => sess[q].cur \in States \ Terminal)'
    <2>1. CASE q = s
      <3>1. sess'[q] = x
        BY <1>1, <1>2, <2>1
      <3>2. x.pc # "offline" => Files(q)' = d
        BY <1>1, <1>2, <3>1 DEF Files
      <3>3. x.pc \in Running \ {"plan"} => d.task \notin {"created", "planning"}
        BY <1>1, <1>5 DEF IInv, Attached, Working, Running, Files
      <3> QED
        BY <1>1, <3>1, <3>2, <3>3 DEF Working, Running
    <2>2. CASE q # s
      <3>1. sess'[q] = sess[q]
        BY <1>1, <1>2, <2>2
      <3>2. sess[q].pc # "offline" => Files(q)' = IF sess[q].task = t THEN d ELSE Files(q)
        BY <1>2, <3>1 DEF Files, IInv, TypeOK
      <3> QED
        BY <1>4, <1>5, <3>1, <3>2 DEF IInv, Attached, Working, Running, Files
    <2> QED
      BY <2>1, <2>2
  <1>7. ASSUME NEW q \in Sessions, q # s, Working(q)', Working(s)', (sess[q].task = sess[s].task)'
        PROVE  FALSE
    <2>1. sess'[q] = sess[q] /\ sess'[s] = x
      BY <1>1, <1>2, <1>7
    <2>2. Working(q) /\ x.pc \in Running \ {"plan"} /\ sess[q].task = t
      BY <1>1, <1>7, <2>1 DEF Working, Running
    <2>3. disk[t].task \notin {"created", "planning"}
      BY <2>2 DEF IInv, Attached, Files
    <2>4. Working(s) /\ sess[s].task = t
      BY <1>1, <2>2, <2>3
    <2> QED
      BY <1>7, <2>2, <2>4 DEF IInv, SingleDispatcher
  <1>8. SingleDispatcher'
    <2>1. ASSUME NEW p \in Sessions, NEW q \in Sessions,
                 (Working(p) /\ Working(q) /\ sess[p].task = sess[q].task)', p # q
          PROVE  FALSE
      <3>1. CASE p = s
        BY <1>7, <2>1, <3>1
      <3>2. CASE q = s
        BY <1>7, <2>1, <3>2
      <3>3. CASE p # s /\ q # s
        <4>1. sess'[p] = sess[p] /\ sess'[q] = sess[q]
          BY <1>1, <1>2, <3>3
        <4> QED
          BY <2>1, <4>1 DEF IInv, SingleDispatcher, Working
      <3> QED
        BY <3>1, <3>2, <3>3
    <2> QED
      BY <2>1 DEF SingleDispatcher
  <1> QED
    BY <1>3, <1>6, <1>8 DEF IInv, Attached

LEMMA WorldInvariant ==
    ASSUME IInv, WorldStep, crashes' \in 0..MaxCrashes
    PROVE  IInv'
  <1>1. PICK t \in Tasks, d \in Disk : FilesStep(t, d)
    BY DEF WorldStep
  <1>2. disk' = [disk EXCEPT ![t] = d] /\ Moves(disk[t], d) /\ sess' = sess
    BY <1>1 DEF WorldStep, FilesStep
  <1>3. TypeOK'
    BY <1>1, <1>2 DEF IInv, TypeOK
  <1>4. /\ d.task # Absent \/ disk[t].task = Absent
        /\ disk[t].task \notin {"created", "planning", Absent} =>
              d.task \notin {"created", "planning"}
    BY <1>2 DEF Moves, Legal, Transitions, Forward, States, Terminal, Absent
  <1>5. \A q \in Sessions :
            sess[q].pc # "offline" => Files(q)' = IF sess[q].task = t THEN d ELSE Files(q)
    BY <1>2 DEF Files, IInv, TypeOK
  <1>6. Attached'
    BY <1>2, <1>4, <1>5 DEF IInv, Attached, Working, Running, Files
  <1> QED
    BY <1>2, <1>3, <1>6 DEF IInv, SingleDispatcher, Working

LEMMA CrashInvariant ==
    ASSUME IInv, CrashStep, crashes' \in 0..MaxCrashes
    PROVE  IInv'
  <1>1. \A s \in Sessions : sess'[s].pc = "offline"
    BY OfflineFacts DEF CrashStep
  <1>2. TypeOK'
    BY <1>1, OfflineFacts DEF CrashStep, FilesStep, IInv, TypeOK
  <1> QED
    BY <1>1, <1>2 DEF IInv, Attached, SingleDispatcher, Working, Running

LEMMA StutterInvariant == IInv /\ UNCHANGED vars => IInv'
  BY DEF vars, IInv, TypeOK, Attached, SingleDispatcher, Working, Files

LEMMA NextInvariant == IInv /\ [Next]_vars => IInv'
  <1> SUFFICES ASSUME IInv, [Next]_vars PROVE IInv'
    OBVIOUS
  <1>1. CASE Next
    BY <1>1, NextShapes, SessionInvariant, WorldInvariant, CrashInvariant DEF IInv
  <1>2. CASE UNCHANGED vars
    BY <1>2, StutterInvariant
  <1> QED
    BY <1>1, <1>2

LEMMA Invariance == Spec => []IInv
  BY InitInvariant, NextInvariant, PTL DEF Spec

-----------------------------------------------------------------------------
(* Theorems.                                                               *)

\* Files and sessions keep their types: in particular the store never appends
\* an event about a task that does not exist.
THEOREM TypeCorrect == Spec => []TypeOK
  <1>1. IInv => TypeOK
    BY DEF IInv
  <1> QED
    BY <1>1, Invariance, PTL

\* However many chats there are on a task, one at most spends hub calls on it:
\* the check of update_task_state on the way to dispatching is lock enough.
THEOREM OneDispatcherPerTask == Spec => []SingleDispatcher
  <1>1. IInv => SingleDispatcher
    BY DEF IInv
  <1> QED
    BY <1>1, Invariance, PTL

\* A run that ends by itself, after an accepted or a refused transition, a block
\* or an exception, leaves a terminal task behind.
THEOREM EndedRunsAreTerminal == Spec => RunsEndTerminal
  <1>1. IInv /\ Next =>
          \A s \in Sessions :
              sess[s].pc \in Running /\ sess'[s].pc = "idle" =>
                  disk'[sess[s].task].task \in Terminal
    <2> SUFFICES ASSUME IInv, Next, NEW s \in Sessions,
                        sess[s].pc \in Running, sess'[s].pc = "idle"
                 PROVE  disk'[sess[s].task].task \in Terminal
      OBVIOUS
    <2>1. sess[s].pc # "idle" /\ sess \in [Sessions -> Session] /\ disk \in [Tasks -> Disk]
      BY DEF Running, IInv, TypeOK
    <2>2. CASE \E q \in Sessions : SessionStep(q)
      <3>1. PICK q \in Sessions : SessionStep(q)
        BY <2>2
      <3>2. PICK t \in Tasks, d \in Disk, x \in Session :
              /\ FilesStep(t, d)
              /\ sess' = [sess EXCEPT ![q] = x]
              /\ sess[q].pc \in Running /\ x.pc = "idle" =>
                    sess[q].task = t /\ d.task \in Terminal
        BY <3>1 DEF SessionStep
      <3>3. q = s /\ x.pc = "idle"
        BY <2>1, <3>2
      <3> QED
        BY <2>1, <3>2, <3>3 DEF FilesStep
    <2>3. CASE WorldStep
      BY <2>1, <2>3 DEF WorldStep
    <2>4. CASE CrashStep
      BY <2>4, OfflineFacts DEF CrashStep
    <2> QED
      BY <2>2, <2>3, <2>4, NextShapes DEF IInv
  <1>2. IInv /\ [Next]_vars =>
          [\A s \in Sessions :
              sess[s].pc \in Running /\ sess'[s].pc = "idle" =>
                  disk'[sess[s].task].task \in Terminal]_vars
    BY <1>1
  <1> QED
    BY <1>2, Invariance, PTL DEF Spec, RunsEndTerminal

\* task.json of every task refines the task lifecycle.
THEOREM RefinesLifecycle == Spec => FollowsLifecycle
  <1>0. /\ Lifecycles!Absent = Absent /\ Lifecycles!States = States
        /\ \A from, to : Lifecycles!Legal(from, to) <=> Legal(from, to)
    BY DEF Lifecycles!Absent, Absent, Lifecycles!States, States, Lifecycles!Legal, Legal,
           Lifecycles!Transitions, Transitions, Lifecycles!Forward, Forward,
           Lifecycles!Terminal, Terminal
  <1>1. Init => Lifecycles!Init
    BY <1>0 DEF Init, Lifecycles!Init, EmptyDisk, TaskState
  <1>2. ASSUME IInv, NEW v \in Tasks, NEW d \in Disk, FilesStep(v, d)
        PROVE  [Lifecycles!Next]_TaskState
    <2>1. disk \in [Tasks -> Disk] /\ disk' = [disk EXCEPT ![v] = d] /\ Moves(disk[v], d)
      BY <1>2 DEF IInv, TypeOK, FilesStep
    <2>2. TaskState' = [TaskState EXCEPT ![v] = d.task] /\ TaskState[v] = disk[v].task
      BY <2>1 DEF TaskState
    <2>3. CASE d.task = disk[v].task
      BY <2>1, <2>3 DEF TaskState
    <2>4. CASE disk[v].task = Absent /\ d.task = "created"
      BY <1>0, <2>2, <2>4 DEF Lifecycles!Next, Lifecycles!Create
    <2>5. CASE Legal(disk[v].task, d.task)
      <3>1. d.task \in States
        BY <2>5, LegalStates
      <3> QED
        BY <1>0, <2>2, <2>5, <3>1 DEF Lifecycles!Next, Lifecycles!Advance
    <2> QED
      BY <2>1, <2>3, <2>4, <2>5 DEF Moves
  <1>3. IInv /\ [Next]_vars => [Lifecycles!Next]_TaskState
    <2> SUFFICES ASSUME IInv, [Next]_vars
                 PROVE  [Lifecycles!Next]_TaskState
      OBVIOUS
    <2>1. CASE Next
      BY <1>2, <2>1, NextShapes DEF IInv, SessionStep, WorldStep, CrashStep
    <2>2. CASE UNCHANGED vars
      BY <2>2 DEF vars, TaskState
    <2> QED
      BY <2>1, <2>2
  <1> QED
    BY <1>1, <1>3, Invariance, PTL DEF Spec, FollowsLifecycle, Lifecycles!Spec

-----------------------------------------------------------------------------
(* What the files of a task hold together.                                 *)

\* The rows of hub calls; those of a local failure are of step 0.
CallRows(d) == {k \in DOMAIN d.ledger : d.ledger[k].type = "ai_call" /\ d.ledger[k].step # 0}

Called(d) == {d.ledger[k].step : k \in CallRows(d)}

ProducedRows(d) == {k \in DOMAIN d.ledger : d.ledger[k].type = "artifact_produced"}

Produced(d) == {d.ledger[k].step : k \in ProducedRows(d)}

Judged(d) == RowsOf(d.ledger, "cross_validation", 0) # {}

CallsOnce(d) == \A j, k \in CallRows(d) : d.ledger[j].step = d.ledger[k].step => j = k

Complete(t, d) == 1..Len(Plan(t)) \subseteq Produced(d) /\ Judged(d)

\* The last row with a state tells of an error or of a state the task has gone through.
Backed(d) ==
    \A j \in Lifecycle(d.ledger) :
        (\A k \in Lifecycle(d.ledger) : k <= j) =>
            \/ d.ledger[j].to = "error"
            \/ d.task # Absent /\ Reaches(d.ledger[j].to, d.task)

Early == {Absent, "created", "planning"}

DiskHolds(t, d) ==
    /\ CallsOnce(d)
    /\ Produced(d) \subseteq d.files
    /\ Backed(d)
    /\ d.task = "delivered" => Complete(t, d)
    /\ d.task \in Early => Called(d) = {}

\* Nothing that a working session relies on is taken away or added.
Quiet(d, e) ==
    /\ Called(e) = Called(d)
    /\ Produced(d) \subseteq Produced(e)
    /\ Judged(d) => Judged(e)

\* What a session x with files d has done of its plan is on disk, and it has called the
\* hub for no step beyond.
Knows(x, d) ==
    /\ x.pc = "plan" => x.step = 1
    /\ x.pc \in Running \ {"plan"} =>
        /\ x.step # 0
        /\ 1..(x.step - 1) \subseteq Produced(d)
        /\ \A c \in Called(d) : c < x.step \/ (c = x.step /\ x.pc \in {"judge", "write"})
        /\ x.pc \in {"verdict", "deliver"} => x.step > Len(Plan(x.task))
        /\ x.pc = "deliver" => Judged(d)

FilesInv ==
    /\ \A t \in Tasks : DiskHolds(t, disk[t])
    /\ \A s \in Sessions : Knows(sess[s], Files(s))

-----------------------------------------------------------------------------
(* One row.                                                                *)

\* append_event and its torn half differ in the index only.
LEMMA RowEffect ==
    ASSUME NEW d \in Disk, NEW row \in Row,
           NEW e, e = AppendEvent(d, row) \/ e = WriteRow(d, row)
    PROVE  /\ e \in Disk /\ e.task = d.task /\ e.files = d.files
           /\ e.ledger = Append(d.ledger, row)
  <1> DEFINE w == WriteRow(d, row)
  <1>1. w = [d EXCEPT !.ledger = Append(d.ledger, row)]
    BY DEF WriteRow
  <1>2. w \in Disk /\ AppendEvent(d, row) \in Disk
    BY AppendEventFacts
  <1>3. w.task = d.task /\ w.files = d.files /\ w.ledger = Append(d.ledger, row)
    BY <1>1 DEF Disk
  <1> HIDE DEF w
  <1>4. /\ UpdateIndex(w, row).task = w.task /\ UpdateIndex(w, row).files = w.files
        /\ UpdateIndex(w, row).ledger = w.ledger
    BY <1>2 DEF UpdateIndex, Disk
  <1> QED
    BY <1>2, <1>3, <1>4 DEF AppendEvent, w

\* What a row more changes of the ledger, whatever else the disk holds.
LEMMA LedgerEffect ==
    ASSUME NEW d \in Disk, NEW row \in Row, NEW e \in Disk, e.ledger = Append(d.ledger, row)
    PROVE  /\ Called(e) = Called(d) \cup
                (IF row.type = "ai_call" /\ row.step # 0 THEN {row.step} ELSE {})
           /\ CallsOnce(d) /\ (row.type = "ai_call" /\ row.step # 0 => row.step \notin Called(d))
                => CallsOnce(e)
           /\ Produced(e) = Produced(d) \cup
                (IF row.type = "artifact_produced" THEN {row.step} ELSE {})
           /\ Judged(e) <=> Judged(d) \/ (row.type = "cross_validation" /\ row.step = 0)
           /\ Len(d.ledger) \in Nat /\ DOMAIN d.ledger = 1..Len(d.ledger)
           /\ \A k \in DOMAIN d.ledger : e.ledger[k] = d.ledger[k]
           /\ e.ledger[Len(d.ledger) + 1] = row
  <1> DEFINE n == Len(d.ledger)
             real == row.type = "ai_call" /\ row.step # 0
  <1>1. d.ledger \in Seq(Row)
    BY DEF Disk
  <1>2. /\ n \in Nat /\ DOMAIN d.ledger = 1..n /\ DOMAIN e.ledger = 1..(n + 1)
        /\ \A k \in 1..n : e.ledger[k] = d.ledger[k]
        /\ e.ledger[n + 1] = row
    BY <1>1, AppendProperties
  <1>3. DOMAIN e.ledger = DOMAIN d.ledger \cup {n + 1} /\ n + 1 \notin DOMAIN d.ledger
    BY <1>2
  <1> HIDE DEF n
  <1>4. CallRows(e) = CallRows(d) \cup (IF real THEN {n + 1} ELSE {})
    BY <1>2, <1>3 DEF CallRows
  <1>5. ProducedRows(e) = ProducedRows(d) \cup (IF row.type = "artifact_produced" THEN {n + 1} ELSE {})
    BY <1>2, <1>3 DEF ProducedRows
  <1>6. CallRows(d) \subseteq DOMAIN d.ledger /\ ProducedRows(d) \subseteq DOMAIN d.ledger
    BY DEF CallRows, ProducedRows
  <1>7. Called(e) = Called(d) \cup (IF real THEN {row.step} ELSE {})
    BY <1>2, <1>4, <1>6 DEF Called
  <1>8. Produced(e) = Produced(d) \cup (IF row.type = "artifact_produced" THEN {row.step} ELSE {})
    BY <1>2, <1>5, <1>6 DEF Produced
  <1>9. ASSUME CallsOnce(d), real => row.step \notin Called(d) PROVE CallsOnce(e)
    <2> SUFFICES ASSUME NEW j \in CallRows(e), NEW k \in CallRows(e),
                        e.ledger[j].step = e.ledger[k].step
                 PROVE  j = k
      BY DEF CallsOnce
    <2>1. CASE j \in CallRows(d) /\ k \in CallRows(d)
      BY <1>2, <1>6, <1>9, <2>1 DEF CallsOnce
    <2>2. CASE j \notin CallRows(d) /\ k \in CallRows(d)
      <3>1. real /\ j = n + 1 /\ e.ledger[k] = d.ledger[k] /\ e.ledger[j] = row
        BY <1>2, <1>4, <1>6, <2>2
      <3> QED
        BY <1>9, <2>2, <3>1 DEF Called
    <2>3. CASE j \in CallRows(d) /\ k \notin CallRows(d)
      <3>1. real /\ k = n + 1 /\ e.ledger[j] = d.ledger[j] /\ e.ledger[k] = row
        BY <1>2, <1>4, <1>6, <2>3
      <3> QED
        BY <1>9, <2>3, <3>1 DEF Called
    <2>4. CASE j \notin CallRows(d) /\ k \notin CallRows(d)
      BY <1>4, <2>4
    <2> QED
      BY <2>1, <2>2, <2>3, <2>4
  <1>10. Judged(e) <=> Judged(d) \/ (row.type = "cross_validation" /\ row.step = 0)
    BY <1>2, <1>3 DEF Judged, RowsOf
  <1> QED
    BY <1>2, <1>7, <1>8, <1>9, <1>10 DEF n

\* A row may be added when it tells of what is there.
LEMMA AddRow ==
    ASSUME NEW t \in Tasks, NEW d \in Disk, DiskHolds(t, d), NEW row \in Row,
           row.type = "ai_call" /\ row.step # 0 => row.step \notin Called(d) /\ d.task \notin Early,
           row.type = "artifact_produced" => row.step \in d.files,
           row.to # None => row.to = "error" \/ (d.task # Absent /\ Reaches(row.to, d.task)),
           NEW e, e = AppendEvent(d, row) \/ e = WriteRow(d, row)
    PROVE  /\ DiskHolds(t, e) /\ e \in Disk /\ e.task = d.task
           /\ Called(e) = Called(d) \cup
                (IF row.type = "ai_call" /\ row.step # 0 THEN {row.step} ELSE {})
           /\ Produced(e) = Produced(d) \cup
                (IF row.type = "artifact_produced" THEN {row.step} ELSE {})
           /\ Judged(e) <=> Judged(d) \/ (row.type = "cross_validation" /\ row.step = 0)
           /\ ~(row.type = "ai_call" /\ row.step # 0) => Quiet(d, e)
  <1>1. /\ e \in Disk /\ e.task = d.task /\ e.files = d.files
        /\ e.ledger = Append(d.ledger, row)
    BY RowEffect
  <1> DEFINE n == Len(d.ledger)
             real == row.type = "ai_call" /\ row.step # 0
  <1>2. /\ Called(e) = Called(d) \cup (IF real THEN {row.step} ELSE {})
        /\ Produced(e) = Produced(d) \cup
             (IF row.type = "artifact_produced" THEN {row.step} ELSE {})
        /\ Judged(e) <=> Judged(d) \/ (row.type = "cross_validation" /\ row.step = 0)
    BY <1>1, LedgerEffect
  <1>3. CallsOnce(e)
    BY <1>1, LedgerEffect DEF DiskHolds
  <1>4. Backed(e)
    <2> SUFFICES ASSUME NEW j \in Lifecycle(e.ledger),
                        \A k \in Lifecycle(e.ledger) : k <= j
                 PROVE  e.ledger[j].to = "error" \/ (e.task # Absent /\ Reaches(e.ledger[j].to, e.task))
      BY DEF Backed
    <2>1. /\ n \in Nat /\ DOMAIN d.ledger = 1..n /\ e.ledger[n + 1] = row
          /\ \A k \in DOMAIN d.ledger : e.ledger[k] = d.ledger[k]
      BY <1>1, LedgerEffect
    <2>2. Lifecycle(d.ledger) \subseteq 1..n /\ DOMAIN e.ledger = 1..(n + 1)
      <3>1. d.ledger \in Seq(Row)
        BY DEF Disk
      <3>2. DOMAIN e.ledger = 1..(n + 1)
        BY <1>1, <2>1, <3>1, AppendProperties
      <3> QED
        BY <2>1, <3>2 DEF Lifecycle
    <2> HIDE DEF n
    <2>3. CASE row.to = None
      <3>1. Lifecycle(e.ledger) = Lifecycle(d.ledger)
        BY <2>1, <2>2, <2>3 DEF Lifecycle
      <3> QED
        BY <1>1, <2>1, <2>2, <3>1 DEF DiskHolds, Backed
    <2>4. CASE row.to # None
      <3>1. Lifecycle(e.ledger) = Lifecycle(d.ledger) \cup {n + 1}
        BY <2>1, <2>2, <2>4 DEF Lifecycle
      <3>2. j = n + 1
        BY <2>1, <2>2, <3>1
      <3> QED
        BY <1>1, <2>1, <2>4, <3>2
    <2> QED
      BY <2>3, <2>4
  <1>5. Produced(e) \subseteq e.files
    BY <1>1, <1>2 DEF DiskHolds
  <1>6. e.task = "delivered" => Complete(t, e)
    BY <1>1, <1>2 DEF DiskHolds, Complete
  <1>7. e.task \in Early => Called(e) = {}
    BY <1>1, <1>2 DEF DiskHolds
  <1>8. ~real => Quiet(d, e)
    BY <1>2 DEF Quiet
  <1> QED
    BY <1>1, <1>2, <1>3, <1>4, <1>5, <1>6, <1>7, <1>8 DEF DiskHolds

\* task.json may be rewritten along the lifecycle, with its row still missing.
LEMMA SetState ==
    ASSUME NEW t \in Tasks, NEW d \in Disk, DiskHolds(t, d), NEW to \in States,
           Legal(d.task, to) \/ (d.task = Absent /\ to = "created"),
           to = "delivered" => Complete(t, d)
    PROVE  /\ DiskHolds(t, WriteTask(d, to)) /\ Quiet(d, WriteTask(d, to))
           /\ WriteTask(d, to) \in Disk /\ WriteTask(d, to).task = to
  <1> DEFINE w == WriteTask(d, to)
  <1>1. w \in Disk /\ w.task = to /\ w.ledger = d.ledger /\ w.files = d.files
    BY WriteTaskFacts DEF WriteTask, Disk
  <1> HIDE DEF w
  <1>2. CallsOnce(w) /\ Called(w) = Called(d) /\ Produced(w) = Produced(d) /\ (Judged(w) <=> Judged(d))
    BY <1>1 DEF DiskHolds, CallsOnce, Called, CallRows, Produced, ProducedRows, Judged
  <1>3. Backed(w)
    <2> SUFFICES ASSUME NEW j \in Lifecycle(d.ledger),
                        d.task # Absent, d.ledger[j].to # "error", Reaches(d.ledger[j].to, d.task)
                 PROVE  to # Absent /\ Reaches(d.ledger[j].to, to)
      BY <1>1 DEF Backed, DiskHolds
    <2>1. d.ledger[j].to \in States
      <3>1. d.ledger \in Seq(Row) /\ j \in DOMAIN d.ledger /\ d.ledger[j].to # None
        BY DEF Disk, Lifecycle
      <3>2. d.ledger[j] \in Row
        BY <3>1
      <3> QED
        BY <3>1, <3>2 DEF Row
    <2>2. d.task \in States /\ Rank[d.task] < Rank[to]
      BY LegalStates DEF Legal, Transitions, Forward, Rank, States, Terminal
    <2>3. \A st \in States : Rank[st] \in Nat
      BY DEF Rank, States
    <2> QED
      BY <2>1, <2>2, <2>3 DEF Reaches, States, Absent
  <1>4. to \in Early => d.task \in Early
    BY DEF Early, Legal, Transitions, Forward, Absent, States
  <1>5. DiskHolds(t, w)
    BY <1>1, <1>2, <1>3, <1>4 DEF DiskHolds, Complete
  <1>6. Quiet(d, w)
    BY <1>2 DEF Quiet
  <1> QED
    BY <1>1, <1>5, <1>6 DEF w

-----------------------------------------------------------------------------
(* The store operations.                                                   *)

LEMMA QuietTrans ==
    ASSUME NEW d, NEW e, NEW f, Quiet(d, e), Quiet(e, f)
    PROVE  Quiet(d, f)
  BY DEF Quiet

LEMMA QuietSame == ASSUME NEW d PROVE Quiet(d, d)
  BY DEF Quiet

LEMMA UpdateHolds ==
    ASSUME NEW t \in Tasks, NEW d \in Disk, DiskHolds(t, d), d.task # Absent, NEW to \in States,
           to = "delivered" => Complete(t, d)
    PROVE  \A e \in {UpdateTaskState(d, to)} \cup TornUpdate(d, to) : DiskHolds(t, e) /\ Quiet(d, e)
  <1>0. d.task \in States
    BY DEF Disk
  <1>1. CASE Legal(d.task, to)
    <2> DEFINE w == WriteTask(d, to)
               row == DispatchRow(d.task, to)
    <2>1. DiskHolds(t, w) /\ Quiet(d, w) /\ w \in Disk /\ w.task = to
      BY <1>1, SetState
    <2>2. /\ row \in Row /\ row.type = "dispatch" /\ row.to = to
          /\ Reaches(to, to) /\ to # Absent
      BY <1>0, RowFacts DEF DispatchRow, Reaches, States, Absent
    <2>3. UpdateTaskState(d, to) = AppendEvent(w, row)
      BY <1>1 DEF UpdateTaskState
    <2>4. TornUpdate(d, to) = {d, w, WriteRow(w, row)}
      BY <1>1 DEF TornUpdate, TornAppend
    <2> HIDE DEF w, row
    <2>5. \A e \in {AppendEvent(w, row), WriteRow(w, row)} : DiskHolds(t, e) /\ Quiet(w, e)
      BY <2>1, <2>2, AddRow
    <2> QED
      BY <2>1, <2>3, <2>4, <2>5, QuietTrans, QuietSame
  <1>2. CASE ~Legal(d.task, to)
    <2> DEFINE row == ErrorRow(d.task)
    <2>1. row \in Row /\ row.type = "error" /\ row.to = "error"
      BY <1>0, RowFacts DEF ErrorRow
    <2>2. UpdateTaskState(d, to) = AppendEvent(d, row) /\ TornUpdate(d, to) = {d, WriteRow(d, row)}
      BY <1>2 DEF UpdateTaskState, TornUpdate, TornAppend
    <2> HIDE DEF row
    <2>3. \A e \in {AppendEvent(d, row), WriteRow(d, row)} : DiskHolds(t, e) /\ Quiet(d, e)
      BY <2>1, AddRow
    <2> QED
      BY <2>2, <2>3, QuietSame
  <1> QED
    BY <1>1, <1>2

LEMMA CreateHolds ==
    ASSUME NEW t \in Tasks, NEW d \in Disk, DiskHolds(t, d), d.task = Absent
    PROVE  \A e \in {CreateTask(d)} \cup TornCreate(d) : DiskHolds(t, e) /\ Quiet(d, e)
  <1> DEFINE w == WriteTask(d, "created")
             row == DispatchRow(None, "created")
  <1>1. "created" \in States
    BY DEF States
  <1>2. DiskHolds(t, w) /\ Quiet(d, w) /\ w \in Disk /\ w.task = "created"
    BY <1>1, SetState
  <1>3. /\ row \in Row /\ row.type = "dispatch" /\ row.to = "created"
        /\ Reaches("created", "created") /\ "created" # Absent
    BY <1>1, RowFacts DEF DispatchRow, Reaches, Absent
  <1>4. CreateTask(d) = AppendEvent(w, row) /\ TornCreate(d) = {d, w, WriteRow(w, row)}
    BY DEF CreateTask, TornCreate, TornAppend
  <1> HIDE DEF w, row
  <1>5. \A e \in {AppendEvent(w, row), WriteRow(w, row)} : DiskHolds(t, e) /\ Quiet(w, e)
    BY <1>2, <1>3, AddRow
  <1> QED
    BY <1>2, <1>4, <1>5, QuietTrans, QuietSame

\* A call is noted when no call of its step is.
LEMMA CallHolds ==
    ASSUME NEW t \in Tasks, NEW d \in Disk, DiskHolds(t, d), NEW i \in Nat,
           i # 0 => i \notin Called(d) /\ d.task \notin Early,
           NEW e \in {AppendEvent(d, AiCallRow(i))} \cup TornAppend(d, AiCallRow(i))
    PROVE  /\ DiskHolds(t, e) /\ Produced(e) = Produced(d) /\ (Judged(e) <=> Judged(d))
           /\ Called(e) \subseteq Called(d) \cup {i}
           /\ i = 0 => Quiet(d, e)
  <1> DEFINE row == AiCallRow(i)
  <1>1. row \in Row /\ row.type = "ai_call" /\ row.to = None /\ row.step = i
    BY RowFacts DEF AiCallRow
  <1>2. e \in {d, AppendEvent(d, row), WriteRow(d, row)}
    BY DEF TornAppend
  <1> HIDE DEF row
  <1>3. CASE e = d
    BY <1>3, QuietSame
  <1>4. CASE e = AppendEvent(d, row) \/ e = WriteRow(d, row)
    <2>1. /\ DiskHolds(t, e)
          /\ Called(e) = Called(d) \cup (IF row.type = "ai_call" /\ row.step # 0 THEN {row.step} ELSE {})
          /\ Produced(e) = Produced(d) \cup (IF row.type = "artifact_produced" THEN {row.step} ELSE {})
          /\ Judged(e) <=> Judged(d) \/ (row.type = "cross_validation" /\ row.step = 0)
          /\ ~(row.type = "ai_call" /\ row.step # 0) => Quiet(d, e)
      BY <1>1, <1>4, AddRow
    <2> QED
      BY <1>1, <2>1
  <1> QED
    BY <1>2, <1>3, <1>4

LEMMA VerdictHolds ==
    ASSUME NEW t \in Tasks, NEW d \in Disk, DiskHolds(t, d),
           NEW e \in {AppendEvent(d, VerdictRow)} \cup TornAppend(d, VerdictRow)
    PROVE  DiskHolds(t, e) /\ Quiet(d, e) /\ (e = AppendEvent(d, VerdictRow) => Judged(e))
  <1> DEFINE row == VerdictRow
  <1>1. row \in Row /\ row.type = "cross_validation" /\ row.to = None /\ row.step = 0
    BY RowFacts DEF VerdictRow
  <1>2. e \in {d, AppendEvent(d, row), WriteRow(d, row)}
    BY DEF TornAppend
  <1> HIDE DEF row
  <1>3. \A f \in {AppendEvent(d, row), WriteRow(d, row)} :
            DiskHolds(t, f) /\ Quiet(d, f) /\ Judged(f)
    BY <1>1, AddRow
  <1> QED
    BY <1>2, <1>3, QuietSame DEF row

\* The file comes before its row.
LEMMA PersistHolds ==
    ASSUME NEW t \in Tasks, NEW d \in Disk, DiskHolds(t, d), NEW i \in Nat,
           NEW e \in {Persist(d, i)} \cup TornPersist(d, i)
    PROVE  /\ DiskHolds(t, e) /\ Called(e) = Called(d)
           /\ e = Persist(d, i) => Produced(e) = Produced(d) \cup {i}
  <1> DEFINE w == WriteFile(d, i)
             row == ArtifactRow(i)
  <1>1. w \in Disk /\ w.task = d.task /\ w.ledger = d.ledger /\ w.files = d.files \cup {i}
    BY DEF WriteFile, Disk
  <1>2. row \in Row /\ row.type = "artifact_produced" /\ row.to = None /\ row.step = i
    BY RowFacts DEF ArtifactRow
  <1>3. e \in {d, w, AppendEvent(w, row), WriteRow(w, row)} /\ Persist(d, i) = AppendEvent(w, row)
    BY DEF Persist, TornPersist, TornAppend
  <1> HIDE DEF w, row
  <1>4. Called(w) = Called(d) /\ Produced(w) = Produced(d) /\ DiskHolds(t, w)
    <2>1. /\ CallsOnce(w) /\ Called(w) = Called(d) /\ Produced(w) = Produced(d)
          /\ (Judged(w) <=> Judged(d))
      BY <1>1 DEF DiskHolds, CallsOnce, Called, CallRows, Produced, ProducedRows, Judged
    <2>2. Backed(w)
      BY <1>1 DEF Backed, DiskHolds
    <2> QED
      BY <1>1, <2>1, <2>2 DEF DiskHolds, Complete
  <1>5. ASSUME NEW f, f = AppendEvent(w, row) \/ f = WriteRow(w, row)
        PROVE  DiskHolds(t, f) /\ Called(f) = Called(w) /\ Produced(f) = Produced(w) \cup {i}
    <2>1. i \in w.files
      BY <1>1
    <2>2. /\ DiskHolds(t, f)
          /\ Called(f) = Called(w) \cup
               (IF row.type = "ai_call" /\ row.step # 0 THEN {row.step} ELSE {})
          /\ Produced(f) = Produced(w) \cup
               (IF row.type = "artifact_produced" THEN {row.step} ELSE {})
      BY <1>1, <1>2, <1>4, <1>5, <2>1, AddRow
    <2> QED
      BY <1>2, <2>2
  <1>6. CASE e = d \/ e = w
    <2>1. e = Persist(d, i) => Produced(e) = Produced(d) \cup {i}
      BY <1>3, <1>4, <1>5
    <2> QED
      BY <1>4, <1>6, <2>1
  <1> QED
    BY <1>3, <1>4, <1>5, <1>6

-----------------------------------------------------------------------------
(* The steps.                                                              *)

LEMMA KnowsQuiet ==
    ASSUME NEW x, NEW d, NEW e, Knows(x, d), Quiet(d, e)
    PROVE  Knows(x, e)
  BY DEF Knows, Quiet

\* The step of session s on task t: what the others know of t does not change, for the
\* one that works on it is alone.
LEMMA SessionFiles ==
    ASSUME IInv, FilesInv, NEW s \in Sessions, NEW t \in Tasks, NEW e, DiskHolds(t, e),
           disk' = [disk EXCEPT ![t] = e],
           Quiet(disk[t], e) \/ (Working(s) /\ sess[s].task = t),
           NEW x, sess' = [sess EXCEPT ![s] = x],
           Knows(x, e), x.pc \in Running => x.task = t
    PROVE  FilesInv'
  <1>1. disk \in [Tasks -> Disk] /\ sess \in [Sessions -> Session]
    BY DEF IInv, TypeOK
  <1>2. \A v \in Tasks : DiskHolds(v, disk'[v])
    BY <1>1 DEF FilesInv
  <1>3. ASSUME NEW q \in Sessions PROVE Knows(sess'[q], Files(q)')
    <2>1. CASE q = s
      <3>1. sess'[q] = x
        BY <1>1, <2>1
      <3>2. CASE x.pc \in Running
        BY <1>1, <3>1, <3>2 DEF Files
      <3>3. CASE x.pc \notin Running
        BY <3>1, <3>3 DEF Knows, Running
      <3> QED
        BY <3>2, <3>3
    <2>2. CASE q # s
      <3>1. sess'[q] = sess[q] /\ Knows(sess[q], Files(q))
        BY <1>1, <2>2 DEF FilesInv
      <3>2. CASE Working(q)
        <4>1. sess[q].task \in Tasks /\ Files(q)' = IF sess[q].task = t THEN e ELSE Files(q)
          BY <1>1, <3>1, <3>2 DEF Files, IInv, TypeOK, Working, Running
        <4>2. CASE sess[q].task = t
          <5>1. Quiet(disk[t], e)
            BY <2>2, <3>2, <4>2 DEF IInv, SingleDispatcher
          <5> QED
            BY <3>1, <4>1, <4>2, <5>1, KnowsQuiet DEF Files
        <4>3. CASE sess[q].task # t
          BY <3>1, <4>1, <4>3
        <4> QED
          BY <4>2, <4>3
      <3>3. CASE ~Working(q)
        BY <3>1, <3>3 DEF Knows, Working
      <3> QED
        BY <3>2, <3>3
    <2> QED
      BY <2>1, <2>2
  <1> QED
    BY <1>2, <1>3 DEF FilesInv

\* What a session that has a task may assume.
LEMMA HereFacts ==
    ASSUME IInv, FilesInv, NEW s \in Sessions, sess[s].pc # "offline"
    PROVE  /\ sess[s] \in Session /\ sess[s].task \in Tasks /\ sess[s].step \in Nat
           /\ Files(s) \in Disk /\ Files(s) = disk[sess[s].task]
           /\ Files(s).task \in States /\ Files(s).task # Absent
           /\ DiskHolds(sess[s].task, Files(s)) /\ Knows(sess[s], Files(s))
           /\ Working(s) => Files(s).task \notin Early
           /\ sess[s].pc = "deliver" => Complete(sess[s].task, Files(s))
           /\ Called(Files(s)) \subseteq Nat
  <1>1. /\ sess[s] \in Session /\ sess[s].task \in Tasks /\ sess[s].step \in Nat
        /\ Files(s) \in Disk /\ Files(s) = disk[sess[s].task] /\ Files(s).task \in States
        /\ Working(s) => Files(s).task \notin {"created", "planning"}
    BY RunningFacts DEF IInv, Files
  <1>2. Files(s).task # Absent
    BY <1>1 DEF States, Absent
  <1>3. DiskHolds(sess[s].task, Files(s)) /\ Knows(sess[s], Files(s))
    BY <1>1 DEF FilesInv
  <1>4. ASSUME sess[s].pc = "deliver" PROVE Complete(sess[s].task, Files(s))
    <2>1. /\ 1..(sess[s].step - 1) \subseteq Produced(Files(s)) /\ Judged(Files(s))
          /\ sess[s].step > Len(Plan(sess[s].task))
      BY <1>3, <1>4 DEF Knows, Running
    <2>2. Len(Plan(sess[s].task)) \in Nat
      BY <1>1, DispatchAssumption DEF Plan
    <2>3. 1..Len(Plan(sess[s].task)) \subseteq 1..(sess[s].step - 1)
      BY <1>1, <2>1, <2>2
    <2> QED
      BY <2>1, <2>3 DEF Complete
  <1>5. Called(Files(s)) \subseteq Nat
    <2>1. \A k \in DOMAIN Files(s).ledger : Files(s).ledger[k] \in Row
      BY <1>1 DEF Disk
    <2> QED
      BY <2>1 DEF Called, CallRows, Row
  <1> QED
    BY <1>1, <1>2, <1>3, <1>4, <1>5 DEF Early

\* The steps that leave the files alone.
LEMMA StillFiles ==
    ASSUME IInv, FilesInv, NEW s \in Sessions,
           \/ \E t \in Tasks : Connect(s, t)
           \/ HangUp(s) \/ Disconnect(s) \/ Cancel(s) \/ CallHub(s) \/ HubStarts(s) \/ PollAgain(s)
    PROVE  FilesInv'
  <1>1. disk \in [Tasks -> Disk] /\ sess \in [Sessions -> Session] /\ UNCHANGED disk
    BY DEF IInv, TypeOK, Connect, HangUp, Disconnect, Cancel, CallHub, HubStarts, PollAgain
  <1>2. \A t \in Tasks :
          /\ disk' = [disk EXCEPT ![t] = disk[t]] /\ DiskHolds(t, disk[t])
          /\ Quiet(disk[t], disk[t])
    BY <1>1, QuietSame DEF FilesInv
  <1>3. CASE \E t \in Tasks : Connect(s, t)
    <2>1. PICK t \in Tasks : Connect(s, t)
      BY <1>3
    <2> DEFINE x == [Offline EXCEPT !.pc = "idle", !.task = t]
    <2>2. sess' = [sess EXCEPT ![s] = x] /\ x.pc = "idle"
      BY <2>1 DEF Connect, Offline
    <2> HIDE DEF x
    <2>3. Knows(x, disk[t]) /\ x.pc \notin Running
      BY <2>2 DEF Knows, Running
    <2> QED
      BY <1>2, <2>2, <2>3, SessionFiles
  <1>4. CASE HangUp(s) \/ Disconnect(s)
    <2>1. sess' = [sess EXCEPT ![s] = Offline] /\ sess[s].pc # "offline"
      BY <1>4 DEF HangUp, Disconnect, Running
    <2>2. sess[s].task \in Tasks
      BY <2>1, HereFacts
    <2>3. Knows(Offline, disk[sess[s].task]) /\ Offline.pc \notin Running
      BY DEF Knows, Running, Offline
    <2> QED
      BY <1>2, <2>1, <2>2, <2>3, SessionFiles
  <1>5. CASE Cancel(s) \/ CallHub(s) \/ HubStarts(s) \/ PollAgain(s)
    <2>1. PICK x \in Session :
            /\ sess' = [sess EXCEPT ![s] = x] /\ x.task = sess[s].task /\ x.step = sess[s].step
            /\ \/ x.pc = sess[s].pc /\ Cancel(s)
               \/ x.pc = "calling" /\ CallHub(s)
               \/ x.pc = "polling" /\ (HubStarts(s) \/ PollAgain(s))
      <3>1. sess[s] \in Session /\ sess[s].polls \in 0..PollBudget
        BY <1>1 DEF Session
      <3>2. CASE Cancel(s)
        <4> DEFINE x == [sess[s] EXCEPT !.cancel = TRUE]
        <4>1. x \in Session /\ x.task = sess[s].task /\ x.step = sess[s].step /\ x.pc = sess[s].pc
          BY <3>1 DEF Session
        <4>2. sess' = [sess EXCEPT ![s] = x]
          BY <3>2 DEF Cancel
        <4> HIDE DEF x
        <4> QED
          BY <3>2, <4>1, <4>2
      <3>3. CASE CallHub(s)
        <4> DEFINE x == [sess[s] EXCEPT !.pc = "calling"]
        <4>1. x \in Session /\ x.task = sess[s].task /\ x.step = sess[s].step /\ x.pc = "calling"
          BY <3>1 DEF Session, Running
        <4>2. sess' = [sess EXCEPT ![s] = x]
          BY <3>3 DEF CallHub
        <4> HIDE DEF x
        <4> QED
          BY <3>3, <4>1, <4>2
      <3>4. CASE HubStarts(s)
        <4> DEFINE x == [sess[s] EXCEPT !.pc = "polling", !.polls = 0]
        <4>1. x \in Session /\ x.task = sess[s].task /\ x.step = sess[s].step /\ x.pc = "polling"
          <5>1. x \in Session
            BY <3>1, SessionFacts DEF Running
          <5> QED
            BY <3>1, <5>1 DEF Session
        <4>2. sess' = [sess EXCEPT ![s] = x]
          BY <3>4 DEF HubStarts
        <4> HIDE DEF x
        <4> QED
          BY <3>4, <4>1, <4>2
      <3>5. CASE PollAgain(s)
        <4> DEFINE k == sess[s].polls + 1
                   x == [sess[s] EXCEPT !.polls = k]
        <4>1. k \in 0..PollBudget
          BY <3>1, <3>5, DispatchAssumption DEF PollAgain
        <4>2. sess' = [sess EXCEPT ![s] = x] /\ sess[s].pc = "polling"
          BY <3>5 DEF PollAgain
        <4> HIDE DEF k
        <4>3. x \in Session /\ x.task = sess[s].task /\ x.step = sess[s].step /\ x.pc = sess[s].pc
          BY <3>1, <4>1 DEF Session
        <4> HIDE DEF x
        <4> QED
          BY <3>5, <4>2, <4>3
      <3> QED
        BY <1>5, <3>2, <3>3, <3>4, <3>5
    <2>2. sess[s].pc # "offline"
      BY <1>5 DEF Cancel, CallHub, HubStarts, PollAgain, Running
    <2>3. /\ sess[s].task \in Tasks /\ Knows(sess[s], disk[sess[s].task])
      BY <2>2, HereFacts
    <2>4. Knows(x, disk[sess[s].task])
      BY <2>1, <2>3 DEF Knows, Running, Cancel, CallHub, HubStarts, PollAgain
    <2> QED
      BY <1>2, <2>1, <2>3, <2>4, SessionFiles
  <1> QED
    BY <1>3, <1>4, <1>5

\* Most of the steps that write are a quiet change of the files and a session that no
\* longer runs, or runs its first step.
LEMMA EndFiles ==
    ASSUME IInv, FilesInv, NEW s \in Sessions, sess[s].pc # "offline", NEW e,
           DiskHolds(sess[s].task, e), Quiet(Files(s), e), SetFiles(s, e), EndRun(s)
    PROVE  FilesInv'
  <1> DEFINE x == [sess[s] EXCEPT !.pc = "idle", !.cur = None]
  <1>1. sess[s] \in Session /\ sess[s].task \in Tasks /\ Files(s) = disk[sess[s].task]
    BY HereFacts
  <1>2. x.pc = "idle" /\ sess' = [sess EXCEPT ![s] = x]
    BY <1>1 DEF EndRun, Session
  <1> HIDE DEF x
  <1>3. Knows(x, e) /\ x.pc \notin Running
    BY <1>2 DEF Knows, Running
  <1> QED
    BY <1>1, <1>2, <1>3, SessionFiles DEF SetFiles

LEMMA UserMessageFiles ==
    ASSUME IInv, FilesInv, NEW s \in Sessions, UserMessage(s)
    PROVE  FilesInv'
  <1>1. sess[s].pc = "idle" /\ sess[s].pc # "offline" /\ "planning" \in States
    BY DEF UserMessage, States
  <1> DEFINE st == Files(s).task
             d == IF st = "created" THEN UpdateTaskState(Files(s), "planning") ELSE Files(s)
             p == IF st \in Terminal THEN "idle" ELSE "plan"
             c == IF st \in Terminal THEN None ELSE IF st = "created" THEN "planning" ELSE st
             x == [Offline EXCEPT !.task = sess[s].task, !.count = sess[s].count + 1, !.pc = p,
                                  !.cur = c, !.step = 1]
  <1>2. /\ sess[s].task \in Tasks /\ Files(s) \in Disk /\ Files(s) = disk[sess[s].task]
        /\ Files(s).task # Absent /\ DiskHolds(sess[s].task, Files(s))
    BY <1>1, HereFacts
  <1>3. disk' = [disk EXCEPT ![sess[s].task] = d]
    BY <1>2 DEF UserMessage, SetFiles, IInv, TypeOK
  <1>4. DiskHolds(sess[s].task, d) /\ Quiet(Files(s), d)
    BY <1>1, <1>2, UpdateHolds, QuietSame
  <1>5. sess' = [sess EXCEPT ![s] = x]
    BY DEF UserMessage
  <1>6. x.pc \in {"idle", "plan"} /\ x.task = sess[s].task /\ x.step = 1
    BY DEF Offline
  <1> HIDE DEF x, d
  <1>7. Knows(x, d)
    BY <1>6 DEF Knows, Running
  <1> QED
    BY <1>2, <1>3, <1>4, <1>5, <1>6, <1>7, SessionFiles

\* A run goes on.
LEMMA AdvanceFiles ==
    ASSUME IInv, FilesInv, NEW s \in Sessions, Advance(s)
    PROVE  FilesInv'
  <1> DEFINE t == sess[s].task
             to == Target(s)
             d == UpdateTaskState(Files(s), to)
             x == [sess[s] EXCEPT !.pc = After(sess[s].pc), !.cur = to]
  <1>1. /\ to \in States /\ sess[s].pc \in {"plan", "judge", "loop", "deliver"}
        /\ sess[s].pc # "offline" /\ (to = "delivered" => sess[s].pc = "deliver")
    BY TargetFacts DEF Advance
  <1>2. /\ sess[s] \in Session /\ t \in Tasks /\ sess[s].step \in Nat
        /\ Files(s) \in Disk /\ Files(s) = disk[t] /\ Files(s).task # Absent
        /\ DiskHolds(t, Files(s)) /\ Knows(sess[s], Files(s))
        /\ sess[s].pc = "deliver" => Complete(t, Files(s))
    BY <1>1, HereFacts
  <1>3. DiskHolds(t, d) /\ Quiet(Files(s), d)
    BY <1>1, <1>2, UpdateHolds
  <1>4. disk' = [disk EXCEPT ![t] = d] /\ sess' = [sess EXCEPT ![s] = x]
    BY DEF Advance, SetFiles
  <1>5. x.pc = After(sess[s].pc) /\ x.task = t /\ x.step = sess[s].step
    BY <1>2 DEF Session
  <1> HIDE DEF d, x
  <1>6. Knows(sess[s], d)
    BY <1>2, <1>3, KnowsQuiet
  <1>7. Knows(x, d)
    <2>1. CASE sess[s].pc = "plan"
      <3>1. to = "dispatching" /\ Files(s).task \in Early
        BY <2>1, TargetFacts DEF Advance, Legal, Transitions, Forward, Terminal, Early
      <3>2. Called(d) = {} /\ sess[s].step = 1 /\ x.pc = "loop"
        BY <1>2, <1>3, <1>5, <2>1, <3>1 DEF DiskHolds, Quiet, Knows, After
      <3>3. 1..(x.step - 1) = {}
        BY <1>5, <3>2
      <3> QED
        BY <1>5, <3>2, <3>3 DEF Knows
    <2>2. CASE sess[s].pc = "judge"
      BY <1>5, <1>6, <2>2 DEF Knows, After, Running
    <2>3. CASE sess[s].pc = "loop"
      <3>1. sess[s].step > Len(Plan(t))
        <4>1. ~StepsLeft(s) /\ Len(Plan(t)) \in Nat
          BY <1>2, <2>3, DispatchAssumption DEF Target, Advance, Plan
        <4> QED
          BY <1>2, <4>1 DEF StepsLeft
      <3> QED
        BY <1>5, <1>6, <2>3, <3>1 DEF Knows, After, Running
    <2>4. CASE sess[s].pc = "deliver"
      BY <1>5, <2>4 DEF Knows, After, Running
    <2> QED
      BY <1>1, <2>1, <2>2, <2>3, <2>4
  <1> QED
    BY <1>2, <1>3, <1>4, <1>5, <1>7, SessionFiles

\* The store refuses, _block or the handler of run: two transitions at most, none to
\* delivered.
LEMMA ExceptionHolds ==
    ASSUME NEW s \in Sessions, NEW t \in Tasks, NEW d \in Disk, d.task # Absent, DiskHolds(t, d)
    PROVE  DiskHolds(t, AfterException(s, d)) /\ Quiet(d, AfterException(s, d))
  <1>1. "error" \in States
    BY DEF States
  <1> QED
    BY <1>1, UpdateHolds, QuietSame DEF AfterException

LEMMA StopFiles ==
    ASSUME IInv, FilesInv, NEW s \in Sessions, Rejected(s) \/ Block(s) \/ Raises(s)
    PROVE  FilesInv'
  <1> DEFINE t == sess[s].task
  <1>1. sess[s].pc # "offline" /\ EndRun(s)
    BY TargetFacts DEF Rejected, Block, MustBlock, Raises, WritesNow
  <1>2. /\ t \in Tasks /\ Files(s) \in Disk /\ Files(s).task # Absent /\ DiskHolds(t, Files(s))
        /\ sess[s].pc = "deliver" => Complete(t, Files(s))
    BY <1>1, HereFacts
  <1>3. CASE Rejected(s)
    <2> DEFINE b == UpdateTaskState(Files(s), Target(s))
               e == AfterException(s, b)
    <2>1. Target(s) \in States /\ (Target(s) = "delivered" => sess[s].pc = "deliver")
      BY <1>3, TargetFacts DEF Rejected
    <2>2. DiskHolds(t, b) /\ Quiet(Files(s), b) /\ b \in Disk /\ b.task # Absent
      BY <1>2, <1>3, <2>1, UpdateHolds, UpdateFacts DEF Rejected
    <2> HIDE DEF b
    <2>3. DiskHolds(t, e) /\ Quiet(Files(s), e)
      BY <1>2, <2>2, ExceptionHolds, QuietTrans
    <2>4. SetFiles(s, e)
      BY <1>3 DEF Rejected, b
    <2> HIDE DEF e
    <2> QED
      BY <1>1, <2>3, <2>4, EndFiles
  <1>4. CASE Block(s)
    <2>1. "blocked" \in States
      BY DEF States
    <2>2. DiskHolds(t, AfterBlock(Files(s))) /\ Quiet(Files(s), AfterBlock(Files(s)))
      BY <1>2, <2>1, UpdateHolds, QuietSame DEF AfterBlock
    <2> QED
      BY <1>1, <1>4, <2>2, EndFiles DEF Block
  <1>5. CASE Raises(s)
    BY <1>1, <1>2, <1>5, ExceptionHolds, EndFiles DEF Raises
  <1> QED
    BY <1>3, <1>4, <1>5

\* The hub's answer, an artifact, the verdict.
LEMMA WriteDownFiles ==
    ASSUME IInv, FilesInv, NEW s \in Sessions, HubAnswers(s) \/ WriteArtifact(s) \/ AppendVerdict(s)
    PROVE  FilesInv'
  <1> DEFINE t == sess[s].task
             i == sess[s].step
  <1>1. Working(s) /\ sess[s].pc # "offline"
    BY DEF HubAnswers, MayAnswer, WriteArtifact, WritesNow, AppendVerdict, Working, Running
  <1>2. /\ sess[s] \in Session /\ t \in Tasks /\ i \in Nat
        /\ Files(s) \in Disk /\ Files(s) = disk[t] /\ Files(s).task \notin Early
        /\ DiskHolds(t, Files(s)) /\ Called(Files(s)) \subseteq Nat
    BY <1>1, HereFacts
  <1>3. /\ i # 0 /\ 1..(i - 1) \subseteq Produced(Files(s))
        /\ \A c \in Called(Files(s)) : c < i \/ (c = i /\ sess[s].pc \in {"judge", "write"})
        /\ sess[s].pc = "verdict" => i > Len(Plan(t))
    BY <1>1, HereFacts DEF Knows, Working
  <1>4. CASE HubAnswers(s)
    <2>1. PICK a \in {"ok", "blocked"} :
            /\ MayAnswer(s, a)
            /\ SetFiles(s, AppendEvent(Files(s), AiCallRow(i)))
            /\ sess' = [sess EXCEPT ![s] = [@ EXCEPT !.pc = "judge", !.answer = a]]
      BY <1>4 DEF HubAnswers
    <2> DEFINE e == AppendEvent(Files(s), AiCallRow(i))
               x == [sess[s] EXCEPT !.pc = "judge", !.answer = a]
    <2>2. sess[s].pc \in {"calling", "polling"}
      BY <2>1 DEF MayAnswer
    <2>3. i \notin Called(Files(s))
      BY <1>2, <1>3, <2>2
    <2>4. /\ DiskHolds(t, e) /\ Produced(e) = Produced(Files(s))
          /\ Called(e) \subseteq Called(Files(s)) \cup {i}
      BY <1>2, <2>3, CallHolds
    <2>5. x.pc = "judge" /\ x.step = i /\ x.task = t
      BY <1>2 DEF Session
    <2>6. disk' = [disk EXCEPT ![t] = e] /\ sess' = [sess EXCEPT ![s] = x]
      BY <2>1 DEF SetFiles
    <2> HIDE DEF e, x
    <2>7. Knows(x, e)
      BY <1>2, <1>3, <2>4, <2>5 DEF Knows
    <2> QED
      BY <1>1, <1>2, <2>4, <2>5, <2>6, <2>7, SessionFiles
  <1>5. CASE WriteArtifact(s)
    <2> DEFINE e == Persist(Files(s), i)
               n == i + 1
               x == [sess[s] EXCEPT !.pc = "loop", !.step = n, !.answer = "none"]
    <2>1. disk' = [disk EXCEPT ![t] = e] /\ sess' = [sess EXCEPT ![s] = x]
      BY <1>5 DEF WriteArtifact, SetFiles
    <2>2. DiskHolds(t, e) /\ Called(e) = Called(Files(s)) /\ Produced(e) = Produced(Files(s)) \cup {i}
      BY <1>2, PersistHolds
    <2>3. n \in Nat /\ n # 0 /\ 1..(n - 1) = 1..(i - 1) \cup {i} /\ \A c \in Nat : c <= i => c < n
      BY <1>2, <1>3
    <2> HIDE DEF e, n
    <2>4. x.pc = "loop" /\ x.step = n /\ x.task = t
      BY <1>2 DEF Session
    <2> HIDE DEF x
    <2>5. Knows(x, e)
      <3>1. 1..(n - 1) \subseteq Produced(e)
        BY <1>3, <2>2, <2>3
      <3>2. \A c \in Called(e) : c < n
        BY <1>2, <1>3, <2>2, <2>3
      <3> QED
        BY <2>3, <2>4, <3>1, <3>2 DEF Knows
    <2> QED
      BY <1>1, <1>2, <2>1, <2>2, <2>4, <2>5, SessionFiles
  <1>6. CASE AppendVerdict(s)
    <2> DEFINE e == AppendEvent(Files(s), VerdictRow)
               x == [sess[s] EXCEPT !.pc = "deliver"]
    <2>1. /\ disk' = [disk EXCEPT ![t] = e] /\ sess' = [sess EXCEPT ![s] = x]
          /\ sess[s].pc = "verdict"
      BY <1>6 DEF AppendVerdict, SetFiles
    <2>2. DiskHolds(t, e) /\ Quiet(Files(s), e) /\ Judged(e)
      BY <1>2, VerdictHolds
    <2>3. x.pc = "deliver" /\ x.step = i /\ x.task = t
      BY <1>2 DEF Session
    <2> HIDE DEF e, x
    <2>4. Knows(x, e)
      BY <1>3, <2>1, <2>2, <2>3 DEF Knows, Quiet
    <2> QED
      BY <1>1, <1>2, <2>1, <2>2, <2>3, <2>4, SessionFiles
  <1> QED
    BY <1>4, <1>5, <1>6

\* The endpoints.
LEMMA EndpointFiles ==
    ASSUME IInv, FilesInv, NEW t \in Tasks, Create(t) \/ NoteLocalFailure(t)
    PROVE  FilesInv'
  <1>1. disk \in [Tasks -> Disk] /\ disk[t] \in Disk /\ DiskHolds(t, disk[t]) /\ sess' = sess
    BY DEF IInv, TypeOK, FilesInv, Create, NoteLocalFailure
  <1>2. PICK e : disk' = [disk EXCEPT ![t] = e] /\ DiskHolds(t, e) /\ Quiet(disk[t], e)
    <2>1. CASE Create(t)
      BY <1>1, <2>1, CreateHolds DEF Create
    <2>2. CASE NoteLocalFailure(t)
      <3> DEFINE e == AppendEvent(disk[t], AiCallRow(0))
      <3>1. disk' = [disk EXCEPT ![t] = e] /\ disk[t].task # Absent
        BY <2>2 DEF NoteLocalFailure
      <3>2. 0 \in Nat /\ e \in {e} \cup TornAppend(disk[t], AiCallRow(0))
        OBVIOUS
      <3>3. DiskHolds(t, e) /\ Quiet(disk[t], e)
        BY <1>1, <3>2, CallHolds
      <3> QED
        BY <3>1, <3>3
    <2> QED
      BY <2>1, <2>2
  <1>3. \A v \in Tasks : DiskHolds(v, disk'[v])
    BY <1>1, <1>2 DEF FilesInv
  <1>4. ASSUME NEW q \in Sessions PROVE Knows(sess'[q], Files(q)')
    <2>1. Knows(sess[q], Files(q))
      BY DEF FilesInv
    <2>2. CASE Working(q)
      <3>1. sess[q].task \in Tasks
        BY <2>2 DEF IInv, TypeOK, Working, Running
      <3>2. Files(q)' = IF sess[q].task = t THEN e ELSE Files(q)
        BY <1>1, <1>2, <3>1 DEF Files
      <3> QED
        BY <1>1, <1>2, <2>1, <3>2, KnowsQuiet DEF Files
    <2>3. CASE ~Working(q)
      BY <1>1, <2>1, <2>3 DEF Knows, Working
    <2> QED
      BY <2>2, <2>3
  <1> QED
    BY <1>3, <1>4 DEF FilesInv

\* What a dying process leaves behind holds together, whichever write was its last.
LEMMA TornHolds ==
    ASSUME IInv, FilesInv, NEW s \in Sessions, sess[s].pc # "offline", NEW e \in TornStep(s)
    PROVE  DiskHolds(sess[s].task, e)
  <1> DEFINE t == sess[s].task
             d == Files(s)
             to == Target(s)
  <1>1. /\ t \in Tasks /\ d \in Disk /\ d.task # Absent /\ DiskHolds(t, d)
        /\ sess[s].step \in Nat /\ Called(d) \subseteq Nat
        /\ Working(s) => d.task \notin Early
        /\ sess[s].pc = "deliver" => Complete(t, d)
    BY HereFacts
  <1>2. "planning" \in States /\ "blocked" \in States /\ "error" \in States
    BY DEF States
  <1>3. \A st \in {"planning", "blocked", "error"} : \A f \in TornUpdate(d, st) : DiskHolds(t, f)
    BY <1>1, <1>2, UpdateHolds
  <1>4. CASE to # None /\ e \in TornAttempt(d, to)
    <2>1. to \in States /\ (to = "delivered" => sess[s].pc = "deliver")
      BY <1>4, TargetFacts
    <2>2. CASE e \in TornUpdate(d, to)
      BY <1>1, <2>1, <2>2, UpdateHolds
    <2>3. CASE e \in TornUpdate(UpdateTaskState(d, to), "error") /\ ~Legal(d.task, to)
      <3>1. /\ DiskHolds(t, UpdateTaskState(d, to)) /\ UpdateTaskState(d, to) \in Disk
            /\ UpdateTaskState(d, to).task # Absent
        BY <1>1, <2>1, <2>3, UpdateHolds, UpdateFacts
      <3> QED
        BY <1>1, <1>2, <2>3, <3>1, UpdateHolds
    <2> QED
      BY <1>4, <2>2, <2>3 DEF TornAttempt
  <1>5. CASE sess[s].pc \in {"calling", "polling"} /\ e \in TornAppend(d, AiCallRow(sess[s].step))
    <2>1. Working(s) /\ Knows(sess[s], d)
      BY <1>5, HereFacts DEF Working, Running
    <2>2. sess[s].step # 0 /\ sess[s].step \notin Called(d)
      BY <1>1, <1>5, <2>1 DEF Knows, Working
    <2> QED
      BY <1>1, <1>5, <2>1, <2>2, CallHolds
  <1>6. CASE e \in TornPersist(d, sess[s].step)
    BY <1>1, <1>6, PersistHolds
  <1>7. CASE e \in TornAppend(d, VerdictRow)
    BY <1>1, <1>7, VerdictHolds
  <1> QED
    BY <1>3, <1>4, <1>5, <1>6, <1>7 DEF TornStep

LEMMA CrashFiles ==
    ASSUME IInv, FilesInv,
           \/ \E t \in Tasks : CrashInCreate(t) \/ CrashInNote(t)
           \/ \E s \in Sessions : CrashInRun(s)
    PROVE  FilesInv'
  <1>1. disk \in [Tasks -> Disk] /\ \A t \in Tasks : disk[t] \in Disk /\ DiskHolds(t, disk[t])
    BY DEF IInv, TypeOK, FilesInv
  <1>2. sess' = [s \in Sessions |-> Offline]
    BY DEF CrashInCreate, CrashInNote, CrashInRun, Crash
  <1>3. \E t \in Tasks : \E e : disk' = [disk EXCEPT ![t] = e] /\ DiskHolds(t, e)
    <2>1. ASSUME NEW t \in Tasks, CrashInCreate(t)
          PROVE  \E e : disk' = [disk EXCEPT ![t] = e] /\ DiskHolds(t, e)
      BY <1>1, <2>1, CreateHolds DEF CrashInCreate
    <2>2. ASSUME NEW t \in Tasks, CrashInNote(t)
          PROVE  \E e : disk' = [disk EXCEPT ![t] = e] /\ DiskHolds(t, e)
      <3>1. PICK e \in TornAppend(disk[t], AiCallRow(0)) : disk' = [disk EXCEPT ![t] = e]
        BY <2>2 DEF CrashInNote
      <3>2. disk[t].task # Absent
        BY <2>2 DEF CrashInNote
      <3>3. 0 \in Nat
        OBVIOUS
      <3>4. DiskHolds(t, e)
        BY <1>1, <3>1, <3>2, <3>3, CallHolds
      <3> QED
        BY <3>1, <3>4
    <2>3. ASSUME NEW s \in Sessions, CrashInRun(s)
          PROVE  /\ sess[s].task \in Tasks
                 /\ \E e : disk' = [disk EXCEPT ![sess[s].task] = e] /\ DiskHolds(sess[s].task, e)
      <3>1. PICK e \in TornStep(s) \cup {Files(s)} : SetFiles(s, e)
        BY <2>3 DEF CrashInRun
      <3>2. sess[s].pc # "offline"
        BY <2>3 DEF CrashInRun
      <3>3. sess[s].task \in Tasks /\ DiskHolds(sess[s].task, Files(s))
        BY <3>2, HereFacts
      <3> QED
        BY <3>1, <3>2, <3>3, TornHolds DEF SetFiles
    <2> QED
      BY <2>1, <2>2, <2>3
  <1>4. \A t \in Tasks : DiskHolds(t, disk'[t])
    BY <1>1, <1>3
  <1>5. \A s \in Sessions : \A d : Knows(Offline, d)
    BY DEF Knows, Offline, Running
  <1> QED
    BY <1>2, <1>4, <1>5 DEF FilesInv

LEMMA FilesInit == Init => FilesInv
  <1> SUFFICES ASSUME Init PROVE FilesInv
    OBVIOUS
  <1>1. ASSUME NEW t \in Tasks PROVE DiskHolds(t, EmptyDisk)
    <2>1. DOMAIN EmptyDisk.ledger = {} /\ EmptyDisk.task = Absent
      BY DEF EmptyDisk
    <2> QED
      BY <2>1 DEF DiskHolds, CallsOnce, Called, CallRows, Produced, ProducedRows, Backed, Lifecycle,
                  Absent
  <1>2. \A d : Knows(Offline, d)
    BY DEF Knows, Offline, Running
  <1> QED
    BY <1>1, <1>2 DEF Init, FilesInv

LEMMA FilesNext == IInv /\ FilesInv /\ [Next]_vars => FilesInv'
  <1> SUFFICES ASSUME IInv, FilesInv, [Next]_vars PROVE FilesInv'
    OBVIOUS
  <1>1. CASE Alive
    BY <1>1, EndpointFiles, StillFiles, UserMessageFiles, AdvanceFiles, StopFiles, WriteDownFiles
       DEF Alive, Run
  <1>2. CASE UNCHANGED vars
    BY <1>2 DEF vars, FilesInv, Files
  <1> QED
    BY <1>1, <1>2, CrashFiles DEF Next

LEMMA FilesInvariance == Spec => []FilesInv
  BY FilesInit, FilesNext, Invariance, PTL DEF Spec

-----------------------------------------------------------------------------
(* What the files tell.                                                    *)

\* Over any number of messages, reconnections and deaths of the server, no step of a
\* plan is answered by the hub twice.
THEOREM HubCalledOncePerStep == Spec => []EachStepCalledOnce
  <1>1. FilesInv => EachStepCalledOnce
    <2> SUFFICES ASSUME FilesInv, NEW t \in Tasks,
                        NEW j \in DOMAIN disk[t].ledger, NEW k \in DOMAIN disk[t].ledger,
                        disk[t].ledger[j].type = "ai_call", disk[t].ledger[k].type = "ai_call",
                        disk[t].ledger[j].step = disk[t].ledger[k].step,
                        disk[t].ledger[j].step # 0
                 PROVE  j = k
      BY DEF EachStepCalledOnce
    <2>1. j \in CallRows(disk[t]) /\ k \in CallRows(disk[t])
      BY DEF CallRows
    <2> QED
      BY <2>1 DEF FilesInv, DiskHolds, CallsOnce
  <1> QED
    BY <1>1, FilesInvariance, PTL

\* A task reads delivered only with every artifact, its row and the verdict on disk.
THEOREM DeliveredTasksAreComplete == Spec => []DeliveredIsComplete
  <1>1. FilesInv => DeliveredIsComplete
    <2> SUFFICES ASSUME FilesInv, NEW t \in Tasks, disk[t].task = "delivered"
                 PROVE  /\ \A i \in 1..Len(Plan(t)) :
                             /\ i \in disk[t].files
                             /\ RowsOf(disk[t].ledger, "artifact_produced", i) # {}
                        /\ RowsOf(disk[t].ledger, "cross_validation", 0) # {}
      BY DEF DeliveredIsComplete
    <2>1. Produced(disk[t]) \subseteq disk[t].files /\ Complete(t, disk[t])
      BY DEF FilesInv, DiskHolds
    <2>2. \A i \in Produced(disk[t]) : RowsOf(disk[t].ledger, "artifact_produced", i) # {}
      BY DEF Produced, ProducedRows, RowsOf
    <2> QED
      BY <2>1, <2>2 DEF Complete, Judged
  <1> QED
    BY <1>1, FilesInvariance, PTL

\* The last of finitely many places.
LEMMA HasLast ==
    ASSUME NEW n \in Nat, NEW S, S \subseteq 1..n, S # {}
    PROVE  \E m \in S : \A k \in S : k <= m
  <1> DEFINE R == OpToRel(<, Nat)
             T == {n - k : k \in S}
  <1>1. \A x, y \in Nat : <<x, y>> \in R <=> x < y
    BY DEF OpToRel
  <1>2. IsWellFoundedOn(R, Nat)
    BY NatLessThanWellFounded
  <1>3. \A k \in S : k \in 1..n /\ n - k \in Nat
    OBVIOUS
  <1>4. T \subseteq Nat /\ T # {}
    BY <1>3
  <1> HIDE DEF R
  <1>5. PICK x \in T : \A y \in T : ~ <<y, x>> \in R
    <2> HIDE DEF T
    <2> QED
      BY <1>2, <1>4, WFMin
  <1>6. PICK m \in S : x = n - m
    OBVIOUS
  <1>7. ASSUME NEW k \in S PROVE k <= m
    <2>1. ~ n - k < x
      BY <1>1, <1>3, <1>4, <1>5, <1>7
    <2> QED
      BY <1>3, <1>6, <2>1
  <1> QED
    BY <1>7

\* The ledger tells of no artifact that is not there, and replays to nothing the task
\* has not gone through but an error.
THEOREM LedgersAreBacked == Spec => []LedgerIsBacked
  <1>1. IInv /\ FilesInv => LedgerIsBacked
    <2> SUFFICES ASSUME IInv, FilesInv, NEW t \in Tasks
                 PROVE  /\ \A k \in DOMAIN disk[t].ledger :
                             disk[t].ledger[k].type = "artifact_produced" =>
                                 disk[t].ledger[k].step \in disk[t].files
                        /\ Replayable(disk[t].ledger) =>
                             LET st == ReplayState(disk[t].ledger)
                             IN  st = "error" \/ (disk[t].task # Absent /\ Reaches(st, disk[t].task))
      BY DEF LedgerIsBacked
    <2> DEFINE lg == disk[t].ledger
               S == Lifecycle(lg)
    <2>1. Produced(disk[t]) \subseteq disk[t].files /\ Backed(disk[t]) /\ lg \in Seq(Row)
      BY DEF FilesInv, DiskHolds, IInv, TypeOK, Disk
    <2>2. \A k \in DOMAIN lg : lg[k].type = "artifact_produced" => lg[k].step \in disk[t].files
      BY <2>1 DEF Produced, ProducedRows
    <2>3. ASSUME Replayable(lg)
          PROVE  LET st == ReplayState(lg)
                 IN  st = "error" \/ (disk[t].task # Absent /\ Reaches(st, disk[t].task))
      <3>1. S # {} /\ S \subseteq 1..Len(lg) /\ Len(lg) \in Nat
        BY <2>1, <2>3 DEF Replayable, Lifecycle
      <3>2. \E m \in S : \A k \in S : k <= m
        <4> HIDE DEF S, lg
        <4> QED
          BY <3>1, HasLast
      <3> DEFINE j == CHOOSE i \in S : \A k \in S : k <= i
      <3>3. j \in S /\ \A k \in S : k <= j
        BY <3>2
      <3>4. ReplayState(lg) = lg[j].to
        BY DEF ReplayState
      <3> HIDE DEF j
      <3> QED
        BY <2>1, <3>3, <3>4 DEF Backed
    <2> QED
      BY <2>2, <2>3
  <1> QED
    BY <1>1, Invariance, FilesInvariance, PTL

-----------------------------------------------------------------------------
(* One chat, no deaths and no lost connections: the ledger replays.        *)

\* What the theorem below assumes: two chats on one task, a dropped run and a death each
\* leave a ledger that does not replay (run dispatch_reconnect shows the second).
Undisturbed == MaxCrashes = 0 /\ "disconnect" \notin Faults /\ \A s, q \in Sessions : s = q

\* The ledger replays to st.
Tells(ledger, st) ==
    /\ Replayable(ledger)
    /\ \E i \in Lifecycle(ledger) :
        ledger[i].to = st /\ \A k \in Lifecycle(ledger) : k <= i

Told(d) == IF d.task = Absent THEN Lifecycle(d.ledger) = {} ELSE Tells(d.ledger, d.task)

\* The run's copy is current, and the task is in the state that belongs to its place.
InStep(x, d) ==
    x.pc \in Running =>
        /\ x.cur = d.task
        /\ x.pc = "plan" => d.task = "planning" /\ x.step = 1
        /\ x.pc \in {"loop", "calling", "polling", "judge"} =>
            d.task = IF x.step = 1 THEN "dispatching" ELSE "producing"
        /\ x.pc = "write" => d.task = "producing"
        /\ x.pc \in {"verdict", "deliver"} => d.task = "cross_validating"

Resting == {Absent, "created"} \cup Terminal

AloneInv ==
    /\ \A t \in Tasks : Told(disk[t])
    /\ \A s \in Sessions : InStep(sess[s], Files(s))
    /\ \A t \in Tasks :
        disk[t].task \in Resting \/ \E s \in Sessions : sess[s].pc \in Running /\ sess[s].task = t

\* What one row more does to the replay.
LEMMA ReplayRow ==
    ASSUME NEW lg \in Seq(Row), NEW row \in Row
    PROVE  /\ row.to = None =>
                /\ Lifecycle(Append(lg, row)) = Lifecycle(lg)
                /\ \A st : Tells(lg, st) => Tells(Append(lg, row), st)
           /\ row.to # None /\ (\E st : Tells(lg, st) /\ Legal(st, row.to)) =>
                Tells(Append(lg, row), row.to)
           /\ row.to = "created" /\ Lifecycle(lg) = {} => Tells(Append(lg, row), row.to)
  <1> DEFINE n == Len(lg)
             more == Append(lg, row)
             old == Lifecycle(lg)
  <1>1. /\ n \in Nat /\ DOMAIN lg = 1..n /\ DOMAIN more = 1..(n + 1)
        /\ \A k \in 1..n : more[k] = lg[k]
        /\ more[n + 1] = row
    BY AppendProperties
  <1>2. Lifecycle(more) = old \cup (IF row.to = None THEN {} ELSE {n + 1})
    BY <1>1 DEF Lifecycle
  <1>3. /\ old \subseteq 1..n /\ n + 1 \notin old
        /\ \A k \in old : k < n + 1 /\ more[k] = lg[k]
    BY <1>1 DEF Lifecycle
  <1> HIDE DEF n, more, old
  <1>4. ASSUME row.to = None
        PROVE  Lifecycle(more) = old /\ \A st : Tells(lg, st) => Tells(more, st)
    <2>1. Lifecycle(more) = old
      BY <1>2, <1>4
    <2>2. Replayable(lg) => Replayable(more)
      BY <1>3, <2>1 DEF Replayable, old
    <2> QED
      BY <1>3, <2>1, <2>2 DEF Tells, old
  <1>5. ASSUME row.to # None, NEW st, Tells(lg, st), Legal(st, row.to)
        PROVE  Tells(more, row.to)
    <2>1. Lifecycle(more) = old \cup {n + 1}
      BY <1>2, <1>5
    <2>2. PICK i \in old : lg[i].to = st /\ \A k \in old : k <= i
      BY <1>5 DEF Tells, old
    <2>3. ASSUME NEW j \in old
          PROVE  {k \in Lifecycle(more) : k < j} = {k \in old : k < j}
      <3>1. ~(n + 1 < j)
        BY <1>1, <1>3
      <3> QED
        BY <2>1, <3>1
    <2>4. {k \in Lifecycle(more) : k < n + 1} = old
      <3>1. n + 1 \in Nat /\ ~(n + 1 < n + 1)
        BY <1>1
      <3>2. \A k \in old : k < n + 1
        BY <1>3
      <3> QED
        BY <2>1, <3>1, <3>2
    <2>5. more[i].to = st /\ more[n + 1].to = row.to /\ i < n + 1
      BY <1>1, <1>3, <2>2
    <2>6. Replayable(more)
      <3>1. ASSUME NEW j \in Lifecycle(more)
            PROVE  LET before == {k \in Lifecycle(more) : k < j}
                   IN  IF before = {}
                       THEN more[j].to = "created"
                       ELSE \E m \in before :
                               /\ \A k \in before : k <= m
                               /\ Legal(more[m].to, more[j].to)
        <4>1. CASE j \in old
          BY <1>3, <1>5, <2>3, <4>1 DEF Tells, Replayable, old
        <4>2. CASE j = n + 1
          BY <1>5, <2>2, <2>4, <2>5, <4>2
        <4> QED
          BY <2>1, <4>1, <4>2
      <3> QED
        BY <2>1, <3>1 DEF Replayable
    <2>7. \A k \in Lifecycle(more) : k <= n + 1
      <3>1. n + 1 \in Nat /\ \A k \in old : k \in Nat /\ k < n + 1
        BY <1>1, <1>3
      <3> QED
        BY <2>1, <3>1
    <2> QED
      BY <2>1, <2>5, <2>6, <2>7 DEF Tells
  <1>6. ASSUME row.to = "created", old = {}
        PROVE  Tells(more, row.to)
    <2>1. row.to # None /\ Lifecycle(more) = {n + 1} /\ more[n + 1].to = "created"
      BY <1>1, <1>2, <1>6 DEF None
    <2>2. n + 1 \in Nat
      BY <1>1
    <2>3. {k \in {n + 1} : k < n + 1} = {}
      BY <2>2
    <2>4. Replayable(more)
      BY <2>1, <2>3 DEF Replayable
    <2> QED
      BY <1>6, <2>1, <2>2, <2>4 DEF Tells
  <1> QED
    BY <1>4, <1>5, <1>6 DEF more, old

\* A row without a state, and an accepted transition.
LEMMA NoteTold ==
    ASSUME NEW d \in Disk, Told(d), NEW row \in Row, row.to = None
    PROVE  Told(AppendEvent(d, row)) /\ AppendEvent(d, row).task = d.task
  <1>1. /\ AppendEvent(d, row).task = d.task
        /\ AppendEvent(d, row).ledger = Append(d.ledger, row)
    BY RowEffect
  <1>2. d.ledger \in Seq(Row)
    BY DEF Disk
  <1> QED
    BY <1>1, <1>2, ReplayRow DEF Told

LEMMA UpdateTold ==
    ASSUME NEW d \in Disk, Told(d), NEW to, Legal(d.task, to)
    PROVE  Told(UpdateTaskState(d, to)) /\ UpdateTaskState(d, to).task = to
  <1> DEFINE w == WriteTask(d, to)
             row == DispatchRow(d.task, to)
  <1>1. d.task \in States /\ to \in States
    BY LegalStates
  <1>2. w \in Disk /\ w.task = to /\ w.ledger = d.ledger /\ d.ledger \in Seq(Row)
    BY <1>1 DEF WriteTask, Disk
  <1>3. row \in Row /\ row.to = to
    BY <1>1, RowFacts DEF DispatchRow
  <1>4. d.task # Absent /\ to # Absent /\ to # None
    BY <1>1 DEF States, Absent, None
  <1>5. UpdateTaskState(d, to) = AppendEvent(w, row)
    BY DEF UpdateTaskState
  <1> HIDE DEF w, row
  <1>6. AppendEvent(w, row).task = to /\ AppendEvent(w, row).ledger = Append(d.ledger, row)
    BY <1>2, <1>3, RowEffect
  <1>7. Tells(Append(d.ledger, row), to)
    BY <1>2, <1>3, <1>4, ReplayRow DEF Told
  <1> QED
    BY <1>4, <1>5, <1>6, <1>7 DEF Told

LEMMA CreateTold ==
    ASSUME NEW d \in Disk, Told(d), d.task = Absent
    PROVE  Told(CreateTask(d)) /\ CreateTask(d).task = "created"
  <1> DEFINE w == WriteTask(d, "created")
             row == DispatchRow(None, "created")
  <1>1. "created" \in States /\ "created" # None /\ "created" # Absent
    BY DEF States, None, Absent
  <1>2. w \in Disk /\ w.task = "created" /\ w.ledger = d.ledger /\ d.ledger \in Seq(Row)
    BY <1>1 DEF WriteTask, Disk
  <1>3. row \in Row /\ row.to = "created"
    BY <1>1, RowFacts DEF DispatchRow
  <1> HIDE DEF w, row
  <1>4. /\ AppendEvent(w, row).task = "created"
        /\ AppendEvent(w, row).ledger = Append(d.ledger, row)
    BY <1>2, <1>3, RowEffect
  <1>5. Tells(Append(d.ledger, row), "created")
    BY <1>2, <1>3, ReplayRow DEF Told
  <1> QED
    BY <1>1, <1>4, <1>5 DEF Told, CreateTask, w, row

-----------------------------------------------------------------------------
(* The steps of the only session.                                          *)

\* It leaves its task at rest, or goes on in step.
LEMMA AloneStep ==
    ASSUME TypeOK, Undisturbed, AloneInv, NEW s \in Sessions, NEW t \in Tasks,
           NEW e, disk' = [disk EXCEPT ![t] = e], Told(e),
           NEW x, sess' = [sess EXCEPT ![s] = x], InStep(x, e),
           sess[s].pc \in Running => sess[s].task = t,
           x.pc \in Running => x.task = t,
           e.task \in Resting \/ x.pc \in Running
    PROVE  AloneInv'
  <1>1. disk \in [Tasks -> Disk] /\ sess \in [Sessions -> Session] /\ sess'[s] = x
    BY DEF TypeOK
  <1>2. \A v \in Tasks : Told(disk'[v])
    BY <1>1 DEF AloneInv
  <1>3. \A q \in Sessions : InStep(sess'[q], Files(q)')
    <2>1. InStep(x, Files(s)')
      <3>1. CASE x.pc \in Running
        BY <1>1, <3>1 DEF Files
      <3>2. CASE x.pc \notin Running
        BY <3>2 DEF InStep
      <3> QED
        BY <3>1, <3>2
    <2> QED
      BY <1>1, <2>1 DEF Undisturbed
  <1>4. ASSUME NEW v \in Tasks, disk'[v].task \notin Resting
        PROVE  \E q \in Sessions : sess'[q].pc \in Running /\ sess'[q].task = v
    <2>1. CASE v = t
      BY <1>1, <1>4, <2>1
    <2>2. CASE v # t
      BY <1>1, <1>4, <2>2 DEF AloneInv, Undisturbed
    <2> QED
      BY <2>1, <2>2
  <1> QED
    BY <1>2, <1>3, <1>4 DEF AloneInv

\* What it may assume.
LEMMA AloneFacts ==
    ASSUME IInv, FilesInv, AloneInv, NEW s \in Sessions, sess[s].pc # "offline"
    PROVE  /\ sess[s] \in Session /\ sess[s].task \in Tasks /\ sess[s].step \in Nat
           /\ Files(s) \in Disk /\ Files(s) = disk[sess[s].task] /\ Files(s).task # Absent
           /\ Told(Files(s)) /\ InStep(sess[s], Files(s)) /\ Knows(sess[s], Files(s))
  BY HereFacts DEF AloneInv

\* A step that changes no file.
LEMMA AloneStill ==
    ASSUME IInv, FilesInv, Undisturbed, AloneInv, NEW s \in Sessions,
           \/ \E t \in Tasks : Connect(s, t)
           \/ HangUp(s) \/ Disconnect(s) \/ Cancel(s) \/ CallHub(s) \/ HubStarts(s) \/ PollAgain(s)
    PROVE  AloneInv'
  <1>0. disk \in [Tasks -> Disk] /\ sess \in [Sessions -> Session]
    BY DEF IInv, TypeOK
  <1>1. CASE (\E t \in Tasks : Connect(s, t)) \/ HangUp(s)
    <2>1. PICK x : UNCHANGED disk /\ sess' = [sess EXCEPT ![s] = x] /\ x.pc \notin Running
                   /\ sess[s].pc \notin Running
      BY <1>1 DEF Connect, HangUp, Offline, Running
    <2>2. sess'[s] = x /\ \A q \in Sessions : q = s
      BY <1>0, <2>1 DEF Undisturbed
    <2> QED
      BY <2>1, <2>2 DEF AloneInv, InStep
  <1>2. CASE Disconnect(s)
    BY <1>2 DEF Disconnect, Undisturbed
  <1>3. CASE Cancel(s) \/ CallHub(s) \/ HubStarts(s) \/ PollAgain(s)
    <2>1. sess[s].pc \in Running /\ sess[s].pc # "offline"
      BY <1>3 DEF Cancel, CallHub, HubStarts, PollAgain, Running
    <2>2. /\ sess[s] \in Session /\ sess[s].task \in Tasks /\ Files(s) = disk[sess[s].task]
          /\ Told(Files(s)) /\ InStep(sess[s], Files(s))
      BY <2>1, AloneFacts
    <2>3. PICK x : /\ sess' = [sess EXCEPT ![s] = x] /\ x.task = sess[s].task
                   /\ x.step = sess[s].step /\ x.cur = sess[s].cur
                   /\ \/ x.pc = sess[s].pc
                      \/ sess[s].pc = "loop" /\ x.pc = "calling"
                      \/ sess[s].pc = "calling" /\ x.pc = "polling"
      BY <1>3, <2>2 DEF Cancel, CallHub, HubStarts, PollAgain, Session
    <2>4. InStep(x, Files(s)) /\ x.pc \in Running
      BY <2>1, <2>2, <2>3 DEF InStep, Running
    <2>5. disk' = [disk EXCEPT ![sess[s].task] = Files(s)]
      BY <1>0, <1>3, <2>2 DEF Cancel, CallHub, HubStarts, PollAgain
    <2> QED
      BY <2>2, <2>3, <2>4, <2>5, AloneStep DEF IInv
  <1> QED
    BY <1>1, <1>2, <1>3

\* A message: the task was created, or has ended, since nobody works on it.
LEMMA AloneMessage ==
    ASSUME IInv, FilesInv, Undisturbed, AloneInv, NEW s \in Sessions, UserMessage(s)
    PROVE  AloneInv'
  <1> DEFINE t == sess[s].task
             st == Files(s).task
             d == IF st = "created" THEN UpdateTaskState(Files(s), "planning") ELSE Files(s)
             x == sess'[s]
  <1>0. disk \in [Tasks -> Disk] /\ sess \in [Sessions -> Session]
    BY DEF IInv, TypeOK
  <1>1. sess[s].pc = "idle" /\ sess[s].pc # "offline" /\ sess[s].pc \notin Running
    BY DEF UserMessage, Running
  <1>2. t \in Tasks /\ Files(s) \in Disk /\ Files(s) = disk[t] /\ Told(Files(s)) /\ st # Absent
    BY <1>1, AloneFacts
  <1>3. st = "created" \/ st \in Terminal
    BY <1>1, <1>2 DEF AloneInv, Undisturbed, Resting
  <1>4. Told(d) /\ (st = "created" => d.task = "planning")
    <2>1. st = "created" => Legal(st, "planning")
      BY DEF Legal, Transitions, Forward
    <2> QED
      BY <1>2, <2>1, UpdateTold
  <1>5. disk' = [disk EXCEPT ![t] = d]
    BY <1>0, <1>2 DEF UserMessage, SetFiles
  <1>6. /\ sess' = [sess EXCEPT ![s] = x] /\ x.task = t
        /\ x.pc = IF st \in Terminal THEN "idle" ELSE "plan"
        /\ x.cur = IF st \in Terminal THEN None ELSE IF st = "created" THEN "planning" ELSE st
        /\ x.step = 1
    BY <1>0 DEF UserMessage, Offline
  <1> HIDE DEF d, x
  <1>7. InStep(x, d) /\ (d.task \in Resting \/ x.pc \in Running)
    <2>1. CASE st = "created"
      BY <1>4, <1>6, <2>1 DEF InStep, Running, Terminal
    <2>2. CASE st \in Terminal
      BY <1>6, <2>2 DEF InStep, Running, Resting, d, Terminal
    <2> QED
      BY <1>3, <2>1, <2>2
  <1> QED
    BY <1>1, <1>2, <1>4, <1>5, <1>6, <1>7, AloneStep DEF IInv

\* The store accepts every transition of the run.
LEMMA AloneAccepted ==
    ASSUME IInv, FilesInv, AloneInv, NEW s \in Sessions, Target(s) # None
    PROVE  Legal(Files(s).task, Target(s))
  <1>1. sess[s].pc \in {"plan", "judge", "loop", "deliver"} /\ sess[s].pc # "offline"
    BY TargetFacts
  <1>2. /\ InStep(sess[s], Files(s)) /\ Knows(sess[s], Files(s)) /\ sess[s].step \in Nat
        /\ sess[s].task \in Tasks
    BY <1>1, AloneFacts
  <1>3. CASE sess[s].pc = "plan"
    BY <1>2, <1>3, TargetFacts DEF InStep, Running, Legal, Transitions, Forward
  <1>4. CASE sess[s].pc = "judge"
    <2>1. Target(s) = "producing" /\ sess[s].cur = "dispatching"
      BY <1>4 DEF Target, None
    <2> QED
      BY <1>2, <1>4, <2>1 DEF InStep, Running, Legal, Transitions, Forward
  <1>5. CASE sess[s].pc = "loop"
    <2>1. Target(s) = "cross_validating" /\ ~StepsLeft(s)
      BY <1>5 DEF Target, None
    <2>2. Len(Plan(sess[s].task)) \in Nat \ {0}
      BY <1>2, DispatchAssumption, EmptySeq DEF Plan
    <2>3. sess[s].step # 1
      BY <1>2, <2>1, <2>2 DEF StepsLeft
    <2> QED
      BY <1>2, <1>5, <2>1, <2>3 DEF InStep, Running, Legal, Transitions, Forward
  <1>6. CASE sess[s].pc = "deliver"
    BY <1>2, <1>6, TargetFacts DEF InStep, Running, Legal, Transitions, Forward
  <1> QED
    BY <1>1, <1>3, <1>4, <1>5, <1>6

LEMMA AloneAdvance ==
    ASSUME IInv, FilesInv, Undisturbed, AloneInv, NEW s \in Sessions, Advance(s)
    PROVE  AloneInv'
  <1> DEFINE t == sess[s].task
             to == Target(s)
             d == UpdateTaskState(Files(s), to)
             x == [sess[s] EXCEPT !.pc = After(sess[s].pc), !.cur = to]
  <1>1. /\ to # None /\ Legal(Files(s).task, to)
        /\ sess[s].pc \in {"plan", "judge", "loop", "deliver"} /\ sess[s].pc # "offline"
    BY TargetFacts DEF Advance
  <1>2. /\ sess[s] \in Session /\ t \in Tasks /\ Files(s) \in Disk /\ Told(Files(s))
        /\ InStep(sess[s], Files(s)) /\ Knows(sess[s], Files(s))
    BY <1>1, AloneFacts
  <1>3. Told(d) /\ d.task = to
    BY <1>1, <1>2, UpdateTold
  <1>4. disk' = [disk EXCEPT ![t] = d] /\ sess' = [sess EXCEPT ![s] = x]
    BY DEF Advance, SetFiles
  <1>5. x.pc = After(sess[s].pc) /\ x.task = t /\ x.step = sess[s].step /\ x.cur = to
    BY <1>1, <1>2, TargetFacts DEF Session
  <1> HIDE DEF d, x
  <1>6. InStep(x, d) /\ (d.task \in Resting \/ x.pc \in Running)
    <2>1. CASE sess[s].pc = "plan"
      BY <1>1, <1>2, <1>3, <1>5, <2>1, TargetFacts DEF InStep, Running, After
    <2>2. CASE sess[s].pc = "judge"
      <3>1. to = "producing"
        BY <1>1, <2>2 DEF Target, None
      <3> QED
        BY <1>3, <1>5, <2>2, <3>1 DEF InStep, Running, After
    <2>3. CASE sess[s].pc = "loop"
      <3>1. to = "cross_validating"
        BY <1>1, <2>3 DEF Target, None
      <3> QED
        BY <1>3, <1>5, <2>3, <3>1 DEF InStep, Running, After
    <2>4. CASE sess[s].pc = "deliver"
      BY <1>1, <1>3, <1>5, <2>4, TargetFacts DEF InStep, Running, After, Resting, Terminal
    <2> QED
      BY <1>1, <2>1, <2>2, <2>3, <2>4
  <1> QED
    BY <1>2, <1>3, <1>4, <1>5, <1>6, AloneStep DEF IInv

\* The runs that are stopped end in a terminal state by one accepted transition.
LEMMA AloneStop ==
    ASSUME IInv, FilesInv, Undisturbed, AloneInv, NEW s \in Sessions,
           Rejected(s) \/ Block(s) \/ Raises(s)
    PROVE  AloneInv'
  <1> DEFINE t == sess[s].task
             x == [sess[s] EXCEPT !.pc = "idle", !.cur = None]
  <1>1. sess[s].pc \in Running /\ sess[s].pc # "offline" /\ EndRun(s) /\ ~Rejected(s)
    BY TargetFacts, AloneAccepted DEF Rejected, Block, MustBlock, Raises, WritesNow, Running
  <1>2. /\ sess[s] \in Session /\ t \in Tasks /\ Files(s) \in Disk /\ Told(Files(s))
        /\ InStep(sess[s], Files(s))
    BY <1>1, AloneFacts
  <1>3. /\ Files(s).task \notin Terminal /\ Files(s).task = sess[s].cur
        /\ \A st \in {"blocked", "error"} : Legal(Files(s).task, st)
    <2>1. /\ Files(s).task \in {"planning", "dispatching", "producing", "cross_validating"}
          /\ Files(s).task = sess[s].cur
      BY <1>1, <1>2 DEF InStep, Running
    <2> QED
      BY <2>1 DEF Legal, Transitions, States, Terminal
  <1>4. PICK st \in {"blocked", "error"} : SetFiles(s, UpdateTaskState(Files(s), st))
    BY <1>1, <1>3 DEF Block, Raises, AfterBlock, AfterException
  <1> DEFINE d == UpdateTaskState(Files(s), st)
  <1>5. Told(d) /\ d.task = st
    BY <1>2, <1>3, <1>4, UpdateTold
  <1>6. disk' = [disk EXCEPT ![t] = d] /\ sess' = [sess EXCEPT ![s] = x]
    BY <1>1, <1>4 DEF EndRun, SetFiles
  <1>7. x.pc = "idle"
    BY <1>2 DEF Session
  <1> HIDE DEF d, x
  <1>8. InStep(x, d) /\ d.task \in Resting /\ x.pc \notin Running
    BY <1>5, <1>7 DEF InStep, Running, Resting, Terminal
  <1> QED
    BY <1>2, <1>5, <1>6, <1>8, AloneStep DEF IInv

\* Answers, artifacts and the verdict leave the state alone.
LEMMA AloneWrites ==
    ASSUME IInv, FilesInv, Undisturbed, AloneInv, NEW s \in Sessions,
           HubAnswers(s) \/ WriteArtifact(s) \/ AppendVerdict(s)
    PROVE  AloneInv'
  <1> DEFINE t == sess[s].task
             i == sess[s].step
             f == WriteFile(Files(s), i)
             done == [sess[s] EXCEPT !.pc = "loop", !.step = i + 1, !.answer = "none"]
  <1>1. sess[s].pc \in Running /\ sess[s].pc # "offline" /\ sess[s].pc # "plan"
    BY DEF HubAnswers, MayAnswer, WriteArtifact, WritesNow, AppendVerdict, Running
  <1>2. /\ sess[s] \in Session /\ t \in Tasks /\ i \in Nat /\ Files(s) \in Disk /\ Told(Files(s))
        /\ InStep(sess[s], Files(s)) /\ Knows(sess[s], Files(s))
    BY <1>1, AloneFacts
  <1>3. /\ f \in Disk /\ Told(f) /\ f.task = Files(s).task
    BY <1>2 DEF WriteFile, Disk, Told
  <1>4. /\ AiCallRow(i) \in Row /\ ArtifactRow(i) \in Row /\ VerdictRow \in Row
        /\ AiCallRow(i).to = None /\ ArtifactRow(i).to = None /\ VerdictRow.to = None
    BY <1>2, RowFacts DEF AiCallRow, ArtifactRow, VerdictRow
  <1> HIDE DEF f
  <1>5. CASE WriteArtifact(s)
    <2> DEFINE e == AppendEvent(f, ArtifactRow(i))
    <2>1. Told(e) /\ e.task = Files(s).task
      BY <1>3, <1>4, NoteTold
    <2>2. disk' = [disk EXCEPT ![t] = e] /\ sess' = [sess EXCEPT ![s] = done]
      BY <1>5 DEF WriteArtifact, SetFiles, Persist, f
    <2>3. done.pc = "loop" /\ done.task = t /\ done.step = i + 1 /\ done.cur = sess[s].cur
      BY <1>2 DEF Session
    <2>4. Files(s).task = "producing" /\ i # 0
      BY <1>1, <1>2, <1>5 DEF WriteArtifact, WritesNow, InStep, Knows
    <2> HIDE DEF e, done
    <2>5. InStep(done, e) /\ done.pc \in Running
      BY <1>1, <1>2, <2>1, <2>3, <2>4 DEF InStep, Running
    <2> QED
      BY <1>2, <2>1, <2>2, <2>3, <2>5, AloneStep DEF IInv
  <1>6. CASE HubAnswers(s) \/ AppendVerdict(s)
    <2>1. PICK row \in {AiCallRow(i), VerdictRow} : \E x :
            /\ disk' = [disk EXCEPT ![t] = AppendEvent(Files(s), row)]
            /\ sess' = [sess EXCEPT ![s] = x]
            /\ x.task = t /\ x.step = i /\ x.cur = sess[s].cur
            /\ \/ sess[s].pc \in {"calling", "polling"} /\ x.pc = "judge"
               \/ sess[s].pc = "verdict" /\ x.pc = "deliver"
      <3>1. CASE HubAnswers(s)
        <4>1. PICK a \in {"ok", "blocked"} :
                /\ MayAnswer(s, a)
                /\ disk' = [disk EXCEPT ![t] = AppendEvent(Files(s), AiCallRow(i))]
                /\ sess' = [sess EXCEPT ![s] = [sess[s] EXCEPT !.pc = "judge", !.answer = a]]
          BY <3>1 DEF HubAnswers, SetFiles
        <4> DEFINE y == [sess[s] EXCEPT !.pc = "judge", !.answer = a]
        <4>2. y.task = t /\ y.step = i /\ y.cur = sess[s].cur /\ y.pc = "judge"
          BY <1>2 DEF Session
        <4>3. sess[s].pc \in {"calling", "polling"}
          BY <4>1 DEF MayAnswer
        <4> HIDE DEF y
        <4> QED
          BY <4>1, <4>2, <4>3 DEF y
      <3>2. CASE AppendVerdict(s)
        <4> DEFINE y == [sess[s] EXCEPT !.pc = "deliver"]
        <4>1. y.task = t /\ y.step = i /\ y.cur = sess[s].cur /\ y.pc = "deliver"
          BY <1>2 DEF Session
        <4> QED
          BY <3>2, <4>1 DEF AppendVerdict, SetFiles
      <3> QED
        BY <1>6, <3>1, <3>2
    <2>2. PICK x :
            /\ disk' = [disk EXCEPT ![t] = AppendEvent(Files(s), row)]
            /\ sess' = [sess EXCEPT ![s] = x]
            /\ x.task = t /\ x.step = i /\ x.cur = sess[s].cur
            /\ \/ sess[s].pc \in {"calling", "polling"} /\ x.pc = "judge"
               \/ sess[s].pc = "verdict" /\ x.pc = "deliver"
      BY <2>1
    <2> DEFINE e == AppendEvent(Files(s), row)
    <2>3. Told(e) /\ e.task = Files(s).task
      BY <1>2, <1>4, <2>1, <2>2, NoteTold
    <2> HIDE DEF e
    <2>4. InStep(x, e) /\ x.pc \in Running
      BY <1>1, <1>2, <2>2, <2>3 DEF InStep, Running
    <2> QED
      BY <1>2, <2>2, <2>3, <2>4, AloneStep DEF IInv, e
  <1> QED
    BY <1>5, <1>6

LEMMA AloneEndpoint ==
    ASSUME IInv, FilesInv, AloneInv, NEW t \in Tasks, Create(t) \/ NoteLocalFailure(t)
    PROVE  AloneInv'
  <1>1. disk \in [Tasks -> Disk] /\ disk[t] \in Disk /\ Told(disk[t]) /\ sess' = sess
    BY DEF IInv, TypeOK, AloneInv, Create, NoteLocalFailure
  <1>2. PICK e : /\ disk' = [disk EXCEPT ![t] = e] /\ Told(e)
                 /\ e.task = disk[t].task \/ (disk[t].task = Absent /\ e.task = "created")
    <2>1. CASE Create(t)
      <3>1. disk' = [disk EXCEPT ![t] = CreateTask(disk[t])] /\ disk[t].task = Absent
        BY <2>1 DEF Create
      <3> QED
        BY <1>1, <3>1, CreateTold
    <2>2. CASE NoteLocalFailure(t)
      <3>1. AiCallRow(0) \in Row /\ AiCallRow(0).to = None
        BY RowFacts DEF AiCallRow
      <3> DEFINE e == AppendEvent(disk[t], AiCallRow(0))
      <3>2. disk' = [disk EXCEPT ![t] = e]
        BY <2>2 DEF NoteLocalFailure
      <3>3. Told(e) /\ e.task = disk[t].task
        BY <1>1, <3>1, NoteTold
      <3> QED
        BY <3>2, <3>3
    <2> QED
      BY <2>1, <2>2
  <1>3. \A v \in Tasks : Told(disk'[v])
    BY <1>1, <1>2 DEF AloneInv
  <1>4. ASSUME NEW v \in Tasks
        PROVE  \/ disk'[v].task = disk[v].task
               \/ (disk[v].task = Absent /\ disk'[v].task = "created")
    <2>1. CASE v = t
      BY <1>1, <1>2, <2>1
    <2>2. CASE v # t
      BY <1>1, <1>2, <2>2
    <2> QED
      BY <2>1, <2>2
  <1>5. ASSUME NEW q \in Sessions PROVE InStep(sess'[q], Files(q)')
    <2>1. CASE sess[q].pc \in Running
      <3>1. sess[q].task \in Tasks /\ Files(q).task # Absent /\ InStep(sess[q], Files(q))
        BY <2>1, AloneFacts DEF Running
      <3>2. Files(q)'.task = Files(q).task
        BY <1>1, <1>4, <3>1 DEF Files
      <3> QED
        BY <1>1, <3>1, <3>2 DEF InStep
    <2>2. CASE sess[q].pc \notin Running
      BY <1>1, <2>2 DEF InStep
    <2> QED
      BY <2>1, <2>2
  <1> QED
    BY <1>1, <1>3, <1>4, <1>5 DEF AloneInv, Resting

LEMMA AloneInit == Init => AloneInv
  <1> SUFFICES ASSUME Init PROVE AloneInv
    OBVIOUS
  <1>1. Told(EmptyDisk) /\ EmptyDisk.task \in Resting
    BY DEF EmptyDisk, Told, Lifecycle, Resting
  <1>2. \A d : InStep(Offline, d)
    BY DEF InStep, Offline, Running
  <1> QED
    BY <1>1, <1>2 DEF Init, AloneInv

LEMMA AloneNext ==
    ASSUME Undisturbed
    PROVE  IInv /\ FilesInv /\ AloneInv /\ [Next]_vars => AloneInv'
  <1> SUFFICES ASSUME IInv, FilesInv, AloneInv, [Next]_vars PROVE AloneInv'
    OBVIOUS
  <1>1. CASE Alive
    BY <1>1, AloneEndpoint, AloneStill, AloneMessage, AloneAdvance, AloneStop, AloneWrites
       DEF Alive, Run
  <1>2. CASE UNCHANGED vars
    BY <1>2 DEF vars, AloneInv, Files
  <1>3. ~Crash
    BY DEF Crash, Undisturbed, IInv, TypeOK
  <1> QED
    BY <1>1, <1>2, <1>3 DEF Next, CrashInCreate, CrashInNote, CrashInRun

\* With one chat, and neither a death of the server nor a lost connection in a run, the
\* ledger of every task replays, at every moment, to the state of its task.json.
THEOREM UndisturbedLedgersReplay ==
    ASSUME Undisturbed
    PROVE  Spec => []LedgerReplays
  <1>1. IInv /\ AloneInv => LedgerReplays
    <2> SUFFICES ASSUME IInv, AloneInv, NEW t \in Tasks, disk[t].task # Absent
                 PROVE  Replayable(disk[t].ledger) /\ ReplayState(disk[t].ledger) = disk[t].task
      BY DEF LedgerReplays
    <2> DEFINE lg == disk[t].ledger
    <2>1. Tells(lg, disk[t].task) /\ lg \in Seq(Row)
      BY DEF AloneInv, Told, IInv, TypeOK, Disk
    <2> DEFINE j == CHOOSE i \in Lifecycle(lg) : \A k \in Lifecycle(lg) : k <= i
    <2>2. PICK i \in Lifecycle(lg) : lg[i].to = disk[t].task /\ \A k \in Lifecycle(lg) : k <= i
      BY <2>1 DEF Tells
    <2>3. j \in Lifecycle(lg) /\ \A k \in Lifecycle(lg) : k <= j
      BY <2>2
    <2>4. ReplayState(lg) = lg[j].to
      BY DEF ReplayState
    <2>5. Lifecycle(lg) \subseteq Nat
      BY <2>1 DEF Lifecycle
    <2> HIDE DEF j
    <2>6. i = j
      BY <2>2, <2>3, <2>5
    <2> QED
      BY <2>1, <2>2, <2>4, <2>6 DEF Tells
  <1>2. IInv /\ FilesInv /\ AloneInv /\ [Next]_vars => AloneInv'
    BY AloneNext
  <1> QED
    BY <1>1, <1>2, AloneInit, Invariance, FilesInvariance, PTL DEF Spec

-----------------------------------------------------------------------------
(* The length of a run.                                                    *)

\* Stretches of code for the plan steps of task t from i on: the loop, the call, the
\* polls and their answer, and what is made of it.
Ahead(t, i) == (PollBudget + 5) * (Len(Plan(t)) + 1 - i)

\* Stretches of code to the end of the run of a session in state x.
StepsToGo(x) ==
    CASE x.pc = "plan" -> Ahead(x.task, x.step) + 4
      [] x.pc = "loop" -> Ahead(x.task, x.step) + 3
      [] x.pc = "calling" -> Ahead(x.task, x.step + 1) + PollBudget + 7
      [] x.pc = "polling" -> Ahead(x.task, x.step + 1) + (PollBudget - x.polls) + 6
      [] x.pc = "judge" -> Ahead(x.task, x.step + 1) + 5
      [] x.pc = "write" -> Ahead(x.task, x.step + 1) + 4
      [] x.pc = "verdict" -> 2
      [] x.pc = "deliver" -> 1
      [] x.pc \in {"idle", "offline"} -> 0

\* A run begins with the first step of its plan and never leaves the plan.
InPlan(x) ==
    /\ x.pc = "plan" => x.step = 1
    /\ x.pc = "loop" => x.step \in 1..Len(Plan(x.task)) + 1
    /\ x.pc \in {"calling", "polling", "judge", "write"} => x.step \in 1..Len(Plan(x.task))

RunsInPlan == \A s \in Sessions : InPlan(sess[s])

\* One stretch of the run of session s.
Resumes(s) ==
    LET old == sess[s]
        new == sess'[s]
    IN  /\ old.pc \in Running
        /\ \A q \in Sessions \ {s} : sess'[q] = sess[q]
        /\ \/ new.pc = "idle"
           \/ new.task = old.task /\ old.pc = "verdict" /\ new.pc = "deliver"
           \/ new.task = old.task /\ old.pc = "loop" /\ new.pc = "verdict"
           \/ /\ new.task = old.task /\ new.step = old.step
              /\ \/ old.pc = "plan" /\ new.pc = "loop"
                 \/ old.pc = "loop" /\ new.pc = "calling" /\ old.step <= Len(Plan(old.task))
                 \/ old.pc = "calling" /\ new.pc = "polling" /\ new.polls = 0
                 \/ old.pc = "polling" /\ new.pc = "polling" /\ new.polls = old.polls + 1
                 \/ old.pc \in {"calling", "polling"} /\ new.pc = "judge"
                 \/ old.pc = "judge" /\ new.pc = "write"
           \/ /\ new.task = old.task /\ new.step = old.step + 1
              /\ old.pc \in {"judge", "write"} /\ new.pc = "loop"

\* The later the step, the less is ahead.
LEMMA AheadFacts ==
    ASSUME NEW t \in Tasks
    PROVE  /\ Len(Plan(t)) \in Nat \ {0}
           /\ \A i \in 1..Len(Plan(t)) + 1 : Ahead(t, i) \in Nat /\ Ahead(t, i) <= Ahead(t, 1)
           /\ \A i \in 1..Len(Plan(t)) : Ahead(t, i) = Ahead(t, i + 1) + PollBudget + 5
  <1>1. Plan(t) \in Seq(Kinds) /\ Plan(t) # <<>>
    <2>1. Targets[t] \in Seq(Kinds)
      BY DispatchAssumption
    <2>2. <<"sync">> \in Seq(Kinds) /\ <<"sync">> # <<>>
      BY DEF Kinds
    <2> QED
      BY <2>1, <2>2 DEF Plan
  <1>2. PICK n \in Nat \ {0} : n = Len(Plan(t))
    BY <1>1
  <1>3. PICK R \in Nat : R = PollBudget + 5
    BY DispatchAssumption
  <1>4. \A a, b \in Nat : R * (a + b) = R * a + R * b /\ R * a \in Nat /\ R * 1 = R
    OBVIOUS
  <1>5. ASSUME NEW i \in 1..n + 1
        PROVE  R * (n + 1 - i) \in Nat /\ R * (n + 1 - i) <= R * (n + 1 - 1)
    <2>1. PICK a \in Nat, b \in Nat : a = n + 1 - i /\ b = i - 1
      OBVIOUS
    <2>2. n + 1 - 1 = a + b
      BY <2>1
    <2>3. R * (a + b) = R * a + R * b /\ R * a \in Nat /\ R * b \in Nat
      BY <1>4
    <2>4. R * a <= R * (a + b)
      BY <2>3
    <2> QED
      BY <2>1, <2>2, <2>3, <2>4
  <1>6. ASSUME NEW i \in 1..n
        PROVE  R * (n + 1 - i) = R * (n + 1 - (i + 1)) + R
    <2>1. PICK a \in Nat : a = n + 1 - (i + 1)
      OBVIOUS
    <2>2. n + 1 - i = a + 1
      BY <2>1
    <2>3. R * (a + 1) = R * a + R
      BY <1>4
    <2> QED
      BY <2>1, <2>2, <2>3
  <1>7. \A i \in 1..n : Ahead(t, i) = Ahead(t, i + 1) + R /\ Ahead(t, i + 1) \in Nat
    BY <1>2, <1>3, <1>5, <1>6 DEF Ahead
  <1>8. \A i \in 1..n + 1 : Ahead(t, i) \in Nat /\ Ahead(t, i) <= Ahead(t, 1)
    BY <1>2, <1>3, <1>5 DEF Ahead
  <1>9. \A i \in 1..n : Ahead(t, i + 1) + R = Ahead(t, i + 1) + PollBudget + 5
    <2>1. \A a \in Nat : a + R = a + PollBudget + 5
      BY <1>3, DispatchAssumption
    <2> QED
      BY <1>7, <2>1
  <1> QED
    BY <1>2, <1>7, <1>8, <1>9

\* The distance is a number, bounded by the plan and the poll budget, and zero when
\* there is no run.
LEMMA ToGoFacts ==
    ASSUME NEW x \in Session, InPlan(x), x.pc # "offline" => x.task \in Tasks
    PROVE  /\ StepsToGo(x) \in Nat
           /\ x.pc \in Running => StepsToGo(x) # 0 /\ StepsToGo(x) <= Ahead(x.task, 1) + 4
  <1>1. /\ x.pc \in Running \cup {"offline", "idle"} /\ x.step \in Nat
        /\ x.polls \in 0..PollBudget /\ PollBudget \in Nat
    BY DispatchAssumption DEF Session
  <1>2. CASE x.pc \in {"idle", "offline"}
    BY <1>2 DEF StepsToGo, Running
  <1>3. CASE x.pc \in Running
    <2>1. x.task \in Tasks
      BY <1>3 DEF Running
    <2>2. PICK n \in Nat \ {0}, total \in Nat :
            /\ n = Len(Plan(x.task)) /\ total = Ahead(x.task, 1)
            /\ \A i \in 1..n + 1 : Ahead(x.task, i) \in Nat /\ Ahead(x.task, i) <= total
            /\ \A i \in 1..n : Ahead(x.task, i) = Ahead(x.task, i + 1) + PollBudget + 5
      BY <2>1, AheadFacts
    <2>3. CASE x.pc \in {"plan", "loop"}
      <3>1. x.step \in 1..n + 1
        BY <2>2, <2>3 DEF InPlan
      <3>2. PICK a \in Nat : a = Ahead(x.task, x.step) /\ a <= total
        BY <2>2, <3>1
      <3>3. StepsToGo(x) \in {a + 3, a + 4}
        BY <2>3, <3>2 DEF StepsToGo
      <3>4. \A m \in {a + 3, a + 4} : m \in Nat /\ m # 0 /\ m <= total + 4
        BY <3>2
      <3> QED
        BY <2>2, <3>3, <3>4
    <2>4. CASE x.pc \in {"calling", "polling", "judge", "write"}
      <3>1. x.step \in 1..n
        BY <2>2, <2>4 DEF InPlan
      <3>2. x.step \in 1..n + 1 /\ x.step + 1 \in 1..n + 1
        BY <3>1
      <3>3. PICK a \in Nat : a = Ahead(x.task, x.step + 1) /\ a + PollBudget + 5 <= total
        BY <2>2, <3>1, <3>2
      <3>4. PICK k \in 0..PollBudget : k = PollBudget - x.polls
        BY <1>1
      <3>5. StepsToGo(x) \in {a + PollBudget + 7, a + k + 6, a + 5, a + 4}
        BY <2>4, <3>3, <3>4 DEF StepsToGo
      <3>6. \A m \in {a + PollBudget + 7, a + k + 6, a + 5, a + 4} :
               m \in Nat /\ m # 0 /\ m <= total + 4
        BY <1>1, <3>3
      <3> QED
        BY <2>2, <3>5, <3>6
    <2>5. CASE x.pc \in {"verdict", "deliver"}
      <3>1. StepsToGo(x) \in {1, 2}
        BY <2>5 DEF StepsToGo
      <3> QED
        BY <2>2, <3>1
    <2> QED
      BY <1>3, <2>3, <2>4, <2>5 DEF Running
  <1> QED
    BY <1>1, <1>2, <1>3 DEF Running

\* Every step of a run is one of these stretches.
LEMMA RunResumes ==
    ASSUME TypeOK, NEW s \in Sessions, Run(s)
    PROVE  Resumes(s)
  <1> DEFINE old == sess[s]
  <1>1. old \in Session /\ DOMAIN sess = Sessions
    BY DEF TypeOK
  <1>2. Target(s) # None => old.pc \in {"plan", "judge", "loop", "deliver"}
    BY DEF Target, None
  <1>3. MustBlock(s) => old.pc \in Running
    BY DEF MustBlock, Running
  <1>4. WritesNow(s) => old.pc \in {"judge", "write"}
    BY DEF WritesNow
  <1>5. ASSUME EndRun(s), old.pc \in Running
        PROVE  Resumes(s)
    <2>1. sess'[s].pc = "idle" /\ \A q \in Sessions \ {s} : sess'[q] = sess[q]
      BY <1>1, <1>5 DEF EndRun, Session
    <2> QED
      BY <1>5, <2>1 DEF Resumes
  <1>6. CASE Rejected(s) \/ Block(s) \/ Raises(s)
    <2>1. EndRun(s) /\ old.pc \in Running
      BY <1>2, <1>3, <1>4, <1>6 DEF Rejected, Block, Raises, Running
    <2> QED
      BY <1>5, <2>1
  <1>7. CASE Advance(s)
    <2> DEFINE p == After(old.pc)
    <2>1. sess' = [sess EXCEPT ![s] = [old EXCEPT !.pc = p, !.cur = Target(s)]]
      BY <1>7 DEF Advance
    <2>2. \/ old.pc = "plan" /\ p = "loop"
          \/ old.pc = "judge" /\ p = "write"
          \/ old.pc = "loop" /\ p = "verdict"
          \/ old.pc = "deliver" /\ p = "idle"
      BY <1>2, <1>7 DEF Advance, After
    <2> HIDE DEF p
    <2>3. /\ sess'[s].pc = p /\ sess'[s].task = old.task /\ sess'[s].step = old.step
          /\ \A q \in Sessions \ {s} : sess'[q] = sess[q]
      BY <1>1, <2>1 DEF Session
    <2> QED
      BY <2>2, <2>3 DEF Resumes, Running
  <1>8. CASE CallHub(s) \/ HubStarts(s) \/ PollAgain(s) \/ HubAnswers(s)
    <2>1. /\ sess'[s].task = old.task /\ sess'[s].step = old.step
          /\ \A q \in Sessions \ {s} : sess'[q] = sess[q]
          /\ \/ old.pc = "loop" /\ sess'[s].pc = "calling" /\ old.step <= Len(Plan(old.task))
             \/ old.pc = "calling" /\ sess'[s].pc = "polling" /\ sess'[s].polls = 0
             \/ /\ old.pc = "polling" /\ sess'[s].pc = "polling"
                /\ sess'[s].polls = old.polls + 1
             \/ old.pc \in {"calling", "polling"} /\ sess'[s].pc = "judge"
      <3>1. CASE CallHub(s)
        BY <1>1, <3>1 DEF CallHub, StepsLeft, Session
      <3>2. CASE HubStarts(s)
        BY <1>1, <3>2 DEF HubStarts, Session
      <3>3. CASE PollAgain(s)
        BY <1>1, <3>3 DEF PollAgain, Session
      <3>4. CASE HubAnswers(s)
        BY <1>1, <3>4 DEF HubAnswers, MayAnswer, Session
      <3> QED
        BY <1>8, <3>1, <3>2, <3>3, <3>4
    <2> QED
      BY <2>1 DEF Resumes, Running
  <1>9. CASE WriteArtifact(s)
    <2>1. /\ old.pc \in {"judge", "write"} /\ sess'[s].pc = "loop"
          /\ sess'[s].task = old.task /\ sess'[s].step = old.step + 1
          /\ \A q \in Sessions \ {s} : sess'[q] = sess[q]
      BY <1>1, <1>4, <1>9 DEF WriteArtifact, Session
    <2> QED
      BY <2>1 DEF Resumes, Running
  <1>10. CASE AppendVerdict(s)
    <2>1. /\ old.pc = "verdict" /\ sess'[s].pc = "deliver" /\ sess'[s].task = old.task
          /\ \A q \in Sessions \ {s} : sess'[q] = sess[q]
      BY <1>1, <1>10 DEF AppendVerdict, Session
    <2> QED
      BY <2>1 DEF Resumes, Running
  <1> QED
    BY <1>6, <1>7, <1>8, <1>9, <1>10 DEF Run

\* Such a stretch stays in the plan and brings the run nearer to its end.
LEMMA ResumeProgress ==
    ASSUME TypeOK, TypeOK', RunsInPlan, NEW s \in Sessions, Resumes(s)
    PROVE  InPlan(sess'[s]) /\ StepsToGo(sess'[s]) < StepsToGo(sess[s])
  <1>1. /\ sess[s] \in Session /\ sess'[s] \in Session /\ InPlan(sess[s])
        /\ sess[s].pc \in Running /\ sess[s].task \in Tasks
    BY DEF TypeOK, RunsInPlan, Resumes, Running
  <1>2. PICK old \in Session, new \in Session : old = sess[s] /\ new = sess'[s]
    BY <1>1
  <1>3. /\ InPlan(old) /\ old.pc \in Running /\ old.task \in Tasks
        /\ old.step \in Nat /\ old.polls \in 0..PollBudget /\ new.polls \in 0..PollBudget
        /\ PollBudget \in Nat /\ StepsToGo(old) \in Nat /\ StepsToGo(old) # 0
    <2>1. StepsToGo(old) \in Nat /\ StepsToGo(old) # 0
      BY <1>1, <1>2, ToGoFacts
    <2> QED
      BY <1>1, <1>2, <2>1, DispatchAssumption DEF Session
  <1>4. PICK n \in Nat \ {0} :
          /\ n = Len(Plan(old.task))
          /\ \A i \in 1..n + 1 : Ahead(old.task, i) \in Nat
          /\ \A i \in 1..n : Ahead(old.task, i) = Ahead(old.task, i + 1) + PollBudget + 5
    BY <1>3, AheadFacts
  <1>5. CASE new.pc = "idle"
    <2>1. StepsToGo(new) = 0
      BY <1>5 DEF StepsToGo
    <2> QED
      BY <1>2, <1>3, <1>5, <2>1 DEF InPlan
  <1>6. CASE old.pc = "verdict" /\ new.pc = "deliver"
    <2>1. StepsToGo(new) = 1 /\ StepsToGo(old) = 2
      BY <1>6 DEF StepsToGo
    <2> QED
      BY <1>2, <1>6, <2>1 DEF InPlan
  <1>7. CASE old.pc = "loop" /\ new.pc = "verdict"
    <2>1. PICK a \in Nat : a = Ahead(old.task, old.step)
      BY <1>3, <1>4, <1>7 DEF InPlan
    <2>2. StepsToGo(new) = 2 /\ StepsToGo(old) = a + 3
      BY <1>7, <2>1 DEF StepsToGo
    <2>3. 2 < a + 3
      OBVIOUS
    <2> QED
      BY <1>2, <1>7, <2>2, <2>3 DEF InPlan
  <1>8. CASE old.pc = "plan" /\ new.pc = "loop" /\ new.task = old.task /\ new.step = old.step
    <2>1. old.step = 1 /\ 1 \in 1..n + 1
      BY <1>3, <1>8 DEF InPlan
    <2>2. PICK a \in Nat : a = Ahead(old.task, old.step)
      BY <1>4, <2>1
    <2>3. StepsToGo(new) = a + 3 /\ StepsToGo(old) = a + 4
      BY <1>8, <2>2 DEF StepsToGo
    <2>4. InPlan(new)
      BY <1>4, <1>8, <2>1 DEF InPlan
    <2> QED
      BY <1>2, <2>3, <2>4
  <1>9. CASE /\ old.pc = "loop" /\ new.pc = "calling" /\ old.step <= n
             /\ new.task = old.task /\ new.step = old.step
    <2>1. old.step \in 1..n /\ old.step + 1 \in 1..n + 1
      BY <1>3, <1>4, <1>9 DEF InPlan
    <2>2. PICK a \in Nat : /\ a = Ahead(old.task, old.step + 1)
                          /\ Ahead(old.task, old.step) = a + PollBudget + 5
      BY <1>4, <2>1
    <2>3. StepsToGo(new) = a + PollBudget + 7 /\ StepsToGo(old) = a + PollBudget + 5 + 3
      BY <1>9, <2>2 DEF StepsToGo
    <2>4. InPlan(new)
      BY <1>4, <1>9, <2>1 DEF InPlan
    <2>5. a + PollBudget + 7 < a + PollBudget + 5 + 3
      BY <1>3
    <2> QED
      BY <1>2, <2>3, <2>4, <2>5
  <1>10. CASE /\ new.task = old.task /\ new.step = old.step
              /\ \/ old.pc = "calling" /\ new.pc = "polling" /\ new.polls = 0
                 \/ old.pc = "polling" /\ new.pc = "polling" /\ new.polls = old.polls + 1
                 \/ old.pc \in {"calling", "polling"} /\ new.pc = "judge"
                 \/ old.pc = "judge" /\ new.pc = "write"
    <2>1. old.step \in 1..n /\ old.step + 1 \in 1..n + 1
      BY <1>3, <1>4, <1>10 DEF InPlan
    <2>2. InPlan(new)
      BY <1>4, <1>10, <2>1 DEF InPlan
    <2>3. PICK a \in Nat : a = Ahead(old.task, old.step + 1)
      BY <1>4, <2>1
    <2>4. PICK k \in Nat, m \in Nat : k = PollBudget - old.polls /\ m = PollBudget - new.polls
      BY <1>3
    <2>5. /\ new.polls = 0 => m = PollBudget
          /\ new.polls = old.polls + 1 => k = m + 1
      BY <1>3, <2>4
    <2>6. \/ StepsToGo(old) = a + PollBudget + 7 /\ StepsToGo(new) \in {a + PollBudget + 6, a + 5}
          \/ StepsToGo(old) = a + k + 6 /\ StepsToGo(new) = a + m + 6 /\ k = m + 1
          \/ StepsToGo(old) = a + k + 6 /\ StepsToGo(new) = a + 5
          \/ StepsToGo(old) = a + 5 /\ StepsToGo(new) = a + 4
      BY <1>10, <2>3, <2>4, <2>5 DEF StepsToGo
    <2>7. /\ a + PollBudget + 6 < a + PollBudget + 7 /\ a + 5 < a + PollBudget + 7
          /\ k = m + 1 => a + m + 6 < a + k + 6
          /\ a + 5 < a + k + 6 /\ a + 4 < a + 5
      BY <1>3
    <2> QED
      BY <1>2, <2>2, <2>6, <2>7
  <1>11. CASE /\ old.pc \in {"judge", "write"} /\ new.pc = "loop"
              /\ new.task = old.task /\ new.step = old.step + 1
    <2>1. old.step \in 1..n /\ old.step + 1 \in 1..n + 1
      BY <1>3, <1>4, <1>11 DEF InPlan
    <2>2. PICK a \in Nat : a = Ahead(old.task, old.step + 1)
      BY <1>4, <2>1
    <2>3. StepsToGo(new) = a + 3 /\ StepsToGo(old) \in {a + 4, a + 5}
      BY <1>11, <2>2 DEF StepsToGo
    <2>4. InPlan(new)
      BY <1>4, <1>11, <2>1 DEF InPlan
    <2> QED
      BY <1>2, <2>3, <2>4
  <1> QED
    BY <1>2, <1>4, <1>5, <1>6, <1>7, <1>8, <1>9, <1>10, <1>11 DEF Resumes

\* A step of the connection, of the endpoints or of a dying process leaves a run where it
\* is, but for its cancel flag, or ends it.
LEMMA OthersStay ==
    ASSUME TypeOK, RunsInPlan, Next, ~ \E s \in Sessions : Run(s), NEW s \in Sessions
    PROVE  /\ InPlan(sess'[s])
           /\ sess[s].pc \in Running =>
                \/ sess'[s].pc = "offline"
                \/ sess'[s] = sess[s]
                \/ sess'[s] = [sess[s] EXCEPT !.cancel = TRUE]
  <1>1. sess[s] \in Session /\ DOMAIN sess = Sessions /\ InPlan(sess[s])
    BY DEF TypeOK, RunsInPlan
  <1>2. Offline.pc = "offline" /\ InPlan(Offline)
    BY DEF Offline, InPlan
  <1>3. CASE sess'[s] = sess[s] \/ sess'[s] = Offline
    BY <1>1, <1>2, <1>3
  <1>4. CASE \E q \in Sessions : UserMessage(q)
    <2>1. PICK q \in Sessions : UserMessage(q)
      BY <1>4
    <2>2. CASE q = s
      <3>1. sess[s].pc = "idle"
        BY <2>1, <2>2 DEF UserMessage
      <3>2. sess'[s].pc \in {"idle", "plan"} /\ sess'[s].step = 1
        BY <1>1, <2>1, <2>2 DEF UserMessage, Offline
      <3> QED
        BY <3>1, <3>2 DEF InPlan, Running
    <2>3. CASE q # s
      BY <1>1, <1>3, <2>1, <2>3 DEF UserMessage
    <2> QED
      BY <2>2, <2>3
  <1>5. CASE \E q \in Sessions, t \in Tasks : Connect(q, t)
    <2>1. PICK q \in Sessions, t \in Tasks : Connect(q, t)
      BY <1>5
    <2>2. CASE q = s
      <3>1. sess[s].pc = "offline" /\ sess'[s].pc = "idle"
        BY <1>1, <2>1, <2>2 DEF Connect, Offline
      <3> QED
        BY <3>1 DEF InPlan, Running
    <2>3. CASE q # s
      BY <1>1, <1>3, <2>1, <2>3 DEF Connect
    <2> QED
      BY <2>2, <2>3
  <1>6. CASE \E q \in Sessions : Cancel(q)
    <2>1. PICK q \in Sessions : Cancel(q)
      BY <1>6
    <2>2. CASE q = s
      <3>1. sess'[s] = [sess[s] EXCEPT !.cancel = TRUE]
        BY <1>1, <2>1, <2>2 DEF Cancel
      <3>2. sess'[s].pc = sess[s].pc /\ sess'[s].step = sess[s].step /\ sess'[s].task = sess[s].task
        BY <1>1, <3>1 DEF Session
      <3> QED
        BY <1>1, <3>1, <3>2 DEF InPlan
    <2>3. CASE q # s
      BY <1>1, <1>3, <2>1, <2>3 DEF Cancel
    <2> QED
      BY <2>2, <2>3
  <1>7. CASE \E q \in Sessions : HangUp(q) \/ Disconnect(q)
    BY <1>1, <1>3, <1>7 DEF HangUp, Disconnect
  <1>8. CASE \E t \in Tasks : Create(t) \/ NoteLocalFailure(t)
    BY <1>3, <1>8 DEF Create, NoteLocalFailure
  <1>9. CASE Crash
    BY <1>3, <1>9 DEF Crash
  <1> QED
    BY <1>4, <1>5, <1>6, <1>7, <1>8, <1>9
    DEF Next, Alive, CrashInCreate, CrashInNote, CrashInRun

\* The dispatcher's loops over the plan and over the polls end: a run takes at most
\* ASYNC_POLL_BUDGET polls and five more stretches of code for every step of its plan, and
\* four besides; every stretch leaves fewer, and what the other sessions, the endpoints
\* and the network do in between never more.
THEOREM RunsRunOut ==
    Spec => /\ [](\A s \in Sessions :
                    /\ StepsToGo(sess[s]) \in Nat
                    /\ sess[s].pc \in Running =>
                          StepsToGo(sess[s]) <= (PollBudget + 5) * Len(Plan(sess[s].task)) + 4)
            /\ [][\A s \in Sessions :
                    /\ Run(s) => StepsToGo(sess'[s]) < StepsToGo(sess[s])
                    /\ sess[s].pc \in Running =>
                          \/ StepsToGo(sess'[s]) < StepsToGo(sess[s])
                          \/ sess'[s] = sess[s]
                          \/ sess'[s] = [sess[s] EXCEPT !.cancel = TRUE]]_vars
  <1> DEFINE Bounded == \A s \in Sessions :
               /\ StepsToGo(sess[s]) \in Nat
               /\ sess[s].pc \in Running =>
                     StepsToGo(sess[s]) <= (PollBudget + 5) * Len(Plan(sess[s].task)) + 4
             Fewer == \A s \in Sessions :
               /\ Run(s) => StepsToGo(sess'[s]) < StepsToGo(sess[s])
               /\ sess[s].pc \in Running =>
                     \/ StepsToGo(sess'[s]) < StepsToGo(sess[s])
                     \/ sess'[s] = sess[s]
                     \/ sess'[s] = [sess[s] EXCEPT !.cancel = TRUE]
  <1>1. Init => RunsInPlan
    BY DEF Init, RunsInPlan, InPlan, Offline
  <1>2. TypeOK /\ RunsInPlan => Bounded
    <2> SUFFICES ASSUME TypeOK, RunsInPlan, NEW s \in Sessions
                 PROVE  /\ StepsToGo(sess[s]) \in Nat
                        /\ sess[s].pc \in Running =>
                              StepsToGo(sess[s]) <= (PollBudget + 5) * Len(Plan(sess[s].task)) + 4
      OBVIOUS
    <2>1. /\ sess[s] \in Session /\ InPlan(sess[s])
          /\ sess[s].pc # "offline" => sess[s].task \in Tasks
      BY DEF TypeOK, RunsInPlan
    <2>2. /\ StepsToGo(sess[s]) \in Nat
          /\ sess[s].pc \in Running => StepsToGo(sess[s]) <= Ahead(sess[s].task, 1) + 4
      BY <2>1, ToGoFacts
    <2>3. \A t \in Tasks : Ahead(t, 1) = (PollBudget + 5) * Len(Plan(t))
      <3>1. \A t \in Tasks : Len(Plan(t)) + 1 - 1 = Len(Plan(t))
        BY AheadFacts
      <3> QED
        BY <3>1 DEF Ahead
    <2> QED
      BY <2>1, <2>2, <2>3 DEF Running
  <1>3. TypeOK /\ TypeOK' /\ RunsInPlan /\ [Next]_vars => RunsInPlan' /\ [Fewer]_vars
    <2> SUFFICES ASSUME TypeOK, TypeOK', RunsInPlan, [Next]_vars
                 PROVE  RunsInPlan' /\ [Fewer]_vars
      OBVIOUS
    <2>1. CASE UNCHANGED vars
      BY <2>1 DEF vars, RunsInPlan
    <2>2. \A s \in Sessions : Run(s) => StepsToGo(sess'[s]) < StepsToGo(sess[s])
      BY RunResumes, ResumeProgress
    <2>3. ASSUME NEW s \in Sessions, Run(s)
          PROVE  RunsInPlan' /\ Fewer
      <3>1. /\ InPlan(sess'[s]) /\ StepsToGo(sess'[s]) < StepsToGo(sess[s])
            /\ \A q \in Sessions \ {s} : sess'[q] = sess[q]
        BY <2>3, RunResumes, ResumeProgress DEF Resumes
      <3> QED
        BY <2>2, <3>1 DEF RunsInPlan
    <2>4. CASE Next /\ ~ \E s \in Sessions : Run(s)
      <3>1. RunsInPlan'
        BY <2>4, OthersStay DEF RunsInPlan
      <3>2. ASSUME NEW s \in Sessions, sess[s].pc \in Running, sess'[s].pc = "offline"
            PROVE  StepsToGo(sess'[s]) < StepsToGo(sess[s])
        <4>1. StepsToGo(sess'[s]) = 0
          BY <3>2 DEF StepsToGo
        <4>2. /\ sess[s] \in Session /\ InPlan(sess[s]) /\ sess[s].task \in Tasks
          BY <3>2 DEF TypeOK, RunsInPlan, Running
        <4>3. StepsToGo(sess[s]) \in Nat /\ StepsToGo(sess[s]) # 0
          BY <3>2, <4>2, ToGoFacts
        <4> QED
          BY <4>1, <4>3
      <3>3. Fewer
        BY <2>2, <2>4, <3>2, OthersStay
      <3> QED
        BY <3>1, <3>3
    <2> QED
      BY <2>1, <2>3, <2>4
  <1> QED
    BY <1>1, <1>2, <1>3, TypeCorrect, PTL DEF Spec
=============================================================================
