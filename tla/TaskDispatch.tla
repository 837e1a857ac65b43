---------------------------- MODULE TaskDispatch ----------------------------
(***************************************************************************)
(* Chat connections that run the Dispatcher over persisted tasks:          *)
(* platform/ws/endpoint.py and platform/orchestration/dispatcher.py on     *)
(* top of the files of TaskLedger.                                         *)
(*                                                                         *)
(* All sessions share one asyncio event loop.  Dispatcher.run is an async  *)
(* generator whose consumer awaits websocket.send_json after every yield,  *)
(* so the atomic steps below are the stretches of code from one await to   *)
(* the next; the local variable `current` (field cur) is a copy of the     *)
(* task that the other sessions' steps make stale.                         *)
(***************************************************************************)
EXTENDS TaskLedger, FiniteSets

CONSTANTS
    Tasks,              \* the task ids of one account
    Sessions,           \* chat connections
    Targets,            \* Targets[t]: modality_targets of task t, by kind of route
    MaxSteps,           \* MAX_DISPATCH_STEPS
    MaxMessages,        \* MAX_MESSAGES_PER_CONNECTION
    PollBudget,         \* status polls that fit in ASYNC_POLL_BUDGET_SECONDS
    MaxLocalFailures,   \* bound on elicitation failures noted in one ledger
    MaxCrashes,         \* bound on the deaths of the server process
    Faults              \* the faults the environment may inject

Kinds == {"sync", "async", "unmapped"}

ASSUME DispatchAssumption ==
    /\ Targets \in [Tasks -> Seq(Kinds)]
    /\ MaxSteps \in Nat /\ MaxMessages \in Nat /\ PollBudget \in Nat
    /\ MaxLocalFailures \in Nat /\ MaxCrashes \in Nat
    /\ Faults \subseteq {"disconnect", "cancel"}

VARIABLES
    disk,   \* disk[t]: the files of task t
    sess,   \* sess[s]: the state of connection s and of its dispatcher run
    crashes \* the deaths so far

vars == <<disk, sess, crashes>>

Running == {"plan", "loop", "calling", "polling", "judge", "write", "verdict", "deliver"}

Answers == {"none", "ok", "blocked"}

Session == [pc : Running \cup {"offline", "idle"}, task : Tasks \cup {None},
            cur : States \cup {None}, step : Nat, polls : 0..PollBudget,
            answer : Answers, cancel : BOOLEAN, count : 0..MaxMessages]

Offline == [pc |-> "offline", task |-> None, cur |-> None, step |-> 0, polls |-> 0,
            answer |-> "none", cancel |-> FALSE, count |-> 0]

Init ==
    /\ disk = [t \in Tasks |-> EmptyDisk]
    /\ sess = [s \in Sessions |-> Offline]
    /\ crashes = 0

-----------------------------------------------------------------------------
(* The plan of a run.                                                      *)

\* _build_plan: one step per modality target, text when there is none.
Plan(t) == IF Targets[t] = <<>> THEN <<"sync">> ELSE Targets[t]

\* No blocked modality and at most max_steps steps.
Dispatchable(t) ==
    /\ Len(Plan(t)) <= MaxSteps
    /\ \A i \in 1..Len(Plan(t)) : Plan(t)[i] # "unmapped"

Files(s) == disk[sess[s].task]

Kind(s) == Plan(sess[s].task)[sess[s].step]

StepsLeft(s) == sess[s].step <= Len(Plan(sess[s].task))

WritesNow(s) ==
    \/ sess[s].pc = "write"
    \/ sess[s].pc = "judge" /\ sess[s].answer = "ok" /\ sess[s].cur = "producing"

\* The lifecycle state the next stretch of the run asks the store for.
Target(s) ==
    CASE sess[s].pc = "plan" /\ Dispatchable(sess[s].task) -> "dispatching"
      [] sess[s].pc = "judge" /\ sess[s].answer = "ok" /\ sess[s].cur = "dispatching" -> "producing"
      [] sess[s].pc = "loop" /\ ~StepsLeft(s) -> "cross_validating"
      [] sess[s].pc = "deliver" -> "delivered"
      [] OTHER -> None

\* The reasons to call _block.
MustBlock(s) ==
    \/ sess[s].pc = "plan" /\ ~Dispatchable(sess[s].task)
    \/ sess[s].pc = "loop" /\ StepsLeft(s) /\ sess[s].cancel
    \/ sess[s].pc = "judge" /\ sess[s].answer = "blocked"

\* The defensive handler of run: one more transition, to error, unless current
\* is terminal; the store's refusal of it is swallowed.
AfterException(s, d) ==
    IF sess[s].cur \in Terminal THEN d ELSE UpdateTaskState(d, "error")

\* Faulty variant of AfterBlock: task.json without its event.
UnledgeredBlock(d) == IF d.task \in Terminal THEN d ELSE WriteTask(d, "blocked")

\* _block reloads the task before it transitions.
AfterBlock(d) == IF d.task \in Terminal THEN d ELSE UpdateTaskState(d, "blocked")

SetFiles(s, d) == disk' = [disk EXCEPT ![sess[s].task] = d]

EndRun(s) == sess' = [sess EXCEPT ![s] = [@ EXCEPT !.pc = "idle", !.cur = None]]

-----------------------------------------------------------------------------
(* HTTP endpoints that write the same files.                               *)

\* POST /tasks.
Create(t) ==
    /\ disk[t].task = Absent
    /\ disk' = [disk EXCEPT ![t] = CreateTask(@)]
    /\ UNCHANGED sess

\* A failed local elicitation leaves an ai_call event of its own (step 0).
NoteLocalFailure(t) ==
    /\ disk[t].task # Absent
    /\ Cardinality(RowsOf(disk[t].ledger, "ai_call", 0)) < MaxLocalFailures
    /\ disk' = [disk EXCEPT ![t] = AppendEvent(@, AiCallRow(0))]
    /\ UNCHANGED sess

-----------------------------------------------------------------------------
(* The connection.                                                         *)

\* An authenticated connection to an existing task.
Connect(s, t) ==
    /\ sess[s].pc = "offline"
    /\ disk[t].task # Absent
    /\ sess' = [sess EXCEPT ![s] = [Offline EXCEPT !.pc = "idle", !.task = t]]
    /\ UNCHANGED disk

\* A user message loads the task and runs the dispatcher up to its first yield.
UserMessage(s) ==
    LET st == Files(s).task
        open == IF st = "created" THEN "planning" ELSE st
    IN  /\ sess[s].pc = "idle"
        /\ sess[s].count < MaxMessages
        /\ sess' = [sess EXCEPT ![s] =
              [Offline EXCEPT !.task = sess[s].task, !.count = sess[s].count + 1,
                              !.pc = IF st \in Terminal THEN "idle" ELSE "plan",
                              !.cur = IF st \in Terminal THEN None ELSE open,
                              !.step = 1]]
        /\ IF st = "created" THEN SetFiles(s, UpdateTaskState(Files(s), "planning"))
                             ELSE UNCHANGED disk

\* Between messages: the client leaves, or the message or rate limit, or a
\* protocol error, closes the connection.
HangUp(s) ==
    /\ sess[s].pc = "idle"
    /\ sess' = [sess EXCEPT ![s] = Offline]
    /\ UNCHANGED disk

\* During a run: sending the next event fails, and the generator is dropped
\* where it stands.  The endpoint sets cancel_event, but nothing runs to see it.
Disconnect(s) ==
    /\ "disconnect" \in Faults
    /\ sess[s].pc \in Running
    /\ sess' = [sess EXCEPT ![s] = Offline]
    /\ UNCHANGED disk

\* The owner of cancel_event sets it while the run is suspended: the environment's step,
\* as nothing else under src/ keeps the event of a run that goes on.
Cancel(s) ==
    /\ "cancel" \in Faults
    /\ sess[s].pc \in Running /\ ~sess[s].cancel
    /\ sess' = [sess EXCEPT ![s] = [@ EXCEPT !.cancel = TRUE]]
    /\ UNCHANGED disk

-----------------------------------------------------------------------------
(* The dispatcher run.                                                     *)

After(p) == CASE p = "plan" -> "loop"
              [] p = "judge" -> "write"
              [] p = "loop" -> "verdict"
              [] p = "deliver" -> "idle"

\* Faulty variant of Advance: the store trusts the stale copy.
BlindAdvance(s) ==
    /\ Target(s) # None
    /\ disk' = [disk EXCEPT ![sess[s].task] =
                   AppendEvent(WriteTask(@, Target(s)), DispatchRow(sess[s].cur, Target(s)))]
    /\ sess' = [sess EXCEPT ![s] = [@ EXCEPT !.pc = After(sess[s].pc), !.cur = Target(s)]]

\* The store accepts the transition: the run goes on.
Advance(s) ==
    /\ Target(s) # None
    /\ Legal(Files(s).task, Target(s))
    /\ SetFiles(s, UpdateTaskState(Files(s), Target(s)))
    /\ sess' = [sess EXCEPT ![s] = [@ EXCEPT !.pc = After(sess[s].pc), !.cur = Target(s)]]

\* The store raises IllegalTaskTransition: the handler ends the run.
Rejected(s) ==
    /\ Target(s) # None
    /\ ~Legal(Files(s).task, Target(s))
    /\ SetFiles(s, AfterException(s, UpdateTaskState(Files(s), Target(s))))
    /\ EndRun(s)

Block(s) ==
    /\ MustBlock(s)
    /\ SetFiles(s, AfterBlock(Files(s)))
    /\ EndRun(s)

\* The next plan step goes to the hub in a worker thread.
CallHub(s) ==
    /\ sess[s].pc = "loop" /\ StepsLeft(s) /\ ~sess[s].cancel
    /\ sess' = [sess EXCEPT ![s] = [@ EXCEPT !.pc = "calling"]]
    /\ UNCHANGED disk

\* An async route answered running: poll its status.
HubStarts(s) ==
    /\ sess[s].pc = "calling" /\ Kind(s) = "async"
    /\ sess' = [sess EXCEPT ![s] = [@ EXCEPT !.pc = "polling", !.polls = 0]]
    /\ UNCHANGED disk

\* Faulty variant of PollAgain: the deadline starts anew with each timeout.
PollForever(s) ==
    /\ sess[s].pc = "polling" /\ ~sess[s].cancel
    /\ sess' = [sess EXCEPT ![s] = [@ EXCEPT !.polls = (@ + 1) % (PollBudget + 1)]]
    /\ UNCHANGED disk

\* A poll answers running or queued, or times out with budget left.
PollAgain(s) ==
    /\ sess[s].pc = "polling" /\ ~sess[s].cancel
    /\ sess[s].polls < PollBudget
    /\ sess' = [sess EXCEPT ![s] = [@ EXCEPT !.polls = sess[s].polls + 1]]
    /\ UNCHANGED disk

\* Only a poll inside the budget can deliver; a sync call answers at once, an
\* async start can only be refused.
MayAnswer(s, a) ==
    \/ sess[s].pc = "calling" /\ (Kind(s) = "async" => a = "blocked")
    \/ sess[s].pc = "polling" /\ (sess[s].polls = PollBudget => a = "blocked")

\* The answer, a timeout or a cancelled poll included, is noted as an ai_call.
HubAnswers(s) ==
    \E a \in {"ok", "blocked"} :
        /\ MayAnswer(s, a)
        /\ SetFiles(s, AppendEvent(Files(s), AiCallRow(sess[s].step)))
        /\ sess' = [sess EXCEPT ![s] = [@ EXCEPT !.pc = "judge", !.answer = a]]

\* The call, or the artifact store before it has written, raises instead.
Raises(s) ==
    /\ sess[s].pc \in {"calling", "polling"} \/ WritesNow(s)
    /\ SetFiles(s, AfterException(s, Files(s)))
    /\ EndRun(s)

\* Faulty variant of WriteArtifact: the loop does not advance.
StuckArtifact(s) ==
    /\ WritesNow(s)
    /\ SetFiles(s, Persist(Files(s), sess[s].step))
    /\ sess' = [sess EXCEPT ![s] = [@ EXCEPT !.pc = "loop", !.answer = "none"]]

WriteArtifact(s) ==
    /\ WritesNow(s)
    /\ SetFiles(s, Persist(Files(s), sess[s].step))
    /\ sess' = [sess EXCEPT ![s] =
                  [@ EXCEPT !.pc = "loop", !.step = sess[s].step + 1, !.answer = "none"]]

\* Faulty variant of AppendVerdict.
SkipVerdict(s) ==
    /\ sess[s].pc = "verdict"
    /\ sess' = [sess EXCEPT ![s] = [@ EXCEPT !.pc = "deliver"]]
    /\ UNCHANGED disk

\* The verdict is always "passed".
AppendVerdict(s) ==
    /\ sess[s].pc = "verdict"
    /\ SetFiles(s, AppendEvent(Files(s), VerdictRow))
    /\ sess' = [sess EXCEPT ![s] = [@ EXCEPT !.pc = "deliver"]]

Run(s) ==
    \/ Advance(s) \/ Rejected(s) \/ Block(s) \/ CallHub(s) \/ HubStarts(s) \/ PollAgain(s)
    \/ HubAnswers(s) \/ Raises(s) \/ WriteArtifact(s) \/ AppendVerdict(s)

-----------------------------------------------------------------------------
(* The server process dies between two steps or inside one; what it wrote  *)
(* stays, every connection is gone.                                        *)

\* UpdateTaskState followed, when it raises, by the handler's transition.
TornAttempt(d, to) ==
    TornUpdate(d, to) \cup
    IF Legal(d.task, to) THEN {} ELSE TornUpdate(UpdateTaskState(d, to), "error")

Crash ==
    /\ crashes < MaxCrashes
    /\ crashes' = crashes + 1
    /\ sess' = [s \in Sessions |-> Offline]

TornStep(s) ==
    (IF sess[s].pc = "idle" /\ Files(s).task = "created"
     THEN TornUpdate(Files(s), "planning") ELSE {})
    \cup (IF Target(s) # None THEN TornAttempt(Files(s), Target(s)) ELSE {})
    \cup (IF MustBlock(s) /\ Files(s).task \notin Terminal
          THEN TornUpdate(Files(s), "blocked") ELSE {})
    \cup (IF sess[s].pc \in {"calling", "polling"}
          THEN TornAppend(Files(s), AiCallRow(sess[s].step)) \cup TornUpdate(Files(s), "error")
          ELSE {})
    \cup (IF WritesNow(s)
          THEN TornPersist(Files(s), sess[s].step) \cup TornUpdate(Files(s), "error")
          ELSE {})
    \cup (IF sess[s].pc = "verdict" THEN TornAppend(Files(s), VerdictRow) ELSE {})

CrashInCreate(t) ==
    /\ Crash
    /\ disk[t].task = Absent
    /\ \E d \in TornCreate(disk[t]) : disk' = [disk EXCEPT ![t] = d]

CrashInNote(t) ==
    /\ Crash
    /\ disk[t].task # Absent
    /\ Cardinality(RowsOf(disk[t].ledger, "ai_call", 0)) < MaxLocalFailures
    /\ \E d \in TornAppend(disk[t], AiCallRow(0)) : disk' = [disk EXCEPT ![t] = d]

CrashInRun(s) ==
    /\ Crash
    /\ sess[s].pc # "offline"
    /\ \E d \in TornStep(s) \cup {Files(s)} : SetFiles(s, d)

-----------------------------------------------------------------------------
Alive ==
    \/ \E t \in Tasks : Create(t) \/ NoteLocalFailure(t)
    \/ \E s \in Sessions, t \in Tasks : Connect(s, t)
    \/ \E s \in Sessions : UserMessage(s) \/ HangUp(s) \/ Disconnect(s) \/ Cancel(s) \/ Run(s)

Next ==
    \/ Alive /\ UNCHANGED crashes
    \/ \E t \in Tasks : CrashInCreate(t) \/ CrashInNote(t)
    \/ \E s \in Sessions : CrashInRun(s)

Spec == Init /\ [][Next]_vars

\* The loop keeps resuming a run whose answers and sends complete: wait_for and
\* the poll budget bound every hub call.
Fairness == \A s \in Sessions : WF_vars(Run(s) /\ UNCHANGED crashes)

FairSpec == Spec /\ Fairness

-----------------------------------------------------------------------------
(* Properties.                                                             *)

TypeOK ==
    /\ disk \in [Tasks -> Disk]
    /\ sess \in [Sessions -> Session]
    /\ crashes \in 0..MaxCrashes
    /\ \A s \in Sessions : sess[s].pc # "offline" => sess[s].task \in Tasks

\* Past the dispatching transition: the part of a run that calls the hub,
\* writes artifacts and delivers.
Working(s) == sess[s].pc \in Running \ {"plan"}

\* The store's validation is the only lock between two chats on one task: the
\* session whose planning -> dispatching transition was accepted is alone in
\* the part of run that spends hub calls, whatever stale copy others hold.
SingleDispatcher ==
    \A s, q \in Sessions :
        Working(s) /\ Working(q) /\ sess[s].task = sess[q].task => s = q

\* No plan step of a task is ever sent to the hub and answered twice, over any
\* number of messages, reconnections and restarts.
EachStepCalledOnce ==
    \A t \in Tasks : \A j, k \in DOMAIN disk[t].ledger :
        /\ disk[t].ledger[j].type = "ai_call" /\ disk[t].ledger[k].type = "ai_call"
        /\ disk[t].ledger[j].step = disk[t].ledger[k].step
        /\ disk[t].ledger[j].step # 0
        => j = k

\* A task reads delivered only when every step of its plan has its artifact
\* file and artifact_produced event and the cross-validation verdict is there.
DeliveredIsComplete ==
    \A t \in Tasks :
        disk[t].task = "delivered" =>
            /\ \A i \in 1..Len(Plan(t)) :
                  i \in disk[t].files /\ RowsOf(disk[t].ledger, "artifact_produced", i) # {}
            /\ RowsOf(disk[t].ledger, "cross_validation", 0) # {}

\* The ledger never tells of more than the other files hold.  An artifact_produced
\* event names a file that is there; and a ledger that replays gives the state of
\* task.json, one the task has gone through (dead processes lost the rows in
\* between), or the error an illegal attempt left in it: above all it never replays
\* to delivered or blocked unless the task is.
LedgerIsBacked ==
    \A t \in Tasks :
        /\ \A k \in DOMAIN disk[t].ledger :
             disk[t].ledger[k].type = "artifact_produced" =>
                 disk[t].ledger[k].step \in disk[t].files
        /\ Replayable(disk[t].ledger) =>
             LET st == ReplayState(disk[t].ledger)
             IN  st = "error" \/ (disk[t].task # Absent /\ Reaches(st, disk[t].task))

\* replay reconstructs the task's state.
LedgerReplays ==
    \A t \in Tasks :
        disk[t].task # Absent =>
            Replayable(disk[t].ledger) /\ ReplayState(disk[t].ledger) = disk[t].task

\* A run that ends by itself leaves its task terminal: blocked, in error or
\* delivered, also when the copy it worked from was stale.
RunsEndTerminal ==
    [][\A s \in Sessions :
          sess[s].pc \in Running /\ sess'[s].pc = "idle" =>
              disk'[sess[s].task].task \in Terminal]_vars

\* The lifecycle state of every task, as its task.json shows it.
TaskState == [t \in Tasks |-> disk[t].task]

Lifecycles == INSTANCE TaskLifecycle WITH state <- TaskState

\* Whatever the sessions do, task.json goes through the lifecycle and no other
\* way: terminal states are final even for a run that goes on past them.
FollowsLifecycle == Lifecycles!Spec

\* Every run ends, by itself or because its connection or process is gone.
EveryRunEnds == \A s \in Sessions : sess[s].pc \in Running ~> sess[s].pc \in {"idle", "offline"}
=============================================================================
