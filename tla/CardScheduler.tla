----------------------------- MODULE CardScheduler -----------------------------
(***************************************************************************)
(* The workflow scheduler: processes that run workflow cards under a run   *)
(* id of their choice, WorkflowScheduler.run_card of scheduler.py over the *)
(* append-only ledger of ledger.py and the module entry of state_store.py. *)
(*                                                                         *)
(* A process may be started with the run id of a run that is finished, was *)
(* interrupted or is going on: that is what find_run is for.  Every write  *)
(* of a file is a step; a process may die between any two of them.         *)
(***************************************************************************)
EXTENDS Naturals, Sequences

CONSTANTS
    Procs,      \* processes (invocations of the command line one after the other)
    Runs,       \* run ids
    RunsOf,     \* RunsOf[p]: the run ids process p may be started with
    Cards,      \* Cards[r]: the steps of the card that run r is asked for with
    MaxCalls,   \* bound on the calls of run_card
    MaxDeaths   \* bound on the processes that die

None == "none"

\* What execute makes of a step, by kind: a note; one that waits for a human
\* (requires_confirmation, or a shell step under policy approval); a shell step
\* on the allow list; one that is not.
StepKinds == {"note", "confirm", "shell", "denied"}

\* A run is asked for again when the process that had it has ended: nothing in the code
\* keeps two processes with one run id apart, and nothing is promised to them.
OneAtATime == \A p, q \in Procs : p # q => RunsOf[p] \cap RunsOf[q] = {}

ASSUME CardAssumption ==
    /\ RunsOf \in [Procs -> SUBSET Runs]
    /\ Cards \in [Runs -> Seq(StepKinds) \ {<<>>}]
    /\ MaxCalls \in Nat /\ MaxDeaths \in Nat

Terminal == {"completed", "failed", "blocked"}

Statuses == {"pending", "running"} \cup Terminal

\* RUN_STATUS_TRANSITIONS.
Transitions ==
    {<<None, "pending">>, <<"pending", "running">>} \cup ({"running"} \X Terminal)

EventTypes == {"run_pending", "run_started", "step_started", "step_completed", "step_blocked",
               "step_failed", "security_violation", "run_finished", "run_failed"}

Event == [type : EventTypes, status : Statuses, dry : BOOLEAN]

VARIABLES
    ledger,   \* ledger[r]: the events of run r, in the order of the file
    module,   \* the module entry of the state file
    proc,     \* proc[p]: the locals of one run_card
    ran,      \* ran[r][i]: how often step i of run r was really executed
    calls,    \* calls of run_card so far
    deaths    \* deaths so far

cardVars == <<ledger, module, proc, ran, calls, deaths>>

PCs == {"idle", "find", "pending", "started", "step", "execute", "record", "end", "state"}

Outcomes == {None, "completed", "failed", "blocked", "denied"}

Proc == [pc : PCs, run : Runs \cup {None}, dry : BOOLEAN, step : Nat \ {0},
         outcome : Outcomes, status : Statuses \cup {None}]

Idle == [pc |-> "idle", run |-> None, dry |-> FALSE, step |-> 1, outcome |-> None, status |-> None]

CardInit ==
    /\ ledger = [r \in Runs |-> <<>>]
    /\ module = [run |-> None, status |-> None]
    /\ proc = [p \in Procs |-> Idle]
    /\ ran = [r \in Runs |-> [i \in DOMAIN Cards[r] |-> 0]]
    /\ calls = 0 /\ deaths = 0

-----------------------------------------------------------------------------
(* The ledger.                                                             *)

\* transition_status is applied before each write that changes the status.
Write(r, type, status, dry) ==
    ledger' = [ledger EXCEPT ![r] = Append(@, [type |-> type, status |-> status, dry |-> dry])]

\* The places of the events that ended the run, and the last of them.
EndsOf(lg) == {i \in 1..Len(lg) : lg[i].status \in Terminal}

LastEnd(lg) == CHOOSE i \in EndsOf(lg) : \A j \in EndsOf(lg) : j <= i

Started(lg) == \E i \in 1..Len(lg) : lg[i].type = "run_started"

\* Faulty variant of FindRun: an interrupted run is not found.
FindEndedRun(lg) == IF EndsOf(lg) = {} THEN None ELSE lg[LastEnd(lg)].status

\* find_run: the status of the last event that ended the run, or of its last
\* event; nothing before run_started.
FindRun(lg) ==
    IF ~Started(lg) THEN None
    ELSE lg[IF EndsOf(lg) = {} THEN Len(lg) ELSE LastEnd(lg)].status

-----------------------------------------------------------------------------
(* run_card.                                                               *)

Goto(p, pc) == proc' = [proc EXCEPT ![p].pc = pc]

\* The command line; a dry run is asked for with a flag.
CallCard(p) ==
    /\ proc[p].pc = "idle"
    /\ calls < MaxCalls
    /\ calls' = calls + 1
    /\ \E r \in RunsOf[p], dry \in BOOLEAN :
        proc' = [proc EXCEPT ![p] = [Idle EXCEPT !.pc = "find", !.run = r, !.dry = dry]]
    /\ UNCHANGED <<ledger, module, ran, deaths>>

\* Faulty variant of Find: the caller waits for a run that is going on.
FindOrWait(p) ==
    /\ proc[p].pc = "find"
    /\ LET cached == FindRun(ledger[proc[p].run]) IN
        /\ cached # "running"
        /\ proc' = IF cached = None
                   THEN [proc EXCEPT ![p].pc = "pending"]
                   ELSE [proc EXCEPT ![p] = [Idle EXCEPT !.run = proc[p].run, !.status = cached]]
    /\ UNCHANGED <<ledger, module, ran, calls, deaths>>

\* A run that is in the ledger is answered from there.
Find(p) ==
    /\ proc[p].pc = "find"
    /\ LET cached == FindRun(ledger[proc[p].run]) IN
        proc' = IF cached = None
                THEN [proc EXCEPT ![p].pc = "pending"]
                ELSE [proc EXCEPT ![p] = [Idle EXCEPT !.run = proc[p].run, !.status = cached]]
    /\ UNCHANGED <<ledger, module, ran, calls, deaths>>

WritePending(p) ==
    /\ proc[p].pc = "pending"
    /\ Write(proc[p].run, "run_pending", "pending", proc[p].dry)
    /\ Goto(p, "started")
    /\ UNCHANGED <<module, ran, calls, deaths>>

WriteStarted(p) ==
    /\ proc[p].pc = "started"
    /\ Write(proc[p].run, "run_started", "running", proc[p].dry)
    /\ Goto(p, "step")
    /\ UNCHANGED <<module, ran, calls, deaths>>

\* The head of the loop over the steps, or its else branch.
NextStep(p) ==
    /\ proc[p].pc = "step"
    /\ IF proc[p].step <= Len(Cards[proc[p].run])
       THEN /\ Write(proc[p].run, "step_started", "running", FALSE)
            /\ Goto(p, "execute")
       ELSE /\ proc' = [proc EXCEPT ![p].pc = "end", ![p].status = "completed"]
            /\ UNCHANGED ledger
    /\ UNCHANGED <<module, ran, calls, deaths>>

\* StepExecutor.execute: only a shell step outside a dry run does something that
\* can fail or time out.
Execute(p) ==
    LET kind == Cards[proc[p].run][proc[p].step] IN
    /\ proc[p].pc = "execute"
    /\ \E outcome \in Outcomes :
        /\ CASE kind = "note" -> outcome = "completed"
             [] kind = "confirm" -> outcome = "blocked"
             [] kind = "denied" -> outcome = "denied"
             [] kind = "shell" -> outcome \in {"completed", IF proc[p].dry THEN "completed" ELSE "failed"}
        /\ proc' = [proc EXCEPT ![p].pc = "record", ![p].outcome = outcome]
    /\ ran' = IF kind = "shell" /\ ~proc[p].dry
              THEN [ran EXCEPT ![proc[p].run][proc[p].step] = @ + 1] ELSE ran
    /\ UNCHANGED <<ledger, module, calls, deaths>>

\* Faulty variant of Record: the run is closed without the event of the step.
RecordLate(p) ==
    /\ proc[p].pc = "record"
    /\ IF proc[p].outcome = "completed"
       THEN /\ Write(proc[p].run, "step_completed", "running", FALSE)
            /\ proc' = [proc EXCEPT ![p].pc = "step", ![p].step = proc[p].step + 1]
       ELSE /\ UNCHANGED ledger
            /\ proc' = [proc EXCEPT ![p].pc = "state", ![p].status =
                   IF proc[p].outcome = "blocked" THEN "blocked" ELSE "failed"]
    /\ UNCHANGED <<module, ran, calls, deaths>>

\* Faulty variant of Record: a failed step does not end the loop.
RecordAndGoOn(p) ==
    /\ proc[p].pc = "record"
    /\ IF proc[p].outcome = "completed"
       THEN Write(proc[p].run, "step_completed", "running", FALSE)
       ELSE Write(proc[p].run, "step_failed", "failed", FALSE)
    /\ proc' = [proc EXCEPT ![p].pc = "step", ![p].step = proc[p].step + 1]
    /\ UNCHANGED <<module, ran, calls, deaths>>

\* The event of the step; anything but completed ends the loop.
Record(p) ==
    /\ proc[p].pc = "record"
    /\ CASE proc[p].outcome = "completed" ->
              /\ Write(proc[p].run, "step_completed", "running", FALSE)
              /\ proc' = [proc EXCEPT ![p].pc = "step", ![p].step = proc[p].step + 1]
         [] proc[p].outcome = "blocked" ->
              /\ Write(proc[p].run, "step_blocked", "blocked", FALSE)
              /\ proc' = [proc EXCEPT ![p].pc = "end", ![p].status = "blocked"]
         [] proc[p].outcome = "failed" ->
              /\ Write(proc[p].run, "step_failed", "failed", FALSE)
              /\ proc' = [proc EXCEPT ![p].pc = "end", ![p].status = "failed"]
         [] proc[p].outcome = "denied" ->
              /\ Write(proc[p].run, "security_violation", "failed", FALSE)
              /\ proc' = [proc EXCEPT ![p].pc = "end", ![p].status = "failed"]
    /\ UNCHANGED <<module, ran, calls, deaths>>

\* run_failed or run_finished; a dry run leaves the state file alone.
WriteEnd(p) ==
    /\ proc[p].pc = "end"
    /\ Write(proc[p].run, IF proc[p].status = "failed" THEN "run_failed" ELSE "run_finished",
             proc[p].status, FALSE)
    /\ Goto(p, IF proc[p].dry THEN "idle" ELSE "state")
    /\ UNCHANGED <<module, ran, calls, deaths>>

\* update_scheduler_module_state rewrites the entry, or raises StateStoreError.
UpdateState(p) ==
    /\ proc[p].pc = "state"
    /\ \/ module' = [run |-> proc[p].run, status |-> proc[p].status]
       \/ UNCHANGED module
    /\ Goto(p, "idle")
    /\ UNCHANGED <<ledger, ran, calls, deaths>>

Die(p) ==
    /\ proc[p].pc # "idle"
    /\ deaths < MaxDeaths
    /\ deaths' = deaths + 1
    /\ proc' = [proc EXCEPT ![p] = Idle]
    /\ UNCHANGED <<ledger, module, ran, calls>>

RunCard(p) ==
    \/ Find(p) \/ WritePending(p) \/ WriteStarted(p) \/ NextStep(p) \/ Execute(p)
    \/ Record(p) \/ WriteEnd(p) \/ UpdateState(p)

CardNext == \E p \in Procs : CallCard(p) \/ RunCard(p) \/ Die(p)

\* subprocess.run has a timeout and nothing else waits.
CardFairness == \A p \in Procs : WF_cardVars(RunCard(p))

CardSpec == CardInit /\ [][CardNext]_cardVars /\ CardFairness

-----------------------------------------------------------------------------
(* Properties.                                                             *)

\* A run asked for again executes no command a second time, whenever the process
\* before it died (test_scheduler_run_id_is_idempotent asks a finished run again).
CommandsRunOnce == \A r \in Runs : \A i \in DOMAIN Cards[r] : ran[r][i] <= 1

\* What run_card answers from the ledger is final once it is an end: no command of
\* the run is executed any more and the answer stays the same.
CachedEndIsFinal ==
    [][\A r \in Runs :
         FindRun(ledger[r]) \in Terminal
             => /\ FindRun(ledger'[r]) = FindRun(ledger[r])
                /\ ran'[r] = ran[r]]_cardVars

\* The module entry of the state file only speaks of a run whose end is in the ledger,
\* with the same status, and never of a dry run's.
StateFollowsLedger ==
    module.run # None =>
        LET lg == ledger[module.run] IN
        /\ FindRun(lg) = module.status
        /\ \E i \in 1..Len(lg) : lg[i].type \in {"run_finished", "run_failed"}
        /\ \E i \in 1..Len(lg) : lg[i].type = "run_started" /\ ~lg[i].dry

\* Every call of run_card returns, or its process dies.
EveryCallReturns == \A p \in Procs : proc[p].pc # "idle" ~> proc[p].pc = "idle"
=============================================================================
