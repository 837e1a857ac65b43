--------------------------- MODULE MCDispatchRuns ---------------------------
(***************************************************************************)
(* Two instances of TaskDispatch for TLC: chats that share a task under    *)
(* every fault, and plans of every kind that nothing disturbs.  They share *)
(* no state; a behaviour is about one, and the other rests.                *)
(***************************************************************************)
EXTENDS MCTaskDispatch

VARIABLES part, planDisk, planSess, planCrashes

planVars == <<planDisk, planSess, planCrashes>>

\* One connection that is never lost, to a process that does not die.
Plans == INSTANCE TaskDispatch WITH
    Tasks <- DOMAIN FourTasks, Sessions <- {s1}, Targets <- FourTasks, MaxMessages <- 1,
    PollBudget <- 2, MaxLocalFailures <- 0, MaxCrashes <- 0, Faults <- {"cancel"},
    disk <- planDisk, sess <- planSess, crashes <- planCrashes

RunsInit == part \in {"chats", "plans"} /\ Init /\ Plans!Init

RunsNext ==
    \/ part = "chats" /\ Next /\ UNCHANGED <<planVars, part>>
    \/ part = "plans" /\ Plans!Next /\ UNCHANGED <<vars, part>>

\* The fairness is that of the undisturbed runs; at rest nothing of them is enabled.
RunsSpec == RunsInit /\ [][RunsNext]_<<vars, planVars, part>> /\ Plans!Fairness

\* While no connection is lost and no process dies, replay reconstructs the state in
\* task.json at every step (ledger/writer.py:71).
PlansReplay == Plans!LedgerReplays

\* Every run of a plan ends, whatever the hub answers: every call of the hub has its
\* time-out, and the poll budget is bounded (orchestration/dispatcher.py).
PlansEnd == Plans!EveryRunEnds
=============================================================================
