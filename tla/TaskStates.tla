----------------------------- MODULE TaskStates -----------------------------
(***************************************************************************)
(* The task lifecycle of the platform: the states of TaskState and the     *)
(* table TASK_STATE_TRANSITIONS of platform/tasks/models.py.               *)
(***************************************************************************)
EXTENDS Naturals

None == "none"          \* no state: an event without to_state or from_state
Absent == "absent"      \* no task.json on disk

States == {"created", "planning", "dispatching", "producing",
           "cross_validating", "delivered", "blocked", "error"}

Terminal == {"delivered", "blocked", "error"}

\* The working states in the order a run goes through them.
Forward == { <<"created", "planning">>, <<"planning", "dispatching">>,
             <<"dispatching", "producing">>, <<"producing", "cross_validating">>,
             <<"cross_validating", "delivered">> }

Transitions == Forward \cup ((States \ Terminal) \X {"blocked", "error"})

Legal(from, to) == <<from, to>> \in Transitions

Rank == [created |-> 1, planning |-> 2, dispatching |-> 3, producing |-> 4,
         cross_validating |-> 5, delivered |-> 6, blocked |-> 6, error |-> 6]

\* A task in state from can get to state to, in any number of transitions.
Reaches(from, to) == from = to \/ Rank[from] < Rank[to]
=============================================================================
