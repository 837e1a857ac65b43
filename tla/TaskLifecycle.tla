---------------------------- MODULE TaskLifecycle ----------------------------
(***************************************************************************)
(* What task.json promises its readers, whoever writes it: a task appears  *)
(* as created, moves along TASK_STATE_TRANSITIONS one edge at a time and   *)
(* never leaves a terminal state.                                          *)
(***************************************************************************)
EXTENDS TaskStates

CONSTANT Tasks

VARIABLE state

Init == state = [t \in Tasks |-> Absent]

Create(t) ==
    /\ state[t] = Absent
    /\ state' = [state EXCEPT ![t] = "created"]

Advance(t) ==
    \E to \in States :
        /\ Legal(state[t], to)
        /\ state' = [state EXCEPT ![t] = to]

Next == \E t \in Tasks : Create(t) \/ Advance(t)

Spec == Init /\ [][Next]_state
=============================================================================
