--------------------------- MODULE MCTaskDispatch ---------------------------
(***************************************************************************)
(* Instances of TaskDispatch for TLC.                                      *)
(***************************************************************************)
EXTENDS TaskDispatch, TLC

CONSTANTS t1, t2, t3, t4, s1, s2

\* One task whose plan has a textual and a video step.
OneTask == t1 :> <<"sync", "async">>

\* Plans that run, that have no target, that cannot be routed, that are too long.
FourTasks == t1 :> <<"async">> @@ t2 :> <<>> @@ t3 :> <<"sync", "unmapped">>
             @@ t4 :> <<"sync", "sync", "sync">>

OnlyDisconnect == {"disconnect"}
BothFaults == {"disconnect", "cancel"}
=============================================================================
