----------------------------- MODULE MCToolCalls -----------------------------
(***************************************************************************)
(* Instances of CardScheduler and AccountPool for TLC: what the two tool   *)
(* packages owe to the one who calls them.  They share no state; a         *)
(* behaviour is about one, and the other rests.                            *)
(***************************************************************************)
EXTENDS CardScheduler, MCAccountPool

CONSTANTS p1, p2, r1, r2

\* A human gate between commands; a command that is refused.
Gates == r1 :> <<"shell", "note", "confirm", "shell">> @@ r2 :> <<"shell", "denied">>

OwnRuns == p1 :> {r1} @@ p2 :> {r2}

VARIABLE part

ToolInit == part \in {"cards", "pool"} /\ CardInit /\ Init

ToolNext ==
    \/ part = "cards" /\ CardNext /\ UNCHANGED <<vars, part>>
    \/ part = "pool" /\ Next /\ UNCHANGED <<cardVars, part>>

\* Each part has the fairness it has alone; at rest nothing of it is enabled.
ToolSpec == ToolInit /\ [][ToolNext]_<<cardVars, vars, part>> /\ CardFairness /\ CallFairness
=============================================================================
