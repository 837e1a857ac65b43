----------------------------- MODULE MCAlliance -----------------------------
(***************************************************************************)
(* Instances of ModelRouting, ProviderLoop, DebateLoop and LessonLoop for  *)
(* TLC: from a task card to the models, from their answers to a debate and *)
(* its convergence, from the runs of a project to its lessons.  The parts  *)
(* hand over records that the next one takes as its input; their states    *)
(* are their own, and a behaviour is about one of them.                    *)
(***************************************************************************)
EXTENDS ModelRouting, ProviderLoop, DebateLoop, LessonLoop

CONSTANTS server, cli, left, right, o1, o2

OneCli == {cli}
TwoLoopers == {left, right}
Plans == <<"codex", "gemini", "claude">>
TwoObjections == {o1, o2}
Alike == Permutations(TwoObjections) \cup Permutations(TwoLoopers)

\* Models that have one of the roles or several, or only what stands in for one.
Kinds ==
    {Member("producer", {}, {"writing"}), Member("producer", {"reviewer", "convergence_editor"}, {"planning"}),
     Member("reviewer", {}, {"code_review"}), Member("reviewer", {"adversary", "verifier"}, {"source_audit", "convergence"}),
     Member("coder", {"reviewer"}, {"coding", "code_review"}), Member("adversary", {}, {"security_review", "verification"}),
     Member("human_decision", {}, {"convergence"})}
SomePools == {DefaultPool} \cup {<<a, b, c>> : a, b, c \in Kinds} \cup {<<a, b>> : a, b \in Kinds} \cup {<<a>> : a \in Kinds}
Needs == {{"planning"}, {"writing"}, {"research"}, {"coding"}, {"security_review"}, {"code_review", "source_audit"},
          {"writing", "coding", "adversary"}}
Cards ==
    [needs : Needs, hint : {"none", "low", "medium", "high"}, disputed : {FALSE}]
        \cup [needs : Needs, hint : {"none"}, disputed : {TRUE}]

VARIABLE part

RestVars == <<routing, loopVars, debateVars, vars>>

AllianceInit ==
    /\ part \in {"routing", "loop", "debate", "lessons"}
    /\ IF part = "routing" THEN RoutingInit ELSE RoutingIdle
    /\ LoopInit /\ DebateInit /\ Init

AllianceNext ==
    \/ part = "routing" /\ Route /\ UNCHANGED <<loopVars, debateVars, vars, part>>
    \/ part = "loop" /\ LoopNext /\ UNCHANGED <<routing, debateVars, vars, part>>
    \/ part = "debate" /\ DebateNext /\ UNCHANGED <<routing, loopVars, vars, part>>
    \/ part = "lessons" /\ Next /\ UNCHANGED <<routing, loopVars, debateVars, part>>

AllianceSpec == AllianceInit /\ [][AllianceNext]_<<RestVars, part>>

RoutingSpec == AllianceInit /\ part = "routing" /\ [][AllianceNext]_<<RestVars, part>>
=============================================================================
