---------------------------- MODULE ModelRouting ----------------------------
(***************************************************************************)
(* The rule-table router of the multi-model alliance (router.py): which    *)
(* models a task card is given to, and in which roles.                     *)
(*                                                                         *)
(* Models are numbered in the order of their model_ref.  A card and a pool *)
(* have passed the normalisation of the lists, whose refusals are those of *)
(* unknown words.                                                          *)
(***************************************************************************)
EXTENDS Integers, Sequences, FiniteSets

CONSTANTS
    Pools,  \* pools of models: sequences of [role, roles, able]
    Tasks   \* task cards: [needs, hint, disputed]

ASSUME RoutingAssumption ==
    /\ Pools \subseteq Seq([role : STRING, roles : SUBSET STRING, able : SUBSET STRING])
    /\ Tasks \subseteq [needs : SUBSET STRING, hint : {"none", "low", "medium", "high"}, disputed : BOOLEAN]

VARIABLE routing    \* the card, the pool and what route made of them

BranchCapabilities == {"coding", "code_review", "security_review", "verification", "convergence"}
HighCapabilities == {"security_review", "adversary"}
MediumCapabilities == {"coding", "code_review", "source_audit", "verification", "convergence"}

\* _ROLE_CAPABILITY_HINTS: what stands in for a role that no model has.
StandIn ==
    [planner |-> {"planning"}, researcher |-> {}, producer |-> {"planning", "writing", "research", "coding"},
     writer |-> {"writing"}, coder |-> {"coding", "file_io"}, reviewer |-> {"code_review"},
     adversary |-> {"adversary", "security_review"}, verifier |-> {"verification"},
     convergence_editor |-> {"convergence"}, human_decision |-> {"convergence"}]

\* DEFAULT_AVAILABLE_MODELS, in the order of their references.
Member(role, roles, able) == [role |-> role, roles |-> {role} \cup roles, able |-> able]
DefaultPool ==
    <<Member("producer", {"planner", "writer", "convergence_editor"}, {"planning", "writing", "convergence"}),
      Member("reviewer", {"source_auditor"}, {"code_review", "source_audit", "planning"}),
      Member("coder", {"reviewer", "adversary", "verifier"},
             {"coding", "code_review", "adversary", "verification", "security_review", "file_io"}),
      Member("verifier", {}, {"verification", "file_io"}),
      Member("human_decision", {"orchestrator"}, {"convergence"})>>

-----------------------------------------------------------------------------
(* The rules.                                                              *)

Risk(card) ==
    CASE card.disputed -> "disputed"
      [] ~card.disputed /\ card.hint # "none" -> card.hint
      [] ~card.disputed /\ card.hint = "none" ->
            IF card.needs \cap HighCapabilities # {} THEN "high"
            ELSE IF card.needs \cap MediumCapabilities # {} THEN "medium" ELSE "low"

RouteType(card, pool) ==
    CASE Risk(card) = "disputed" -> "manual_convergence"
      [] Risk(card) = "high" -> "multi_review"
      [] Risk(card) = "medium" -> "dual_review"
      [] Risk(card) = "low" ->
            IF card.needs \cap BranchCapabilities # {} \/ Len(pool) >= 2
            THEN "producer_reviewer" ELSE "single_model"

Producer(card) == IF "coding" \in card.needs THEN "coder" ELSE "producer"

Soloist(card) ==
    CASE "coding" \in card.needs -> "coder"
      [] "coding" \notin card.needs /\ "writing" \in card.needs -> "writer"
      [] card.needs \cap {"coding", "writing"} = {} ->
            IF "research" \in card.needs THEN "researcher" ELSE "planner"

\* The roles that a route fills, in this order, each with the capability it prefers.
Part(role, hint) == [role |-> role, hint |-> hint]
Parts(type, card) ==
    CASE type = "single_model" -> <<Part(Soloist(card), "none")>>
      [] type = "producer_reviewer" ->
            <<Part(Producer(card), IF "coding" \in card.needs THEN "coding" ELSE "none"),
              Part("reviewer", "code_review")>>
      [] type = "dual_review" ->
            <<Part("producer", "none"), Part("reviewer", "code_review"),
              Part("reviewer", "source_audit"), Part("convergence_editor", "convergence")>>
      [] type = "multi_review" ->
            <<Part(Producer(card), IF "coding" \in card.needs THEN "coding" ELSE "none"),
              Part("reviewer", "code_review"),
              Part("adversary", IF "security_review" \in card.needs THEN "security_review" ELSE "adversary"),
              Part("verifier", "verification"), Part("convergence_editor", "convergence")>>
      [] type = "manual_convergence" ->
            <<Part("reviewer", "code_review"), Part("adversary", "adversary"),
              Part("convergence_editor", "convergence"), Part("human_decision", "convergence")>>

\* The roles that must be given to distinct models.
Apart(type, card) ==
    CASE type = "single_model" -> <<>>
      [] type = "producer_reviewer" -> <<Producer(card), "reviewer">>
      [] type = "dual_review" -> <<"reviewer", "reviewer">>
      [] OTHER -> <<"reviewer", "adversary">>

-----------------------------------------------------------------------------
(* The choice of the models.                                               *)

Candidates(pool, role) ==
    LET named == {m \in DOMAIN pool : role \in pool[m].roles}
    IN  IF named # {} THEN named ELSE {m \in DOMAIN pool : StandIn[role] \cap pool[m].able # {}}

\* Faulty variant of Assignable: it is enough that each role has a candidate.
AssignableEach(pool, roles) == \A k \in DOMAIN roles : Candidates(pool, roles[k]) # {}

\* _require_distinct_assignment: before anything is chosen.
Assignable(pool, roles) ==
    roles = <<>> \/ \E a \in Candidates(pool, roles[1]), b \in Candidates(pool, roles[2]) : a # b

Cost(holds, weight) == IF holds THEN 0 ELSE weight

\* _score_model. Of the candidates all have the role, or none has.
Score(pool, m, part, used) ==
    Cost(m \notin used, 4) + Cost(part.hint \in pool[m].able \cup {"none"}, 2) + Cost(pool[m].role = part.role, 1)

\* _choose_model: the best score, then the first reference.
Chosen(pool, part, used) ==
    LET S(m) == Score(pool, m, part, used) IN
    CHOOSE m \in Candidates(pool, part.role) :
        \A n \in Candidates(pool, part.role) : S(m) < S(n) \/ (S(m) = S(n) /\ m <= n)

\* _build_selection: one part after the other, without looking ahead; a pair of model
\* and role that is there already is not added again.
Cast(pool, parts) ==
    LET after[k \in 0..Len(parts)] ==
            IF k = 0 THEN [selected |-> {}, used |-> {}]
            ELSE LET m == Chosen(pool, parts[k], after[k - 1].used)
                 IN  [selected |-> after[k - 1].selected \cup {<<m, parts[k].role>>},
                      used |-> after[k - 1].used \cup {m}]
    IN  after[Len(parts)].selected

CastAs(selected, roles) == {s \in selected : s[2] \in roles}

\* _require_distinct: afterwards, and not on a manual_convergence.
Distinct(type, card, selected) ==
    \/ type \in {"single_model", "manual_convergence"}
    \/ LET S == CastAs(selected, {Apart(type, card)[k] : k \in 1..2})
       IN  \A s, t \in S : s # t => s[1] # t[1]

Refused(why) == [status |-> why, type |-> "none", selected |-> {}, rejected |-> {}]
NoRoute == Refused("none")

\* route.
RouteOf(card, pool) ==
    LET type == RouteType(card, pool)
        parts == Parts(type, card)
        selected == Cast(pool, parts)
    IN  IF ~Assignable(pool, Apart(type, card)) THEN Refused("no distinct assignment")
        ELSE IF \E k \in DOMAIN parts : Candidates(pool, parts[k].role) = {} THEN Refused("no model")
        ELSE IF ~Distinct(type, card, selected) THEN Refused("not distinct")
        ELSE [status |-> "selected", type |-> type, selected |-> selected,
              rejected |-> DOMAIN pool \ {s[1] : s \in selected}]

RoutingInit == routing \in [card : Tasks, pool : Pools, route : {NoRoute}]
RoutingIdle == routing = [card |-> CHOOSE c \in Tasks : TRUE, pool |-> DefaultPool, route |-> NoRoute]

Route ==
    /\ routing.route = NoRoute
    /\ routing' = [routing EXCEPT !.route = RouteOf(routing.card, routing.pool)]

-----------------------------------------------------------------------------
(* Properties.                                                             *)

Selected == routing.route.status = "selected"

\* Whatever the pool, a card that is not for a single model is looked at by somebody who
\* did not produce the work, a disputed one is put to who decides for the humans, every
\* model is selected for a role that it has or can stand in for, and the models of the
\* package itself serve every card.
RoutesAreIndependent ==
    /\ Selected /\ routing.route.type \notin {"single_model", "manual_convergence"} =>
        \E s \in CastAs(routing.route.selected, {"reviewer", "adversary"}) :
            <<s[1], "producer">> \notin routing.route.selected /\ <<s[1], "coder">> \notin routing.route.selected
    /\ Selected /\ Risk(routing.card) = "disputed" => CastAs(routing.route.selected, {"human_decision"}) # {}
    /\ \A s \in routing.route.selected : s[1] \in Candidates(routing.pool, s[2])
    /\ routing.pool = DefaultPool => routing.route.status \in {"none", "selected"}

\* The architecture notes: a card of medium risk is given to a producer, two reviewers
\* and an editor (ARCHITECTURE.md; _build_selection asks for two distinct reviewers).
DualReviewHasTwoReviewers ==
    routing.route.type = "dual_review" => Cardinality(CastAs(routing.route.selected, {"reviewer"})) = 2
=============================================================================
