------------------------------ MODULE DebateLoop ------------------------------
(***************************************************************************)
(* The debate loop of the multi-model alliance: loop.py selects rounds     *)
(* with a stopping rule of its own, debate_runner.py makes the debate out  *)
(* of the selected rounds, convergence.py the decision, and validator.py   *)
(* checks both.  Four places decide anew what is still open.               *)
(*                                                                         *)
(* The rounds come from provider artifacts (every field required) or from  *)
(* manual ones, whose objections may leave fields out.  The route is fixed *)
(* and summaries, verdicts and evidence references are left out.           *)
(***************************************************************************)
EXTENDS Integers, SequencesExt

CONSTANTS
    MaxRounds, MinRounds,   \* DEFAULT_MAX_ROUNDS, DEFAULT_MIN_ROUNDS
    Ids,                    \* the objection ids that artifacts use
    Severities, Statuses,   \* what artifacts say of an objection, "absent" for a field left out
    MaxInput,               \* bound on the rounds of the artifacts
    MaxObjections           \* bound on the objections of the artifacts

Unsettled == {"raised", "unresolved", "needs_user_decision"}
Settled == {"accepted", "rejected"}

\* medium is treated as low is.
ASSUME DebateAssumption ==
    /\ {MaxRounds, MinRounds} \subseteq Nat \ {0} /\ {MaxInput, MaxObjections} \subseteq Nat
    /\ Severities \subseteq {"critical", "high", "low", "absent"}
    /\ Statuses \subseteq Unsettled \cup Settled \cup {"absent"}

\* An objection is named by its artifact, by the guard against external actions,
\* or after its place in the debate.
None == <<"none">>
Named == {<<"named", i>> : i \in Ids}

Objection == [id : Named \cup {None}, severity : Severities, status : Statuses, addresses : Named \cup {None}]

VARIABLES
    rounds,       \* the rounds of the input: objections, and whether an external action is suggested
    stage,        \* "input", "selected", "debated", "converged", or an error: "refused", "failed"
    reason,       \* stopped_reason
    debate,       \* the debate: objections in order, those unresolved, and its status
    convergence   \* the sections of the convergence and its decision

debateVars == <<rounds, stage, reason, debate, convergence>>

NoDebate == [objections |-> <<>>, unresolved |-> {}, status |-> "converged"]

NoConvergence == [accepted |-> {}, rejected |-> {}, carried |-> {}, decisions |-> {}, decision |-> "none"]

DebateInit ==
    /\ rounds = <<>> /\ stage = "input" /\ reason = "none"
    /\ debate = NoDebate /\ convergence = NoConvergence

\* The objections of some rounds in their order.
Objections(rs) == FlattenSeq([i \in DOMAIN rs |-> rs[i].objections])

-----------------------------------------------------------------------------
(* The input: the rounds of the artifacts.                                 *)

AddRound ==
    /\ stage = "input" /\ Len(rounds) < MaxInput
    /\ \E external \in BOOLEAN :
        rounds' = Append(rounds, [objections |-> <<>>, external |-> external])
    /\ UNCHANGED <<stage, reason, debate, convergence>>

AddObjection ==
    /\ stage = "input" /\ rounds # <<>> /\ Len(Objections(rounds)) < MaxObjections
    /\ \E o \in Objection :
        rounds' = [rounds EXCEPT ![Len(rounds)].objections = Append(@, o)]
    /\ UNCHANGED <<stage, reason, debate, convergence>>

-----------------------------------------------------------------------------
(* loop.py                                                                 *)

\* _inject_external_action_blocks.
Guarded(rs) ==
    [i \in DOMAIN rs |->
        IF ~rs[i].external THEN rs[i]
        ELSE [rs[i] EXCEPT !.objections = Append(@,
                [id |-> <<"external", i>>, severity |-> "critical", status |-> "needs_user_decision",
                 addresses |-> None])]]

\* _unresolved_high_or_critical: raised by one named objection and not settled by
\* a later one.
Unresolved(rs) ==
    LET os == Objections(rs)
        Blocks(k) == os[k].severity \in {"critical", "high"} /\ os[k].status \in Unsettled
        Settles(k, id) == os[k].addresses = id /\ os[k].status \in Settled
    IN  {os[k].id : k \in {n \in DOMAIN os :
            /\ os[n].id # None /\ Blocks(n)
            /\ ~\E m \in n + 1 .. Len(os) : os[m].id # None /\ Settles(m, os[n].id)}}

Prefix(rs, n) == SubSeq(rs, 1, n)

\* _select_rounds_with_policy: how many rounds are used, and why it stops there.
Selection(rs) ==
    LET limit == IF Len(rs) < MaxRounds THEN Len(rs) ELSE MaxRounds
        early == {n \in MinRounds..limit : Unresolved(Prefix(rs, n)) = {}}
        used  == IF early = {} THEN limit ELSE CHOOSE n \in early : \A m \in early : n <= m
    IN  [rounds |-> Prefix(rs, used),
         reason |-> IF Len(rs) > MaxRounds /\ used = MaxRounds THEN "round_cap_5"
                    ELSE IF early # {} THEN "early_no_unresolved_high_critical"
                    ELSE IF Unresolved(Prefix(rs, used)) # {} THEN "input_exhausted_with_unresolved_blockers"
                    ELSE "input_exhausted"]

Select ==
    /\ stage = "input"
    /\ LET selection == Selection(Guarded(rounds)) IN
        rounds' = selection.rounds /\ reason' = selection.reason
    /\ stage' = "selected"
    /\ UNCHANGED <<debate, convergence>>

-----------------------------------------------------------------------------
(* debate_runner.py                                                        *)

\* _normalize_objections: what is left out gets a default, an id its place.
Normalized(rs) ==
    LET Or(value, default) == IF value = "absent" THEN default ELSE value
    IN  [i \in DOMAIN rs |-> [rs[i] EXCEPT !.objections =
            [j \in DOMAIN @ |-> [id |-> IF @[j].id = None THEN <<"place", i, j>> ELSE @[j].id,
                                 severity |-> Or(@[j].severity, "low"),
                                 status |-> Or(@[j].status, "raised"),
                                 addresses |-> @[j].addresses]]]]

\* The objections that others accept or reject.
Addressed(os) == {os[k].addresses : k \in {n \in DOMAIN os : os[n].status \in Settled}}

\* collect_debate_objections: ids differ, and an objection addresses an earlier one
\* that is open, in terms that answer it.
Valid(os) ==
    \A k \in DOMAIN os :
        /\ \A m \in 1 .. k - 1 : os[m].id # os[k].id
        /\ os[k].addresses # None =>
            /\ \E m \in 1 .. k - 1 : os[m].id = os[k].addresses /\ os[m].status \in Unsettled
            /\ os[k].status \in Settled \cup {"needs_user_decision"}

\* run_debate; without rounds there is a placeholder with no objection.
RunDebate ==
    /\ stage = "selected"
    /\ LET os == Objections(Normalized(rounds))
           open == {n \in DOMAIN os : os[n].status \in Unsettled /\ os[n].id \notin Addressed(os)}
       IN  IF ~Valid(os) THEN stage' = "refused" /\ UNCHANGED debate
           ELSE /\ stage' = "debated"
                /\ debate' = [objections |-> os, unresolved |-> {os[n].id : n \in open},
                              status |-> CASE open = {} -> "converged"
                                           [] \E n \in open : os[n].status = "needs_user_decision"
                                                -> "waiting_for_user"
                                           [] OTHER -> "running"]
    /\ UNCHANGED <<rounds, reason, convergence>>

-----------------------------------------------------------------------------
(* convergence.py                                                          *)

\* Faulty variant of CarriedTo: by severity alone.
CarriedBySeverity(o) ==
    IF o.severity = "critical" THEN "user_decision"
    ELSE IF o.severity = "high" THEN "next_action" ELSE "more_evidence"

\* _carried_to.
CarriedTo(o) ==
    IF o.status = "needs_user_decision" \/ o.severity = "critical" THEN "user_decision"
    ELSE IF o.severity = "high" THEN "next_action" ELSE "more_evidence"

\* The sections; all decisions it asks for are blocking.
Converged(d) ==
    LET all == ToSet(d.objections)
        With(status) == {o.id : o \in {x \in all : x.status = status}}
        carried == {<<o.id, CarriedTo(o)>> : o \in {x \in all : x.status \in Unsettled /\ x.id \in d.unresolved}}
        decisions == {c[1] : c \in {x \in carried : x[2] = "user_decision"}}
    IN  [accepted |-> With("accepted"), rejected |-> With("rejected"),
         carried |-> carried, decisions |-> decisions,
         decision |-> IF decisions # {} THEN "needs_user_decision"
                      ELSE IF carried # {} THEN "needs_more_evidence" ELSE "accepted"]

\* validate_convergence_record.
Checks(c, d) ==
    LET all == ToSet(d.objections)
        ids == {x[1] : x \in c.carried}
        critical == {o.id : o \in {x \in all : x.severity = "critical"}}
    IN  /\ d.unresolved \subseteq ids
        /\ critical \subseteq c.accepted \cup c.rejected \cup ids \cup Addressed(d.objections)
        /\ c.decision = "accepted" => critical \cap ids = {}
        /\ \A x \in c.carried : x[1] \in critical =>
            IF x[2] = "user_decision" THEN x[1] \in c.decisions ELSE c.decision = "needs_more_evidence"

Converge ==
    /\ stage = "debated"
    /\ LET c == Converged(debate) IN
        IF Checks(c, debate)
        THEN convergence' = c /\ stage' = "converged"
        ELSE stage' = "failed" /\ UNCHANGED convergence
    /\ UNCHANGED <<rounds, reason, debate>>

DebateNext == AddRound \/ AddObjection \/ Select \/ RunDebate \/ Converge


-----------------------------------------------------------------------------
(* Properties.                                                             *)

\* The parser of provider artifacts requires the fields.
Specified(o) == o.id # None /\ o.severity # "absent" /\ o.status # "absent"

Serious(d) ==
    {k \in DOMAIN d.objections : d.objections[k].severity \in {"critical", "high"}
                                  /\ d.objections[k].id \in d.unresolved}

\* The reason the loop reports agrees with the debate it reports it with, though the
\* one is found before and without the other: it stopped early, or for want of rounds,
\* only when the debate has no unresolved high or critical objection, and blames
\* blockers only when it has.
\* For artifacts that leave no field out.
ReasonIsTrue ==
    stage \in {"debated", "converged"} /\ (\A o \in ToSet(Objections(rounds)) : Specified(o)) =>
        /\ reason \in {"early_no_unresolved_high_critical", "input_exhausted"} => Serious(debate) = {}
        /\ reason = "input_exhausted_with_unresolved_blockers" => Serious(debate) # {}

\* converge never fails on a debate, and no objection gets lost on the way: each of the
\* selected rounds is accepted, rejected or carried on, in one section only, or another
\* one that is accepted or rejected answers it.
NothingIsDropped ==
    /\ stage # "failed"
    /\ stage = "converged" =>
        \A k \in DOMAIN debate.objections :
            LET o == debate.objections[k]
                Carried == \E x \in convergence.carried : x[1] = o.id
                Answered == \E m \in k + 1 .. Len(debate.objections) :
                    /\ debate.objections[m].addresses = o.id
                    /\ debate.objections[m].id \in convergence.accepted \cup convergence.rejected
            IN  Cardinality({n \in 1..4 : CASE n = 1 -> o.id \in convergence.accepted
                                             [] n = 2 -> o.id \in convergence.rejected
                                             [] n = 3 -> Carried
                                             [] n = 4 -> Answered}) = 1

\* "Do not accept by model majority": a suggestion to act outside, a critical objection
\* and one that asks for the user, if nothing answers it, are put to the user, and a
\* debate is accepted exactly when it has converged.
DecisionIsWarranted ==
    stage = "converged" =>
        /\ (\E i \in DOMAIN rounds : rounds[i].external) => convergence.decision = "needs_user_decision"
        /\ \A o \in ToSet(debate.objections) :
            o.id \in debate.unresolved /\ (o.severity = "critical" \/ o.status = "needs_user_decision")
                => o.id \in convergence.decisions
        /\ debate.status = "waiting_for_user" => convergence.decision = "needs_user_decision"
        /\ (convergence.decision = "accepted") = (debate.status = "converged")

\* What run_debate and converge conclude agrees with the rounds they were given: the reason
\* is true, no objection gets lost, and no majority decides for the user.
DebateHolds == ReasonIsTrue /\ NothingIsDropped /\ DecisionIsWarranted
=============================================================================
