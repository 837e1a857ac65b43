---------------------------- MODULE ProviderLoop ----------------------------
(***************************************************************************)
(* run_debate_loop of the multi-model alliance in provider mode: the three *)
(* command lines that are called one after the other                       *)
(* (invocation_plan.py), the rounds that are read from what they left      *)
(* (provider_round_parser.py), and the files, the candidate and the ledger *)
(* rows that are written at the end (loop.py, candidate_store.py,          *)
(* ledger_bridge.py, convergence_markdown.py).                             *)
(*                                                                         *)
(* What the rounds say is the subject of DebateLoop; here a round is       *)
(* readable or it is not.  Every call is a step; a write that is made in   *)
(* place is two, for it first empties the file and then fills it; between  *)
(* any two steps the process may die, and a write that fails, or in which  *)
(* the process dies, leaves what it had got to.  All runs are of one task  *)
(* card, whose ids, and so whose file names, are always the same.          *)
(*                                                                         *)
(* A line, a row and an output are written through a buffer that is flushed*)
(* once, at the close.  The artifact of a command line is written in place *)
(* as well, but is one step unless it fails; what is scanned for forbidden *)
(* material before a write has been scanned when it was read.              *)
(***************************************************************************)
EXTENDS Integers, Sequences, FiniteSets

CONSTANTS
    Loopers,      \* processes that run the loop
    Providers,    \* the plans, in order: sequence of "codex", "gemini", "claude"
    Backoffs,     \* how often GEMINI_RETRY_BACKOFF_SECONDS lets gemini be asked again
    LastStamp,    \* bound on the clock, in the seconds of utc_stamp
    MaxLoops,     \* bound on the runs
    MaxLoopFaults \* bound on deaths and failed writes

ASSUME LoopAssumption ==
    /\ Providers \in Seq({"codex", "gemini", "claude"}) /\ {Backoffs, LastStamp, MaxLoops, MaxLoopFaults} \subseteq Nat
    /\ IsFiniteSet(Loopers)

VARIABLES
    stamp,       \* the second of the clock
    answers,   \* <<provider, stamp>> -> "absent", "round", "plain": what the artifact holds
    outputs,     \* file -> [holds, by]: "absent", "empty", "whole", "cut" or "mixed" from two runs,
                 \* and the run that opened or filled it last, 0 for none
    candidates,  \* multimodel_debate_candidates.jsonl: its lines, [run, ended]
    ledgered,    \* run_ledger.jsonl: its rows, [run, event, ended]
    looper,      \* looper[p]: the locals of one run_debate_loop
    loopPast     \* history: runs begun, runs that got three readable rounds, faults

loopVars == <<stamp, answers, outputs, candidates, ledgered, looper, loopPast>>

Outputs == {"provider", "route", "debate", "convergence", "markdown"}
Events == <<"artifact_created", "routing_advice_recorded", "lesson_candidate_created">>
Resting == [at |-> "idle", run |-> 0, stamp |-> 1, provider |-> 1, asked |-> 0, open |-> FALSE]

LoopInit ==
    /\ stamp = 1 /\ answers = [a \in {Providers[k] : k \in DOMAIN Providers} \X (1..LastStamp) |-> "absent"]
    /\ outputs = [f \in Outputs |-> [holds |-> "absent", by |-> 0]] /\ candidates = <<>> /\ ledgered = <<>>
    /\ looper = [p \in Loopers |-> Resting]
    /\ loopPast = [begun |-> 0, read |-> {}, faults |-> 0]

Moves(p, at) == looper' = [looper EXCEPT ![p] = [@ EXCEPT !.at = at, !.open = FALSE]]
Ends(p) == looper' = [looper EXCEPT ![p] = Resting]
Fails(p) ==
    /\ loopPast.faults < MaxLoopFaults /\ loopPast' = [loopPast EXCEPT !.faults = @ + 1]
    /\ Ends(p)
Slot(p) == <<Providers[looper[p].provider], looper[p].stamp>>

-----------------------------------------------------------------------------
(* The command lines.                                                      *)

\* The task card is checked before anything is done: by hand only, and with nothing in
\* it that must not be written; then the plan is made, whose files bear the second.
Begin(p) ==
    /\ looper[p].at = "idle" /\ loopPast.begun < MaxLoops
    /\ loopPast' = [loopPast EXCEPT !.begun = @ + 1]
    /\ \/ looper' = [looper EXCEPT ![p] = [Resting EXCEPT !.at = "ask", !.run = loopPast.begun + 1, !.stamp = stamp]]
       \/ UNCHANGED looper
    /\ UNCHANGED <<stamp, answers, outputs, candidates, ledgered>>

\* What an artifact holds once the answer has been captured. codex may have written it
\* itself; what claude has not filled with more than 256 bytes is taken from the file that
\* it links to, if that is there, or else from what it said; of the others, what is there
\* is left alone.
Captured(provider, found, full, said, linked) ==
    IF provider = "claude" /\ ~full
    THEN IF linked # "absent" THEN linked ELSE said
    ELSE IF found = "absent" THEN said ELSE found

\* Asked again: gemini, on a rate limit, as long as there is a delay left.
Again(p, limited) == Slot(p)[1] = "gemini" /\ limited /\ looper[p].asked < Backoffs

\* The next plan, or the reading behind the last.
Onward(l) ==
    IF l.provider < Len(Providers) THEN [l EXCEPT !.provider = @ + 1, !.asked = 0] ELSE [l EXCEPT !.at = "read"]

\* One subprocess of execute_invocation_plan and, if it is not repeated, its artifact.
\* The exit code decides only whether it is repeated.
Ask(p) ==
    /\ looper[p].at = "ask"
    /\ \/ \E limited \in BOOLEAN, said \in {"round", "plain"}, itself \in {"absent", "round", "plain"},
             linked \in {"absent", "round", "plain"}, full \in BOOLEAN :
            LET found == IF itself # "absent" /\ Slot(p)[1] = "codex" THEN itself ELSE answers[Slot(p)] IN
            /\ limited => said = "plain" /\ Slot(p)[1] = "gemini"
            /\ Slot(p)[1] # "codex" => itself = "absent"
            /\ Slot(p)[1] # "claude" => linked = "absent"
            /\ full => Slot(p)[1] = "claude" /\ found # "absent"
            /\ IF Again(p, limited)
               THEN looper' = [looper EXCEPT ![p].asked = @ + 1] /\ UNCHANGED answers
               ELSE /\ answers' = [answers EXCEPT ![Slot(p)] = Captured(Slot(p)[1], found, full, said, linked)]
                    /\ looper' = [looper EXCEPT ![p] = Onward(@)]
          /\ UNCHANGED loopPast
       \/ Ends(p) /\ UNCHANGED <<answers, loopPast>>      \* TimeoutExpired, or a link into a protected zone
       \/ \E left \in {"round", "plain"} :                 \* the artifact is not written to its end
            answers' = [answers EXCEPT ![Slot(p)] = left] /\ Fails(p)
    /\ UNCHANGED <<stamp, outputs, candidates, ledgered>>

Readable(content) == content = "round"

\* Faulty variant of BuildRounds: what cannot be read is left out.
BuildRoundsLeniently(p) ==
    /\ looper[p].at = "read"
    /\ IF \E k \in DOMAIN Providers : Readable(answers[<<Providers[k], looper[p].stamp>>])
       THEN Moves(p, "provider") ELSE Ends(p)
    /\ loopPast' = [loopPast EXCEPT !.read = @ \cup
           (IF \A k \in DOMAIN Providers : Readable(answers[<<Providers[k], looper[p].stamp>>])
            THEN {looper[p].run} ELSE {})]
    /\ UNCHANGED <<stamp, answers, outputs, candidates, ledgered>>

\* build_real_rounds: one unreadable artifact ends the run.
BuildRounds(p) ==
    /\ looper[p].at = "read"
    /\ IF \A k \in DOMAIN Providers : Readable(answers[<<Providers[k], looper[p].stamp>>])
       THEN Moves(p, "provider") /\ loopPast' = [loopPast EXCEPT !.read = @ \cup {looper[p].run}]
       ELSE Ends(p) /\ UNCHANGED loopPast
    /\ UNCHANGED <<stamp, answers, outputs, candidates, ledgered>>

-----------------------------------------------------------------------------
(* What is left of a run.                                                  *)

\* The order of the writes.
After ==
    [provider |-> "settle", route |-> "debate", debate |-> "convergence", convergence |-> "candidate",
     candidate |-> "markdown", markdown |-> "ledger"]

\* _write_json_artifact, write_convergence_markdown: write_text empties the file.
Empty(p) ==
    /\ looper[p].at \in Outputs /\ ~looper[p].open
    /\ outputs' = [outputs EXCEPT ![looper[p].at] = [holds |-> "empty", by |-> looper[p].run]]
    /\ looper' = [looper EXCEPT ![p].open = TRUE]
    /\ UNCHANGED <<stamp, answers, candidates, ledgered, loopPast>>

\* The text is written from the start of the file: over what another run may have put
\* there since, of which the end stays when it is longer.
Fill(p) ==
    LET f == looper[p].at IN
    /\ f \in Outputs /\ looper[p].open
    /\ \E holds \in {"whole"} \cup (IF outputs[f].holds = "empty" THEN {} ELSE {"mixed"}) :
         outputs' = [outputs EXCEPT ![f] = [holds |-> holds, by |-> looper[p].run]]
    /\ Moves(p, After[f]) /\ UNCHANGED <<stamp, answers, candidates, ledgered, loopPast>>

\* The disk is full, or the process dies, with a part of the text in the file.
FillFails(p) ==
    /\ looper[p].at \in Outputs /\ looper[p].open
    /\ outputs' = [outputs EXCEPT ![looper[p].at] = [holds |-> "cut", by |-> looper[p].run]]
    /\ Fails(p) /\ UNCHANGED <<stamp, answers, candidates, ledgered>>

\* run_debate, converge, build_debate_candidate and what validates their records, behind
\* the provider summaries and before any other file: they may refuse.
Settle(p) ==
    /\ looper[p].at = "settle"
    /\ Moves(p, "route") \/ Ends(p)
    /\ UNCHANGED <<stamp, answers, outputs, candidates, ledgered, loopPast>>

\* append_candidate_record: the id is always the same, the line is one more; a write that
\* fails may leave a line without its end.
AppendCandidate(p) ==
    /\ looper[p].at = "candidate"
    /\ \/ candidates' = Append(candidates, [run |-> looper[p].run, ended |-> TRUE])
          /\ Moves(p, After["candidate"]) /\ UNCHANGED loopPast
       \/ candidates' = Append(candidates, [run |-> looper[p].run, ended |-> FALSE]) /\ Fails(p)
    /\ UNCHANGED <<stamp, answers, outputs, ledgered>>

\* The first n rows of a run, to the end of all but, it may be, the last.
Rows(run, n, ended) == [k \in 1..n |-> [run |-> run, event |-> Events[k], ended |-> k < n \/ ended]]

\* record_debate_loop_ledger: three rows with one write, of which a full disk may take
\* the end.
AppendLedger(p) ==
    /\ looper[p].at = "ledger"
    /\ \/ ledgered' = ledgered \o Rows(looper[p].run, 3, TRUE) /\ Ends(p) /\ UNCHANGED loopPast
       \/ \E n \in 1..3, ended \in BOOLEAN :
            /\ n = 3 => ~ended
            /\ ledgered' = ledgered \o Rows(looper[p].run, n, ended) /\ Fails(p)
    /\ UNCHANGED <<stamp, answers, outputs, candidates>>

\* A death, or a write of which nothing is done: the file cannot be opened, or its text
\* is still in the buffer.
LoopDie(p) ==
    /\ looper[p].at # "idle" /\ Fails(p)
    /\ UNCHANGED <<stamp, answers, outputs, candidates, ledgered>>

Second ==
    /\ stamp < LastStamp /\ stamp' = stamp + 1
    /\ UNCHANGED <<answers, outputs, candidates, ledgered, looper, loopPast>>

LoopNext ==
    \/ \E p \in Loopers :
        \/ Begin(p) \/ Ask(p) \/ BuildRounds(p) \/ Empty(p) \/ Fill(p) \/ FillFails(p) \/ Settle(p)
        \/ AppendCandidate(p) \/ AppendLedger(p) \/ LoopDie(p)
    \/ Second

LoopSpec == LoopInit /\ [][LoopNext]_loopVars

-----------------------------------------------------------------------------
(* Properties.                                                             *)

\* What a reader who takes a file line by line can parse: a line that has its end, and
\* that is not joined to one that has not. (A line that lacks nothing but its end is taken
\* for one that cannot be parsed, though it can be as long as it is the last.)
Legible(file) == {k \in DOMAIN file : file[k].ended /\ (k = 1 \/ file[k - 1].ended)}
RunsOf(file, lines) == {file[k].run : k \in lines}

Runs == RunsOf(candidates, DOMAIN candidates)
LegibleRuns == RunsOf(candidates, Legible(candidates))
Under(event) == RunsOf(ledgered, {k \in Legible(ledgered) : ledgered[k].event = event})

\* Outputs that are empty or cut, and that nobody is about to fill.
Spoiled == {f \in Outputs : outputs[f].holds \in {"empty", "cut"} /\ ~ \E p \in Loopers : looper[p].at = f /\ looper[p].open}

\* A lesson is never drawn from less than three readable rounds, and what it rests on does
\* not get lost, also when processes run the loop at once, share the files of a second and
\* of the task, die at any step or leave a file half written: a run that has put anything
\* in the candidate file has read all three, and files of its route, debate and convergence
\* are there, made by it or by another that has read all three; a run with a row in the
\* ledger has its candidate. What goes wrong is one fault each: a candidate with no complete
\* record in the ledger, unless its run is still at work; a candidate that is in the ledger
\* and cannot be read, for a line that was left without its end stands before it; and an
\* output that is left empty or cut. (Two runs that fill one output at once can leave a
\* mixture of the two with no fault at all: there is no lock.)
LessonsAreBacked ==
    /\ Runs \subseteq loopPast.read
    /\ Runs # {} => \A f \in {"route", "debate", "convergence"} : outputs[f].holds # "absent"
    /\ \A f \in {"debate", "convergence"} : outputs[f].by \in loopPast.read \cup {0}
    /\ Under("artifact_created") \subseteq Runs
    /\ Under("lesson_candidate_created") \subseteq Under("routing_advice_recorded")
    /\ Cardinality(Runs \ Under("lesson_candidate_created")) <=
           loopPast.faults + Cardinality({p \in Loopers : looper[p].at \in {"markdown", "ledger"}})
    /\ Cardinality(Under("lesson_candidate_created") \ LegibleRuns) <= loopPast.faults
    /\ Cardinality(Spoiled) <= loopPast.faults
=============================================================================
