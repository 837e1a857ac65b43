---------------------------- MODULE Orchestration ----------------------------
(***************************************************************************)
(* The orchestration of one conversational task (platform/orchestrate and  *)
(* the endpoints of platform/conversation that write what it reads): the   *)
(* requirements are elicited and confirmed, then a run executes, reviews   *)
(* and revises one after the other, and leaves final artifacts.            *)
(*                                                                         *)
(* The endpoints are coroutines without an await in their bodies, so on    *)
(* one event loop nothing comes between the steps of a run.  But a run     *)
(* writes many files, each replaced atomically, and may stop between any   *)
(* two of them: the process dies, a write fails, or a reviewer's verdict   *)
(* does not parse.  Every step below makes at most one of those writes.    *)
(*                                                                         *)
(* Conversation rows and review files are left out: nothing reads them     *)
(* back.  The order of "rounds" and the round numbers of its rows are left *)
(* out for the same reason.  Requirement ids are distinct.                 *)
(***************************************************************************)
EXTENDS Integers, FiniteSets

CONSTANTS
    NReqs,      \* requirements of the task
    MaxRounds,  \* MAX_ROUNDS of the critique loop
    MaxRuns     \* bound on the runs

Reqs == 1..NReqs

ASSUME OrchestrationAssumption ==
    NReqs \in Nat \ {0} /\ MaxRounds \in Nat \ {0} /\ MaxRuns \in Nat

VARIABLES
    reqs,   \* requirements.json
    orch,   \* orchestration.json
    file,   \* the artifact files under orchestration/
    run,    \* the locals of run_orchestration and run_critique_loop
    runs    \* runs started so far

vars == <<reqs, orch, file, run, runs>>

CoarseStates == {"absent", "pending", "in_progress", "done", "blocked"}

\* What can serve the modality of a requirement: anything, the web hub (image, video,
\* slides), or nothing (music).
Capabilities == {"supported", "hub_only", "no"}

\* since: the runs started before the list was written (for the properties).
Item == [state : CoarseStates, cap : Capabilities]
Requirements == [status : {"eliciting", "confirmed"}, since : Nat, items : [Reqs -> Item]]

\* Names of artifact files.  The loop keys a directive by its round alone, and names
\* a review file it never writes when a reviewer gives no verdict.
FileNames ==
    ({"fanout"} \X {1} \X Reqs) \cup ({"revision"} \X (1..MaxRounds) \X Reqs)
        \cup ({"directive", "review"} \X (1..MaxRounds) \X {0}) \cup ({"final"} \X {0} \X Reqs)

NoFile == <<"none", 0, 0>>

\* What a file holds: for which requirement it was written, in which run (0: there is
\* no such file), and for a final artifact its source_artifact_ref.
Content == [req : 0..NReqs, run : Nat, from : FileNames \cup {NoFile}]
NoContent == [req |-> 0, run |-> 0, from |-> NoFile]

\* terminated_by, of a row and of the loop.
Ends == {"fanout", "in_progress", "consensus", "marginal", "MAX_ROUNDS", "review_deferred",
         "deferred", "failed", "user_gate"}
Row == [file : FileNames, req : Reqs, by : Ends]

Outcomes == {"delivered", "capped", "deferred", "blocked"}

Orch == [status : {"none", "running"} \cup Outcomes, run : Nat, rows : SUBSET Row]

Verdicts == {"none", "delivered", "capped", "deferred", "failed"}

\* hub: the workflow generates and reviews over the web hub (of the workflows in the
\* library one does both, the others neither); gate: NOETICBRAID_PLATFORM_HUB_EXEC is
\* on; ref, rows, verdict, by: of the critique loop; out: the terminal statuses.
Run == [pc : {"idle", "begin", "execute", "row", "review", "revise", "merge", "final",
              "finalrow", "done", "end"},
        i : 1..NReqs + 1, hub : BOOLEAN, gate : BOOLEAN, round : 1..MaxRounds,
        ref : FileNames \cup {NoFile}, rows : SUBSET Row, verdict : Verdicts, by : Ends,
        out : SUBSET Outcomes]

IdleRun == [pc |-> "idle", i |-> 1, hub |-> FALSE, gate |-> FALSE, round |-> 1, ref |-> NoFile,
            rows |-> {}, verdict |-> "none", by |-> "fanout", out |-> {}]

Init ==
    /\ reqs = [status |-> "eliciting", since |-> 0,
               items |-> [r \in Reqs |-> [state |-> "absent", cap |-> "supported"]]]
    /\ orch = [status |-> "none", run |-> 0, rows |-> {}]
    /\ file = [f \in FileNames |-> NoContent]
    /\ run = IdleRun
    /\ runs = 0

-----------------------------------------------------------------------------
(* The endpoints that write the requirements.                              *)

\* /elicit and, before the confirmation, /conversation: new candidates replace the list,
\* a confirmed one too.
Elicit ==
    /\ run.pc = "idle"
    /\ \E S \in (SUBSET Reqs) \ {{}} :
        reqs' = [status |-> "eliciting", since |-> runs,
                 items |-> [r \in Reqs |-> [state |-> IF r \in S THEN "pending" ELSE "absent",
                                            cap |-> "supported"]]]
    /\ UNCHANGED <<orch, file, run, runs>>

\* _stamp_requirement: pending, or blocked for want of a capability.
Stamp(r, S, cap) ==
    [state |-> IF r \notin S THEN "absent"
               ELSE IF cap[r] = "supported" THEN "pending" ELSE "blocked",
     cap |-> cap[r]]

\* /requirements/confirm stamps whatever list the client sends.
Confirm ==
    /\ run.pc = "idle"
    /\ \E S \in SUBSET Reqs : \E cap \in [Reqs -> Capabilities] :
        /\ \A r \in Reqs \ S : cap[r] = "supported"
        /\ reqs' = [status |-> "confirmed", since |-> runs,
                    items |-> [r \in Reqs |-> Stamp(r, S, cap)]]
    /\ UNCHANGED <<orch, file, run, runs>>

-----------------------------------------------------------------------------
(* run_orchestration.                                                      *)

\* The place of the next requirement of the list.
After(i) ==
    LET L == {r \in Reqs : r > i /\ reqs.items[r].state # "absent"} IN
    IF L = {} THEN NReqs + 1 ELSE CHOOSE r \in L : \A q \in L : r <= q

\* /orchestrate of a confirmed, non-empty list: the state is written anew.
Start ==
    /\ run.pc = "idle" /\ reqs.status = "confirmed" /\ After(0) <= NReqs
    /\ runs < MaxRuns
    /\ runs' = runs + 1
    /\ \E hub, gate \in BOOLEAN :
        run' = [IdleRun EXCEPT !.pc = "begin", !.i = After(0), !.hub = hub, !.gate = gate]
    /\ orch' = [status |-> "running", run |-> runs + 1, rows |-> {}]
    /\ UNCHANGED <<reqs, file>>

\* _set_requirement_state.
SetState(r, s) ==
    reqs' = [reqs EXCEPT !.items[r].state = s]

\* state.write_round_artifact and write_final_artifact.
WriteFile(f, from) ==
    file' = [file EXCEPT ![f] = [req |-> run.i, run |-> runs, from |-> from]]

\* Faulty variant of WriteRows: the rows written before are lost.
WriteRowsAlone(rows) == orch' = [orch EXCEPT !.rows = rows]

\* state.append_round and write_state.
WriteRows(rows) == orch' = [orch EXCEPT !.rows = orch.rows \cup rows]

RowFor(f, by) == [file |-> f, req |-> run.i, by |-> by]

\* The requirement is over with an outcome; on to the next.
Advance(outcome) ==
    run' = [IdleRun EXCEPT !.pc = "begin", !.i = After(run.i), !.hub = run.hub,
                           !.gate = run.gate, !.out = run.out \cup {outcome}]

\* A requirement without a capability is blocked, unless the hub can serve it.
Begin ==
    LET item == reqs.items[run.i] IN
    /\ run.pc = "begin" /\ run.i <= NReqs
    /\ IF item.cap = "supported" \/ (item.cap = "hub_only" /\ run.hub /\ run.gate)
       THEN /\ SetState(run.i, "in_progress")
            /\ run' = [run EXCEPT !.pc = "execute"]
       ELSE /\ SetState(run.i, "blocked")
            /\ Advance("deferred")
    /\ UNCHANGED <<orch, file, runs>>

\* The execution node gives an artifact, or the requirement is blocked.  A failure of the
\* hub counts as blocked, anything else as deferred.
Execute ==
    /\ run.pc = "execute"
    /\ \/ /\ run.hub => run.gate
          /\ WriteFile(<<"fanout", 1, run.i>>, NoFile)
          /\ run' = [run EXCEPT !.pc = "row"]
          /\ UNCHANGED reqs
       \/ /\ SetState(run.i, "blocked")
          /\ \/ Advance("deferred")
             \/ run.hub /\ run.gate /\ Advance("blocked")
          /\ UNCHANGED file
    /\ UNCHANGED <<orch, runs>>

WriteFanoutRow ==
    /\ run.pc = "row"
    /\ WriteRows({RowFor(<<"fanout", 1, run.i>>, "fanout")})
    /\ run' = [run EXCEPT !.pc = "review", !.ref = <<"fanout", 1, run.i>>]
    /\ UNCHANGED <<reqs, file, runs>>

-----------------------------------------------------------------------------
(* run_critique_loop.                                                      *)

\* Its result, with the rows it wrote so far or, when a reviewer fails, with none.
Result(verdict, by, rows, ref) ==
    run' = [run EXCEPT !.pc = "merge", !.verdict = verdict, !.by = by, !.rows = rows, !.ref = ref]

\* The reviewers agree; or too few families answered to be confident (local reviewers);
\* or one gives no verdict.
ReviewEnds ==
    /\ run.pc = "review"
    /\ \/ (run.hub => run.gate) /\ Result("delivered", "consensus", run.rows, run.ref)
       \/ ~run.hub /\ Result("delivered", "marginal", run.rows, run.ref)
       \/ run.hub /\ Result("deferred", "deferred", {}, <<"review", run.round, 0>>)
       \/ ~run.hub /\ Result("failed", "failed", {}, <<"review", run.round, 0>>)
    /\ UNCHANGED <<reqs, orch, file, runs>>

\* The issues make a directive.  One of taste or against the user's word waits for the
\* user; in the last round the artifact is taken as it is.
Direct ==
    LET f == <<"directive", run.round, 0>>
        rows == run.rows \cup {RowFor(f, "in_progress")}
    IN
    /\ run.pc = "review" /\ (run.hub => run.gate)
    /\ WriteFile(f, NoFile)
    /\ \/ Result("deferred", "user_gate", rows, run.ref)
       \/ run.round = MaxRounds /\ Result("capped", "MAX_ROUNDS", rows, run.ref)
       \/ run.round < MaxRounds /\ run' = [run EXCEPT !.pc = "revise", !.rows = rows]
    /\ UNCHANGED <<reqs, orch, runs>>

\* Faulty variant of Revise: the round is not counted.
ReviseForever ==
    LET f == <<"revision", run.round, run.i>> IN
    /\ run.pc = "revise"
    /\ WriteFile(f, NoFile)
    /\ run' = [run EXCEPT !.pc = "review", !.ref = f]
    /\ UNCHANGED <<reqs, orch, runs>>

\* The directive is applied.  A revision that gained too little after the first round
\* ends the loop; the hub cannot revise outside its conversation.
Revise ==
    LET f == <<"revision", run.round, run.i>> IN
    /\ run.pc = "revise"
    /\ \/ /\ WriteFile(f, NoFile)
          /\ \/ run' = [run EXCEPT !.pc = "review", !.ref = f, !.round = run.round + 1]
             \/ run.round > 1 /\ Result("delivered", "marginal", run.rows, f)
       \/ /\ \/ Result("failed", "failed", run.rows, run.ref)
             \/ run.hub /\ Result("capped", "MAX_ROUNDS", run.rows, run.ref)
          /\ UNCHANGED file
    /\ UNCHANGED <<reqs, orch, runs>>

-----------------------------------------------------------------------------
(* The end of a requirement and of the run.                                *)

\* A hub artifact is delivered also when its reviewer gave no verdict.
ReviewDeferred == run.hub /\ run.verdict = "deferred" /\ run.by = "deferred"

\* The rows of the loop; then what its verdict asks for.
Merge ==
    /\ run.pc = "merge"
    /\ WriteRows(run.rows)
    /\ IF run.verdict = "deferred" /\ ~ReviewDeferred THEN Advance("deferred")
       ELSE run' = [run EXCEPT !.pc = IF run.verdict = "failed" THEN "end" ELSE "final"]
    /\ UNCHANGED <<reqs, file, runs>>

WriteFinal ==
    /\ run.pc = "final"
    /\ WriteFile(<<"final", 0, run.i>>, run.ref)
    /\ run' = [run EXCEPT !.pc = "finalrow"]
    /\ UNCHANGED <<reqs, orch, runs>>

WriteFinalRow ==
    /\ run.pc = "finalrow"
    /\ WriteRows({RowFor(<<"final", 0, run.i>>,
                         IF ReviewDeferred THEN "review_deferred" ELSE run.by)})
    /\ run' = [run EXCEPT !.pc = "done"]
    /\ UNCHANGED <<reqs, file, runs>>

MarkDone ==
    /\ run.pc = "done"
    /\ SetState(run.i, "done")
    /\ Advance(run.verdict)
    /\ UNCHANGED <<orch, file, runs>>

\* A critique that failed blocks the requirement.
MarkBlocked ==
    /\ run.pc = "end"
    /\ SetState(run.i, "blocked")
    /\ Advance(IF run.hub THEN "blocked" ELSE "deferred")
    /\ UNCHANGED <<orch, file, runs>>

\* _run_status.
RunStatus(out) ==
    CASE "capped" \in out -> "capped"
      [] out = {"blocked"} -> "blocked"
      [] "delivered" \in out /\ "capped" \notin out -> "delivered"
      [] OTHER -> "deferred"

Finish ==
    /\ run.pc = "begin" /\ run.i > NReqs
    /\ orch' = [orch EXCEPT !.status = RunStatus(run.out)]
    /\ run' = IdleRun
    /\ UNCHANGED <<reqs, file, runs>>

\* The process dies, a write fails, or an exception leaves the run: what is written stays.
Abort ==
    /\ run.pc # "idle"
    /\ run' = IdleRun
    /\ UNCHANGED <<reqs, orch, file, runs>>

Proceed ==
    \/ Begin \/ Execute \/ WriteFanoutRow \/ ReviewEnds \/ Direct \/ Revise
    \/ Merge \/ WriteFinal \/ WriteFinalRow \/ MarkDone \/ MarkBlocked \/ Finish

Next == Elicit \/ Confirm \/ Start \/ Proceed \/ Abort

Spec == Init /\ [][Next]_vars

\* A call of a model or of the hub has a timeout, so a run goes on.
FairSpec == Spec /\ WF_vars(Proceed)

\* No run is cut short.
WholeRuns == Init /\ [][Elicit \/ Confirm \/ Start \/ Proceed]_vars

-----------------------------------------------------------------------------
(* Properties.                                                             *)

\* Every variable has its type.
TypeOK ==
    /\ reqs \in Requirements /\ orch \in Orch /\ run \in Run
    /\ file \in [FileNames -> Content] /\ runs \in 0..MaxRuns

Final(r) == file[<<"final", 0, r>>]

\* A requirement that is done has a final artifact made for it as it is confirmed now,
\* whatever was re-elicited, re-run or cut short since an older artifact of the same
\* name; and unless the review was deferred its source is there, from the same run.
DoneIsBacked ==
    \A r \in Reqs :
        LET from == Final(r).from IN
        reqs.items[r].state = "done" =>
            /\ Final(r).run > reqs.since
            /\ from[1] # "review" => file[from].run = Final(r).run

\* per_task_deliverables offers the final artifact of a requirement.
Offered(r) ==
    LET finals == {row \in orch.rows : row.file[1] = "final"} IN
    /\ reqs.items[r].state = "done" /\ Final(r).run # 0
    /\ finals # {} => \E row \in finals : row.req = r

\* After a run that came to its end every requirement that is done is offered for
\* download (a run cut short may hide what an earlier one delivered).
DoneIsOffered ==
    orch.status # "running" => \A r \in Reqs : reqs.items[r].state = "done" => Offered(r)

\* Every row of the state names a file that is there and was written in the same run, for
\* the row's requirement where the name says so.
RowsNameTheirFiles ==
    \A row \in orch.rows :
        /\ file[row.file].run = orch.run
        /\ row.file[1] # "directive" => file[row.file].req = row.req

\* The three records of an orchestration - requirements, rows and files - tell one story,
\* though they are written one after the other (orchestrate/engine.py, state.py).
FinalsHold == TypeOK /\ DoneIsBacked /\ DoneIsOffered /\ RowsNameTheirFiles

\* A run ends: no cycle of review and revision goes on for ever.
RunEnds == run.pc # "idle" ~> run.pc = "idle"

\* "stored by path reference" (state.py:2) with "require_evidence_provenance" (the
\* workflow specifications): the directive a row refers to is that of its requirement.
DirectivesKeepTheirRows ==
    \A row \in orch.rows : row.file[1] = "directive" => file[row.file].req = row.req
=============================================================================
