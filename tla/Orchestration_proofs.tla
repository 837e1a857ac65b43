-------------------------- MODULE Orchestration_proofs --------------------------
(***************************************************************************)
(* Theorems of Orchestration for any number of requirements, rounds and    *)
(* runs.  The inductive invariant is IInv: what a run has in its locals is *)
(* on disk under names that carry its requirement, and what it has not yet *)
(* come to is untouched.                                                   *)
(***************************************************************************)
EXTENDS Orchestration, WellFoundedInduction, TLAPS

\* File names that carry the requirement they are for.
Carries(f) == f[1] \in {"fanout", "revision", "final"}

\* What a final artifact of r may name as its source.
IsSource(f, r) ==
    /\ f \in FileNames
    /\ f[1] # "review" => f[1] \in {"fanout", "revision"} /\ f[3] = r

\* Written in the latest run.
Fresh(f) == file[f].run = runs

FinalName(r) == <<"final", 0, r>>

FilesAreNamed ==
    \A f \in FileNames :
        /\ file[f].run <= runs
        /\ f[1] = "review" => file[f].run = 0
        /\ Carries(f) /\ file[f].run # 0 => file[f].req = f[3]
        /\ f[1] = "final" /\ file[f].run # 0 => IsSource(file[f].from, f[3])

RowsAreNamed ==
    \A row \in orch.rows \cup run.rows :
        /\ row.file[1] # "review"
        /\ Carries(row.file) => row.req = row.file[3]

HasFinalRow(r) == \E row \in orch.rows : row.file[1] = "final" /\ row.req = r

\* The requirements before run.i have been dealt with in this run.
Passed == \A r \in Reqs : r < run.i /\ reqs.items[r].state = "done" => HasFinalRow(r)

Reviewing == {"review", "revise", "merge", "final", "finalrow", "done", "end"}

\* The locals of a run and what of them is on disk.
RunIsBacked ==
    /\ orch.run = runs /\ reqs.since <= runs
    /\ run.pc = "idle" => run = IdleRun
    /\ run.pc # "idle" => orch.status = "running" /\ reqs.since < runs /\ Passed
    /\ run.pc \notin {"idle", "begin"} => run.i \in Reqs /\ reqs.items[run.i].state = "in_progress"
    /\ run.pc \notin Reviewing => run.rows = {}
    /\ run.pc = "row" => Fresh(<<"fanout", 1, run.i>>)
    /\ run.pc = "revise" => run.round < MaxRounds
    /\ run.pc \in Reviewing =>
        /\ IsSource(run.ref, run.i)
        /\ run.ref[1] # "review" => Fresh(run.ref)
        /\ \A row \in run.rows : Fresh(row.file)
    /\ run.pc \in {"finalrow", "done"} => Fresh(FinalName(run.i)) /\ Final(run.i).from = run.ref
    /\ run.pc = "merge" => run.verdict # "none"
    /\ run.pc \in {"final", "finalrow", "done"} => run.verdict \in Outcomes
    /\ run.pc = "done" => HasFinalRow(run.i)

IInv == FinalsHold /\ FilesAreNamed /\ RowsAreNamed /\ RunIsBacked

-----------------------------------------------------------------------------
(* Places in the list, names and files.                                    *)

\* A set of numbers that is not empty has a least one (module WellFoundedInduction).
LEMMA HasLeast ==
    ASSUME NEW S, S \subseteq Nat, S # {}
    PROVE  \E m \in S : \A k \in S : m <= k
  <1> DEFINE R == OpToRel(<, Nat)
  <1>1. \A x, y \in Nat : <<x, y>> \in R <=> x < y
    BY DEF OpToRel
  <1>2. IsWellFoundedOn(R, Nat)
    BY NatLessThanWellFounded
  <1> HIDE DEF R
  <1>3. PICK m \in S : \A k \in S : ~ <<k, m>> \in R
    BY <1>2, WFMin
  <1>4. ASSUME NEW k \in S PROVE m <= k
    <2>1. m \in Nat /\ k \in Nat
      OBVIOUS
    <2>2. ~ k < m
      BY <1>1, <1>3, <2>1
    <2> QED
      BY <2>1, <2>2
  <1> QED
    BY <1>4

\* After(i) is the next requirement that is not absent, or the end of the list.
LEMMA AfterFacts ==
    ASSUME NEW i \in Nat, TypeOK
    PROVE  /\ After(i) \in 1..NReqs + 1
           /\ \A r \in Reqs : i < r /\ r < After(i) => reqs.items[r].state = "absent"
  <1> DEFINE L == {r \in Reqs : r > i /\ reqs.items[r].state # "absent"}
  <1>1. After(i) = IF L = {} THEN NReqs + 1 ELSE CHOOSE r \in L : \A q \in L : r <= q
    BY DEF After
  <1>2. NReqs \in Nat \ {0} /\ L \subseteq Nat
    BY OrchestrationAssumption DEF Reqs
  <1>3. CASE L = {}
    BY <1>1, <1>2, <1>3 DEF Reqs
  <1>4. CASE L # {}
    <2> DEFINE m == CHOOSE r \in L : \A q \in L : r <= q
    <2>1. \E r \in L : \A q \in L : r <= q
      <3> HIDE DEF L
      <3> QED
        BY <1>2, <1>4, HasLeast
    <2>2. m \in L /\ \A q \in L : m <= q
      BY <2>1
    <2>3. After(i) = m
      BY <1>1, <1>4
    <2> HIDE DEF m
    <2>4. m \in Reqs
      BY <2>2
    <2>5. ASSUME NEW r \in Reqs, i < r, r < m PROVE reqs.items[r].state = "absent"
      <3>1. r \notin L
        BY <1>2, <2>2, <2>4, <2>5 DEF Reqs
      <3> QED
        BY <2>5, <3>1
    <2> QED
      BY <1>2, <2>3, <2>4, <2>5 DEF Reqs
  <1> QED
    BY <1>3, <1>4

\* The names a run uses are names, and differ by kind, round and requirement.
LEMMA NameFacts ==
    /\ \A r \in Reqs : <<"fanout", 1, r>> \in FileNames /\ FinalName(r) \in FileNames
    /\ \A n \in 1..MaxRounds : \A r \in Reqs : <<"revision", n, r>> \in FileNames
    /\ \A n \in 1..MaxRounds : <<"directive", n, 0>> \in FileNames /\ <<"review", n, 0>> \in FileNames
    /\ \A f \in FileNames : Carries(f) => f[3] \in Reqs
    /\ \A f \in FileNames : f[1] = "final" => f = FinalName(f[3])
    /\ \A f \in FileNames : ~Carries(f) => f[1] \in {"directive", "review"}
    /\ NoFile \notin FileNames
  BY OrchestrationAssumption DEF FileNames, FinalName, Carries, Reqs, NoFile

\* One file is replaced by the content of the running requirement, the others stay.
LEMMA WriteFileFacts ==
    ASSUME TypeOK, run.i \in Reqs, NEW f \in FileNames, NEW from \in FileNames \cup {NoFile},
           WriteFile(f, from)
    PROVE  /\ file' \in [FileNames -> Content]
           /\ file'[f] = [req |-> run.i, run |-> runs, from |-> from]
           /\ \A g \in FileNames \ {f} : file'[g] = file[g]
  <1>1. [req |-> run.i, run |-> runs, from |-> from] \in Content
    BY OrchestrationAssumption DEF TypeOK, Content, Reqs
  <1> QED
    BY <1>1 DEF TypeOK, WriteFile

\* The run goes on with the next requirement.
LEMMA AdvanceFacts ==
    ASSUME TypeOK, run.i \in Reqs, NEW o \in Outcomes, Advance(o)
    PROVE  /\ run' \in Run
           /\ run'.pc = "begin" /\ run'.rows = {} /\ run'.i = After(run.i)
           /\ \A r \in Reqs : run.i < r /\ r < run'.i => reqs.items[r].state = "absent"
  <1>1. run.i \in Nat /\ run \in Run
    BY OrchestrationAssumption DEF Reqs, TypeOK
  <1>2. /\ After(run.i) \in 1..NReqs + 1
        /\ \A r \in Reqs : run.i < r /\ r < After(run.i) => reqs.items[r].state = "absent"
    BY <1>1, AfterFacts
  <1>3. run.out \cup {o} \in SUBSET Outcomes
    BY <1>1 DEF Run
  <1>4. run' = [pc |-> "begin", i |-> After(run.i), hub |-> run.hub, gate |-> run.gate, round |-> 1,
                ref |-> NoFile, rows |-> {}, verdict |-> "none", by |-> "fanout", out |-> run.out \cup {o}]
    BY DEF Advance, IdleRun
  <1> HIDE DEF Advance
  <1>5. 1 \in 1..MaxRounds
    BY OrchestrationAssumption
  <1>6. run' \in Run
    BY <1>1, <1>2, <1>3, <1>4, <1>5 DEF Run, Verdicts, Ends
  <1> QED
    BY <1>2, <1>4, <1>6

LEMMA InitHolds == Init => IInv
  <1> SUFFICES ASSUME Init PROVE IInv
    OBVIOUS
  <1>1. TypeOK
    <2>1. IdleRun \in Run
      BY OrchestrationAssumption DEF IdleRun, Run, Verdicts, Ends, Reqs
    <2>2. reqs \in Requirements
      BY DEF Init, Requirements, Item, CoarseStates, Capabilities
    <2>3. NoContent \in Content
      BY OrchestrationAssumption DEF NoContent, Content
    <2> QED
      BY <2>1, <2>2, <2>3, OrchestrationAssumption DEF Init, TypeOK, Orch
  <1>2. FinalsHold
    BY <1>1 DEF Init, FinalsHold, DoneIsBacked, DoneIsOffered, RowsNameTheirFiles
  <1>3. FilesAreNamed
    BY DEF Init, FilesAreNamed, NoContent
  <1>4. RowsAreNamed /\ RunIsBacked
    BY DEF Init, RowsAreNamed, RunIsBacked, IdleRun, Reviewing
  <1> QED
    BY <1>2, <1>3, <1>4 DEF IInv

-----------------------------------------------------------------------------
(* One lemma for each action.                                              *)

\* A list that replaces the old one holds nothing that is done.
LEMMA ReplacedList ==
    ASSUME IInv, run.pc = "idle", UNCHANGED <<orch, file, run, runs>>,
           reqs' \in Requirements, reqs'.since = runs,
           \A r \in Reqs : reqs'.items[r].state # "done"
    PROVE  IInv'
  <1>1. TypeOK'
    BY DEF IInv, FinalsHold, TypeOK
  <1>2. FinalsHold'
    BY <1>1 DEF IInv, FinalsHold, DoneIsBacked, DoneIsOffered, RowsNameTheirFiles
  <1>3. FilesAreNamed' /\ RowsAreNamed'
    BY DEF IInv, FilesAreNamed, RowsAreNamed
  <1>4. RunIsBacked'
    BY <1>1 DEF IInv, FinalsHold, TypeOK, RunIsBacked, Reviewing
  <1> QED
    BY <1>2, <1>3, <1>4 DEF IInv

LEMMA ElicitStep == IInv /\ Elicit => IInv'
  <1> SUFFICES ASSUME IInv, Elicit PROVE IInv'
    OBVIOUS
  <1>1. PICK S \in (SUBSET Reqs) \ {{}} :
          reqs' = [status |-> "eliciting", since |-> runs,
                   items |-> [r \in Reqs |-> [state |-> IF r \in S THEN "pending" ELSE "absent",
                                              cap |-> "supported"]]]
    BY DEF Elicit
  <1>2. reqs' \in Requirements /\ reqs'.since = runs
    BY <1>1, OrchestrationAssumption DEF IInv, FinalsHold, TypeOK, Requirements, Item, CoarseStates, Capabilities
  <1>3. \A r \in Reqs : reqs'.items[r].state # "done"
    BY <1>1
  <1> QED
    BY <1>2, <1>3, ReplacedList DEF Elicit

LEMMA ConfirmStep == IInv /\ Confirm => IInv'
  <1> SUFFICES ASSUME IInv, Confirm PROVE IInv'
    OBVIOUS
  <1>1. PICK S \in SUBSET Reqs, cap \in [Reqs -> Capabilities] :
          reqs' = [status |-> "confirmed", since |-> runs, items |-> [r \in Reqs |-> Stamp(r, S, cap)]]
    BY DEF Confirm
  <1>2. \A r \in Reqs : Stamp(r, S, cap) \in Item /\ Stamp(r, S, cap).state # "done"
    BY DEF Stamp, Item, CoarseStates
  <1>3. reqs' \in Requirements /\ reqs'.since = runs
    BY <1>1, <1>2, OrchestrationAssumption DEF IInv, FinalsHold, TypeOK, Requirements
  <1>4. \A r \in Reqs : reqs'.items[r].state # "done"
    BY <1>1, <1>2
  <1> QED
    BY <1>3, <1>4, ReplacedList DEF Confirm

LEMMA StartStep == IInv /\ Start => IInv'
  <1> SUFFICES ASSUME IInv, Start PROVE IInv'
    OBVIOUS
  <1> USE DEF IInv, FinalsHold
  <1>1. PICK hub, gate \in BOOLEAN :
          run' = [IdleRun EXCEPT !.pc = "begin", !.i = After(0), !.hub = hub, !.gate = gate]
    BY DEF Start
  <1>2. /\ After(0) \in 1..NReqs + 1
        /\ \A r \in Reqs : 0 < r /\ r < After(0) => reqs.items[r].state = "absent"
    BY AfterFacts
  <1>2a. run' = [pc |-> "begin", i |-> After(0), hub |-> hub, gate |-> gate, round |-> 1,
                ref |-> NoFile, rows |-> {}, verdict |-> "none", by |-> "fanout", out |-> {}]
    BY <1>1 DEF IdleRun
  <1>3. /\ run'.pc = "begin" /\ run'.rows = {} /\ run'.i = After(0)
        /\ orch' = [status |-> "running", run |-> runs + 1, rows |-> {}]
        /\ runs' = runs + 1 /\ runs < MaxRuns /\ UNCHANGED <<reqs, file>>
    BY <1>2a DEF Start
  <1>4. TypeOK'
    <2>1. run' \in Run
      <3>1. 1 \in 1..MaxRounds
        BY OrchestrationAssumption
      <3> QED
        BY <1>2a, <1>2, <3>1 DEF Run, Verdicts, Ends
    <2>2. orch' \in Orch /\ runs' \in 0..MaxRuns
      BY <1>3, OrchestrationAssumption DEF TypeOK, Orch
    <2> QED
      BY <1>3, <2>1, <2>2 DEF TypeOK
  <1>5. DoneIsBacked' /\ DoneIsOffered' /\ RowsNameTheirFiles'
    BY <1>3 DEF DoneIsBacked, Final, DoneIsOffered, RowsNameTheirFiles
  <1>6. FilesAreNamed' /\ RowsAreNamed'
    <2>1. \A f \in FileNames : file[f].run \in Nat
      BY DEF TypeOK, Content
    <2> QED
      BY <1>3, <2>1, OrchestrationAssumption DEF FilesAreNamed, RowsAreNamed, TypeOK, IsSource
  <1>7. RunIsBacked'
    <2>1. Passed'
      BY <1>2, <1>3 DEF Passed, Reqs
    <2>2. reqs.since <= runs /\ reqs.since \in Nat /\ runs \in Nat
      BY OrchestrationAssumption DEF RunIsBacked, TypeOK, Requirements
    <2> QED
      BY <1>3, <2>1, <2>2 DEF RunIsBacked, Reviewing
  <1> QED
    BY <1>4, <1>5, <1>6, <1>7

\* What a step inside a run knows: the run is the latest one and under way.
LEMMA RunningFacts ==
    ASSUME IInv, run.pc # "idle"
    PROVE  /\ run \in Run /\ orch \in Orch /\ runs \in Nat \ {0}
           /\ orch.status = "running" /\ orch.run = runs
           /\ reqs.since \in Nat /\ reqs.since < runs /\ Passed
           /\ run.pc # "begin" => run.i \in Reqs /\ reqs.items[run.i].state = "in_progress"
  <1>1. reqs.since \in Nat /\ runs \in Nat
    BY OrchestrationAssumption DEF IInv, FinalsHold, TypeOK, Requirements
  <1> QED
    BY <1>1 DEF IInv, FinalsHold, TypeOK, RunIsBacked

LEMMA SetStateFacts ==
    ASSUME TypeOK, NEW r \in Reqs, NEW s \in CoarseStates, SetState(r, s)
    PROVE  /\ reqs' \in Requirements /\ reqs'.since = reqs.since
           /\ reqs'.items[r].state = s
           /\ \A q \in Reqs \ {r} : reqs'.items[q] = reqs.items[q]
  <1>1. reqs \in Requirements
    BY DEF TypeOK
  <1>2. reqs.items \in [Reqs -> Item]
    BY <1>1 DEF Requirements
  <1>3. [reqs.items EXCEPT ![r].state = s] \in [Reqs -> Item]
    BY <1>2 DEF Item
  <1>4. reqs' = [reqs EXCEPT !.items = [reqs.items EXCEPT ![r].state = s]]
    BY DEF SetState
  <1> HIDE DEF SetState
  <1>5. reqs' \in Requirements /\ reqs'.since = reqs.since
        /\ reqs'.items = [reqs.items EXCEPT ![r].state = s]
    BY <1>1, <1>3, <1>4 DEF Requirements
  <1>6. reqs.items[r] \in Item
    BY <1>2
  <1> QED
    BY <1>2, <1>5, <1>6 DEF Item

\* A requirement that is over leaves the list in order; it is done only at the end of
\* the path through the final artifact and its row.
LEMMA RequirementOver ==
    ASSUME IInv, run.pc # "idle", run.i \in Reqs, NEW s \in CoarseStates, NEW o \in Outcomes,
           s = "done" => run.pc = "done",
           SetState(run.i, s), Advance(o), UNCHANGED <<orch, file, runs>>
    PROVE  IInv'
  <1>1. TypeOK
    BY DEF IInv, FinalsHold
  <1>2. /\ reqs' \in Requirements /\ reqs'.since = reqs.since
        /\ reqs'.items[run.i].state = s
        /\ \A q \in Reqs \ {run.i} : reqs'.items[q] = reqs.items[q]
    BY <1>1, SetStateFacts
  <1>3. /\ run' \in Run /\ run'.pc = "begin" /\ run'.rows = {} /\ run'.i = After(run.i)
        /\ \A r \in Reqs : run.i < r /\ r < run'.i => reqs.items[r].state = "absent"
    BY <1>1, AdvanceFacts
  <1>4. /\ orch.status = "running" /\ orch.run = runs /\ runs \in Nat
        /\ reqs.since \in Nat /\ reqs.since < runs /\ Passed
    BY RunningFacts
  <1>5. TypeOK'
    BY <1>1, <1>2, <1>3 DEF TypeOK
  <1>6. DoneIsBacked'
    <2> SUFFICES ASSUME NEW r \in Reqs, reqs'.items[r].state = "done"
                 PROVE  /\ Final(r).run > reqs.since
                        /\ Final(r).from[1] # "review" => file[Final(r).from].run = Final(r).run
      BY <1>2 DEF DoneIsBacked, Final
    <2>1. CASE r = run.i
      <3>1. Fresh(FinalName(r)) /\ Final(r).from = run.ref /\ (run.ref[1] # "review" => Fresh(run.ref))
        BY <1>2, <2>1 DEF IInv, RunIsBacked, Reviewing
      <3> QED
        BY <1>4, <3>1 DEF Fresh, Final, FinalName
    <2>2. CASE r # run.i
      BY <1>2, <2>2 DEF IInv, FinalsHold, DoneIsBacked
    <2> QED
      BY <2>1, <2>2
  <1>7. DoneIsOffered' /\ RowsNameTheirFiles' /\ FilesAreNamed' /\ RowsAreNamed'
    BY <1>3, <1>4 DEF IInv, FinalsHold, DoneIsOffered, RowsNameTheirFiles, FilesAreNamed, RowsAreNamed
  <1>8. Passed'
    <2> SUFFICES ASSUME NEW r \in Reqs, r < run'.i, reqs'.items[r].state = "done"
                 PROVE  HasFinalRow(r)
      BY DEF Passed, HasFinalRow
    <2>1. CASE r = run.i
      BY <1>2, <2>1 DEF IInv, RunIsBacked
    <2>2. CASE r < run.i
      BY <1>2, <1>4, <2>2 DEF Passed, Reqs
    <2>3. CASE run.i < r
      BY <1>2, <1>3, <2>3 DEF Reqs
    <2> QED
      BY <2>1, <2>2, <2>3 DEF Reqs
  <1>9. RunIsBacked'
    BY <1>2, <1>3, <1>4, <1>8 DEF RunIsBacked, Reviewing
  <1> QED
    BY <1>5, <1>6, <1>7, <1>9 DEF IInv, FinalsHold

\* A step that changes nothing but the locals of the run, or the state of a
\* requirement that is not done afterwards.
LEMMA FilesStay ==
    ASSUME IInv, UNCHANGED <<orch, file, runs>>, reqs'.since = reqs.since,
           \A r \in Reqs : reqs'.items[r].state = "done" => reqs.items[r].state = "done",
           orch.status = "running" \/ UNCHANGED reqs
    PROVE  DoneIsBacked' /\ DoneIsOffered' /\ RowsNameTheirFiles' /\ FilesAreNamed'
  <1>1. DoneIsBacked' /\ RowsNameTheirFiles' /\ FilesAreNamed'
    BY DEF IInv, FinalsHold, DoneIsBacked, Final, RowsNameTheirFiles, FilesAreNamed
  <1>2. DoneIsOffered'
    BY DEF IInv, FinalsHold, DoneIsOffered, Offered, Final
  <1> QED
    BY <1>1, <1>2

\* A file written for the running requirement disturbs no row, no final artifact of a
\* requirement that is done, and nothing else that is fresh.
LEMMA FileWritten ==
    ASSUME IInv, run.pc \notin {"idle", "begin"}, NEW f \in FileNames, NEW from \in FileNames \cup {NoFile},
           f[1] # "review", Carries(f) => f[3] = run.i, f[1] = "final" => IsSource(from, run.i),
           WriteFile(f, from), UNCHANGED <<reqs, orch, runs>>
    PROVE  /\ file' \in [FileNames -> Content]
           /\ DoneIsBacked' /\ DoneIsOffered' /\ RowsNameTheirFiles' /\ FilesAreNamed'
           /\ \A g \in FileNames : g = f \/ Fresh(g) => file'[g].run = runs
  <1>1. TypeOK
    BY DEF IInv, FinalsHold
  <1>2. /\ run.i \in Reqs /\ reqs.items[run.i].state = "in_progress"
        /\ runs \in Nat \ {0} /\ orch.run = runs /\ orch.status = "running" /\ reqs.since \in Nat
    BY RunningFacts
  <1>3. /\ file' \in [FileNames -> Content]
        /\ file'[f] = [req |-> run.i, run |-> runs, from |-> from]
        /\ \A g \in FileNames \ {f} : file'[g] = file[g]
    BY <1>1, <1>2, WriteFileFacts
  <1>4. DoneIsBacked'
    <2> SUFFICES ASSUME NEW r \in Reqs, reqs.items[r].state = "done"
                 PROVE  LET from1 == Final(r)'.from IN
                        /\ Final(r)'.run > reqs.since
                        /\ from1[1] # "review" => file'[from1].run = Final(r)'.run
      BY DEF DoneIsBacked
    <2>1. r # run.i
      BY <1>2
    <2>2. FinalName(r) \in FileNames /\ FinalName(r) # f
      BY <2>1, NameFacts DEF FinalName, Carries
    <2>3. Final(r)' = Final(r)
      BY <1>3, <2>2 DEF Final, FinalName
    <2>4. /\ Final(r).run > reqs.since
          /\ Final(r).from[1] # "review" => file[Final(r).from].run = Final(r).run
      BY DEF IInv, FinalsHold, DoneIsBacked
    <2>5. Final(r).run # 0
      BY <1>1, <1>2, <2>2, <2>4 DEF Final, FinalName, TypeOK, Content
    <2>6. IsSource(Final(r).from, r)
      <3>1. FinalName(r)[1] = "final" /\ FinalName(r)[3] = r
        BY DEF FinalName
      <3>2. file[FinalName(r)].run # 0
        BY <2>5 DEF Final, FinalName
      <3> QED
        BY <2>2, <3>1, <3>2 DEF IInv, FilesAreNamed, Final, FinalName
    <2>7. Final(r).from[1] # "review" => file'[Final(r).from] = file[Final(r).from]
      BY <1>3, <2>1, <2>6 DEF IsSource, Carries
    <2> QED
      BY <2>3, <2>4, <2>7
  <1>5. DoneIsOffered'
    BY <1>2 DEF DoneIsOffered
  <1>6. RowsNameTheirFiles'
    <2> SUFFICES ASSUME NEW row \in orch.rows
                 PROVE  /\ file'[row.file].run = runs
                        /\ row.file[1] # "directive" => file'[row.file].req = row.req
      BY <1>2 DEF RowsNameTheirFiles
    <2>1. /\ file[row.file].run = runs
          /\ row.file[1] # "directive" => file[row.file].req = row.req
          /\ row.file[1] # "review" /\ (Carries(row.file) => row.req = row.file[3])
      BY <1>2 DEF IInv, FinalsHold, RowsNameTheirFiles, RowsAreNamed
    <2>2. row.file \in FileNames
      BY <1>1 DEF TypeOK, Orch, Row
    <2>3. CASE row.file = f
      BY <1>3, <2>1, <2>2, <2>3, NameFacts
    <2>4. CASE row.file # f
      BY <1>3, <2>1, <2>2, <2>4
    <2> QED
      BY <2>3, <2>4
  <1>7. FilesAreNamed'
    <2> SUFFICES ASSUME NEW g \in FileNames
                 PROVE  /\ file'[g].run <= runs
                        /\ g[1] = "review" => file'[g].run = 0
                        /\ Carries(g) /\ file'[g].run # 0 => file'[g].req = g[3]
                        /\ g[1] = "final" /\ file'[g].run # 0 => IsSource(file'[g].from, g[3])
      BY DEF FilesAreNamed, Carries, IsSource
    <2>1. CASE g = f
      BY <1>2, <1>3, <2>1 DEF Carries
    <2>2. CASE g # f
      BY <1>3, <2>2 DEF IInv, FilesAreNamed
    <2> QED
      BY <2>1, <2>2
  <1>8. \A g \in FileNames : g = f \/ Fresh(g) => file'[g].run = runs
    BY <1>2, <1>3 DEF Fresh
  <1> QED
    BY <1>3, <1>4, <1>5, <1>6, <1>7, <1>8

\* Rows of fresh files are added.
LEMMA RowsWritten ==
    ASSUME IInv, run.pc # "idle", NEW rows \in SUBSET Row,
           \A row \in rows : /\ Fresh(row.file) /\ row.file[1] # "review"
                             /\ Carries(row.file) => row.req = row.file[3],
           WriteRows(rows), UNCHANGED <<reqs, file, runs>>
    PROVE  /\ orch' \in Orch /\ orch'.status = "running" /\ orch'.run = runs
           /\ orch'.rows = orch.rows \cup rows
           /\ DoneIsBacked' /\ DoneIsOffered' /\ RowsNameTheirFiles' /\ FilesAreNamed'
           /\ \A row \in orch'.rows : /\ row.file[1] # "review"
                                      /\ Carries(row.file) => row.req = row.file[3]
           /\ \A r \in Reqs : HasFinalRow(r) => HasFinalRow(r)'
  <1>1. /\ orch \in Orch /\ orch.status = "running" /\ orch.run = runs /\ runs \in Nat \ {0}
    BY RunningFacts
  <1>2. /\ orch' \in Orch /\ orch'.status = "running" /\ orch'.run = runs
        /\ orch'.rows = orch.rows \cup rows
    BY <1>1 DEF WriteRows, Orch
  <1>3. DoneIsBacked' /\ DoneIsOffered' /\ FilesAreNamed'
    BY <1>2 DEF IInv, FinalsHold, DoneIsBacked, Final, DoneIsOffered, FilesAreNamed
  <1>4. \A row \in orch'.rows : row.file[1] # "review" /\ (Carries(row.file) => row.req = row.file[3])
    BY <1>2 DEF IInv, RowsAreNamed
  <1>5. RowsNameTheirFiles'
    <2> SUFFICES ASSUME NEW row \in orch'.rows
                 PROVE  /\ file[row.file].run = runs
                        /\ row.file[1] # "directive" => file[row.file].req = row.req
      BY <1>2 DEF RowsNameTheirFiles
    <2>1. CASE row \in orch.rows
      BY <1>1, <2>1 DEF IInv, FinalsHold, RowsNameTheirFiles
    <2>2. CASE row \in rows
      <3>1. row.file \in FileNames /\ file[row.file].run = runs
        BY <2>2 DEF Row, Fresh
      <3>2. Carries(row.file) => file[row.file].req = row.file[3]
        BY <1>1, <3>1 DEF IInv, FilesAreNamed
      <3> QED
        BY <1>4, <3>1, <3>2, NameFacts
    <2> QED
      BY <1>2, <2>1, <2>2
  <1>6. \A r \in Reqs : HasFinalRow(r) => HasFinalRow(r)'
    BY <1>2 DEF HasFinalRow
  <1> QED
    BY <1>2, <1>3, <1>4, <1>5, <1>6

LEMMA BeginStep == IInv /\ Begin => IInv'
  <1> SUFFICES ASSUME IInv, Begin PROVE IInv'
    OBVIOUS
  <1> DEFINE item == reqs.items[run.i]
             served == item.cap = "supported" \/ (item.cap = "hub_only" /\ run.hub /\ run.gate)
  <1>1. TypeOK /\ run.pc = "begin" /\ run.i \in Reqs /\ UNCHANGED <<orch, file, runs>>
    BY OrchestrationAssumption DEF Begin, IInv, FinalsHold, TypeOK, Run, Reqs
  <1>2. CASE served
    <2>1. SetState(run.i, "in_progress") /\ run' = [run EXCEPT !.pc = "execute"]
      BY <1>2 DEF Begin
    <2>2. /\ reqs' \in Requirements /\ reqs'.since = reqs.since
          /\ reqs'.items[run.i].state = "in_progress"
          /\ \A q \in Reqs \ {run.i} : reqs'.items[q] = reqs.items[q]
      BY <1>1, <2>1, SetStateFacts DEF CoarseStates
    <2>3. run' \in Run /\ run'.pc = "execute" /\ run'.i = run.i /\ run'.rows = {} /\ run.rows = {}
      BY <1>1, <2>1 DEF IInv, RunIsBacked, Reviewing, TypeOK, Run
    <2>4. /\ orch.status = "running" /\ orch.run = runs /\ runs \in Nat
          /\ reqs.since \in Nat /\ reqs.since < runs /\ Passed
      BY <1>1, RunningFacts
    <2>5. \A r \in Reqs : reqs'.items[r].state = "done" => reqs.items[r].state = "done"
      BY <2>2
    <2>6. DoneIsBacked' /\ DoneIsOffered' /\ RowsNameTheirFiles' /\ FilesAreNamed'
      BY <1>1, <2>2, <2>4, <2>5, FilesStay
    <2>7. TypeOK' /\ RowsAreNamed'
      BY <1>1, <2>2, <2>3 DEF TypeOK, IInv, RowsAreNamed
    <2>8. RunIsBacked'
      BY <1>1, <2>2, <2>3, <2>4, <2>5 DEF RunIsBacked, Reviewing, Passed, HasFinalRow
    <2> QED
      BY <2>6, <2>7, <2>8 DEF IInv, FinalsHold
  <1>3. CASE ~served
    <2>1. SetState(run.i, "blocked") /\ Advance("deferred")
      BY <1>3 DEF Begin
    <2> QED
      BY <1>1, <2>1, RequirementOver DEF CoarseStates, Outcomes
  <1> QED
    BY <1>2, <1>3

LEMMA ExecuteStep == IInv /\ Execute => IInv'
  <1> SUFFICES ASSUME IInv, Execute PROVE IInv'
    OBVIOUS
  <1>1. /\ TypeOK /\ run.pc = "execute" /\ UNCHANGED <<orch, runs>>
        /\ run \in Run /\ orch.status = "running" /\ orch.run = runs /\ runs \in Nat
        /\ reqs.since \in Nat /\ reqs.since < runs /\ Passed
        /\ run.i \in Reqs /\ reqs.items[run.i].state = "in_progress"
    BY RunningFacts DEF Execute, IInv, FinalsHold
  <1>2. CASE /\ WriteFile(<<"fanout", 1, run.i>>, NoFile) /\ UNCHANGED reqs
             /\ run' = [run EXCEPT !.pc = "row"]
    <2> DEFINE f == <<"fanout", 1, run.i>>
    <2>1. f \in FileNames /\ f[1] # "review" /\ f[1] # "final" /\ f[3] = run.i
      BY <1>1, NameFacts
    <2>2. run' \in Run /\ run'.pc = "row" /\ run'.i = run.i /\ run'.rows = {} /\ run.rows = {}
      BY <1>1, <1>2 DEF IInv, RunIsBacked, Reviewing, Run
    <2>3. /\ file' \in [FileNames -> Content] /\ Fresh(f)'
          /\ DoneIsBacked' /\ DoneIsOffered' /\ RowsNameTheirFiles' /\ FilesAreNamed'
      <3> HIDE DEF f
      <3>1. WriteFile(f, NoFile)
        BY <1>2 DEF f
      <3>2. /\ file' \in [FileNames -> Content]
            /\ DoneIsBacked' /\ DoneIsOffered' /\ RowsNameTheirFiles' /\ FilesAreNamed'
            /\ \A g \in FileNames : g = f \/ Fresh(g) => file'[g].run = runs
        BY <1>1, <1>2, <2>1, <3>1, FileWritten
      <3>3. f' = f
        BY <2>2 DEF f
      <3> QED
        BY <1>1, <2>1, <3>2, <3>3 DEF Fresh
    <2>4. TypeOK' /\ RowsAreNamed'
      BY <1>1, <1>2, <2>2, <2>3 DEF TypeOK, IInv, RowsAreNamed
    <2>5. RunIsBacked'
      BY <1>1, <1>2, <2>2, <2>3 DEF RunIsBacked, Reviewing, Passed, HasFinalRow, Fresh
    <2> QED
      BY <2>3, <2>4, <2>5 DEF IInv, FinalsHold
  <1>3. CASE /\ SetState(run.i, "blocked") /\ UNCHANGED file
             /\ Advance("deferred") \/ Advance("blocked")
    BY <1>1, <1>3, RequirementOver DEF CoarseStates, Outcomes
  <1> QED
    BY <1>2, <1>3 DEF Execute

LEMMA WriteFanoutRowStep == IInv /\ WriteFanoutRow => IInv'
  <1> SUFFICES ASSUME IInv, WriteFanoutRow PROVE IInv'
    OBVIOUS
  <1> DEFINE f == <<"fanout", 1, run.i>>
             rows == {RowFor(f, "fanout")}
  <1>1. /\ TypeOK /\ run.pc = "row" /\ UNCHANGED <<reqs, file, runs>> /\ WriteRows(rows)
        /\ run' = [run EXCEPT !.pc = "review", !.ref = f]
        /\ run \in Run /\ orch.status = "running" /\ orch.run = runs /\ runs \in Nat
        /\ reqs.since \in Nat /\ reqs.since < runs /\ Passed
        /\ run.i \in Reqs /\ reqs.items[run.i].state = "in_progress"
    BY RunningFacts DEF WriteFanoutRow, IInv, FinalsHold
  <1>2. f \in FileNames /\ f[1] = "fanout" /\ f[3] = run.i
    BY <1>1, NameFacts
  <1>3. run' \in Run /\ run'.pc = "review" /\ run'.i = run.i /\ run'.rows = {} /\ run.rows = {} /\ run'.ref = f
    BY <1>1, <1>2 DEF IInv, RunIsBacked, Reviewing, Run
  <1>4. Fresh(f)
    BY <1>1 DEF IInv, RunIsBacked
  <1>5. rows \in SUBSET Row
    BY <1>1, <1>2 DEF RowFor, Row, Ends
  <1>6. \A row \in rows : /\ Fresh(row.file) /\ row.file[1] # "review"
                          /\ Carries(row.file) => row.req = row.file[3]
    BY <1>2, <1>4 DEF RowFor
  <1> HIDE DEF rows, f
  <1>7. /\ orch' \in Orch /\ orch'.status = "running" /\ orch'.run = runs
        /\ DoneIsBacked' /\ DoneIsOffered' /\ RowsNameTheirFiles' /\ FilesAreNamed'
        /\ \A row \in orch'.rows : /\ row.file[1] # "review"
                                   /\ Carries(row.file) => row.req = row.file[3]
        /\ \A r \in Reqs : HasFinalRow(r) => HasFinalRow(r)'
    BY <1>1, <1>5, <1>6, RowsWritten
  <1>8. TypeOK' /\ RowsAreNamed'
    BY <1>1, <1>3, <1>7 DEF TypeOK, RowsAreNamed
  <1>9. RunIsBacked'
    BY <1>1, <1>2, <1>3, <1>4, <1>7 DEF RunIsBacked, Reviewing, Passed, IsSource, Fresh
  <1> QED
    BY <1>7, <1>8, <1>9 DEF IInv, FinalsHold

LEMMA ResultFacts ==
    ASSUME run \in Run, NEW v \in Verdicts \ {"none"}, NEW by \in Ends, NEW rows \in SUBSET Row,
           NEW ref \in FileNames, Result(v, by, rows, ref)
    PROVE  /\ run' \in Run /\ run'.pc = "merge" /\ run'.i = run.i
           /\ run'.rows = rows /\ run'.ref = ref /\ run'.verdict = v
  BY DEF Result, Run

\* The locals after a step inside the critique loop: the rows and the artifact are fresh.
LEMMA LoopGoesOn ==
    ASSUME IInv, run.pc \notin {"idle", "begin"}, UNCHANGED <<reqs, orch, runs>>,
           run' \in Run, run'.i = run.i, run'.pc \in {"review", "revise", "merge"},
           IsSource(run'.ref, run.i), run'.ref[1] # "review" => file'[run'.ref].run = runs,
           run'.pc = "revise" => run'.round < MaxRounds,
           run'.pc = "merge" => run'.verdict # "none",
           \A row \in run'.rows : /\ file'[row.file].run = runs
                                  /\ row.file[1] # "review"
                                  /\ Carries(row.file) => row.req = row.file[3]
    PROVE  RowsAreNamed' /\ RunIsBacked'
  <1>1. /\ orch.status = "running" /\ orch.run = runs /\ runs \in Nat
        /\ reqs.since \in Nat /\ reqs.since < runs /\ Passed
        /\ run.i \in Reqs /\ reqs.items[run.i].state = "in_progress"
    BY RunningFacts
  <1>2. RowsAreNamed'
    BY DEF IInv, RowsAreNamed
  <1>3. Passed'
    BY <1>1 DEF Passed, HasFinalRow
  <1>4. RunIsBacked'
    BY <1>1, <1>3 DEF RunIsBacked, Reviewing, Fresh, IsSource
  <1> QED
    BY <1>2, <1>4

\* What the critique loop has in its locals.
LEMMA LoopFacts ==
    ASSUME IInv, run.pc \in Reviewing
    PROVE  /\ TypeOK /\ run \in Run /\ run.i \in Reqs
           /\ IsSource(run.ref, run.i) /\ run.ref \in FileNames
           /\ run.ref[1] # "review" => Fresh(run.ref)
           /\ \A row \in run.rows : /\ row.file \in FileNames /\ Fresh(row.file)
                                    /\ row.file[1] # "review"
                                    /\ Carries(row.file) => row.req = row.file[3]
           /\ run.round \in 1..MaxRounds /\ run.rows \in SUBSET Row
  <1>1. TypeOK /\ run \in Run /\ run.i \in Reqs
    BY RunningFacts DEF Reviewing, IInv, FinalsHold
  <1>2. run.rows \in SUBSET Row /\ run.round \in 1..MaxRounds
    BY <1>1 DEF Run
  <1>3. \A row \in run.rows : row.file \in FileNames
    BY <1>2 DEF Row
  <1> QED
    BY <1>1, <1>2, <1>3 DEF IInv, RunIsBacked, RowsAreNamed, IsSource

LEMMA ReviewEndsStep == IInv /\ ReviewEnds => IInv'
  <1> SUFFICES ASSUME IInv, ReviewEnds PROVE IInv'
    OBVIOUS
  <1>1. run.pc = "review" /\ UNCHANGED <<reqs, orch, file, runs>>
    BY DEF ReviewEnds
  <1> USE LoopFacts DEF Reviewing
  <1>2. <<"review", run.round, 0>> \in FileNames
    BY <1>1, NameFacts
  <1>3. PICK v \in Verdicts \ {"none"}, by \in Ends, rows \in {run.rows, {}}, ref \in {run.ref, <<"review", run.round, 0>>} :
          Result(v, by, rows, ref)
    BY DEF ReviewEnds, Verdicts, Ends
  <1>4. /\ run' \in Run /\ run'.pc = "merge" /\ run'.i = run.i /\ run'.rows = rows /\ run'.ref = ref
        /\ run'.verdict # "none"
    BY <1>1, <1>2, <1>3, ResultFacts
  <1>5. /\ IsSource(ref, run.i) /\ (ref[1] # "review" => Fresh(ref))
    BY <1>1, <1>2 DEF IsSource
  <1>6. RowsAreNamed' /\ RunIsBacked'
    <2>1. ref[1] # "review" => file'[ref].run = runs
      BY <1>1, <1>5 DEF Fresh
    <2>2. \A row \in rows : /\ file'[row.file].run = runs
                            /\ row.file[1] # "review"
                            /\ Carries(row.file) => row.req = row.file[3]
      BY <1>1 DEF Fresh
    <2> QED
      BY <1>1, <1>4, <1>5, <2>1, <2>2, LoopGoesOn
  <1>7. DoneIsBacked' /\ DoneIsOffered' /\ RowsNameTheirFiles' /\ FilesAreNamed'
    BY <1>1, FilesStay
  <1> QED
    BY <1>1, <1>4, <1>6, <1>7 DEF IInv, FinalsHold, TypeOK

LEMMA DirectStep == IInv /\ Direct => IInv'
  <1> SUFFICES ASSUME IInv, Direct PROVE IInv'
    OBVIOUS
  <1> DEFINE f == <<"directive", run.round, 0>>
             rows == run.rows \cup {RowFor(f, "in_progress")}
  <1>1. run.pc = "review" /\ WriteFile(f, NoFile) /\ UNCHANGED <<reqs, orch, runs>>
    BY DEF Direct
  <1> USE LoopFacts DEF Reviewing
  <1>2. f \in FileNames /\ f[1] = "directive"
    BY <1>1, NameFacts
  <1>3. rows \in SUBSET Row
    BY <1>1, <1>2 DEF RowFor, Row, Ends
  <1>4. \A row \in rows : row \in run.rows \/ row = [file |-> f, req |-> run.i, by |-> "in_progress"]
    BY DEF RowFor
  <1>5. \/ \E v \in Verdicts \ {"none"}, by \in Ends : Result(v, by, rows, run.ref)
        \/ run.round < MaxRounds /\ run' = [run EXCEPT !.pc = "revise", !.rows = rows]
    BY DEF Direct, Verdicts, Ends
  <1>6. /\ run' \in Run /\ run'.pc \in {"merge", "revise"} /\ run'.i = run.i
        /\ run'.rows = rows /\ run'.ref = run.ref
        /\ run'.pc = "revise" => run'.round < MaxRounds
        /\ run'.pc = "merge" => run'.verdict # "none"
    <2>1. CASE \E v \in Verdicts \ {"none"}, by \in Ends : Result(v, by, rows, run.ref)
      BY <1>1, <1>3, <2>1, ResultFacts
    <2>2. CASE run.round < MaxRounds /\ run' = [run EXCEPT !.pc = "revise", !.rows = rows]
      BY <1>1, <1>3, <2>2 DEF Run
    <2> QED
      BY <1>5, <2>1, <2>2
  <1> HIDE DEF f, rows
  <1>7. /\ file' \in [FileNames -> Content]
        /\ DoneIsBacked' /\ DoneIsOffered' /\ RowsNameTheirFiles' /\ FilesAreNamed'
        /\ \A g \in FileNames : g = f \/ Fresh(g) => file'[g].run = runs
    BY <1>1, <1>2, FileWritten DEF Carries
  <1>8. RowsAreNamed' /\ RunIsBacked'
    <2>1. \A row \in rows : /\ file'[row.file].run = runs
                            /\ row.file[1] # "review"
                            /\ Carries(row.file) => row.req = row.file[3]
      BY <1>1, <1>2, <1>4, <1>7 DEF Carries
    <2>2. run'.ref[1] # "review" => file'[run'.ref].run = runs
      BY <1>1, <1>6, <1>7
    <2> QED
      BY <1>1, <1>6, <2>1, <2>2, LoopGoesOn
  <1> QED
    BY <1>1, <1>6, <1>7, <1>8 DEF IInv, FinalsHold, TypeOK

LEMMA ReviseStep == IInv /\ Revise => IInv'
  <1> SUFFICES ASSUME IInv, Revise PROVE IInv'
    OBVIOUS
  <1> DEFINE f == <<"revision", run.round, run.i>>
  <1>1. run.pc = "revise" /\ UNCHANGED <<reqs, orch, runs>>
    BY DEF Revise
  <1> USE LoopFacts DEF Reviewing
  <1>2. f \in FileNames /\ f[1] = "revision" /\ f[3] = run.i
    BY <1>1, NameFacts
  <1>3. CASE /\ WriteFile(f, NoFile)
             /\ \/ run' = [run EXCEPT !.pc = "review", !.ref = f, !.round = run.round + 1]
                \/ Result("delivered", "marginal", run.rows, f)
    <2>1. /\ run' \in Run /\ run'.pc \in {"review", "merge"} /\ run'.i = run.i
          /\ run'.rows = run.rows /\ run'.ref = f
          /\ run'.pc = "merge" => run'.verdict # "none"
      <3>1. CASE run' = [run EXCEPT !.pc = "review", !.ref = f, !.round = run.round + 1]
        <4>1. run.round + 1 \in 1..MaxRounds
          BY <1>1, OrchestrationAssumption DEF IInv, RunIsBacked
        <4>2. /\ run' \in Run /\ run'.pc = "review" /\ run'.i = run.i
              /\ run'.rows = run.rows /\ run'.ref = f
          BY <1>1, <1>2, <3>1, <4>1 DEF Run
        <4> QED
          BY <4>2
      <3>2. CASE Result("delivered", "marginal", run.rows, f)
        <4>1. "delivered" \in Verdicts \ {"none"} /\ "marginal" \in Ends
          BY DEF Verdicts, Ends
        <4>2. run \in Run /\ run.rows \in SUBSET Row
          BY <1>1
        <4>3. /\ run' \in Run /\ run'.pc = "merge" /\ run'.i = run.i
              /\ run'.rows = run.rows /\ run'.ref = f /\ run'.verdict = "delivered"
          BY <1>2, <3>2, <4>1, <4>2, ResultFacts
        <4> QED
          BY <4>3
      <3> QED
        BY <1>3, <3>1, <3>2
    <2> HIDE DEF f
    <2>2. /\ file' \in [FileNames -> Content]
          /\ DoneIsBacked' /\ DoneIsOffered' /\ RowsNameTheirFiles' /\ FilesAreNamed'
          /\ \A g \in FileNames : g = f \/ Fresh(g) => file'[g].run = runs
      BY <1>1, <1>2, <1>3, FileWritten
    <2>3. IsSource(f, run.i)
      BY <1>2 DEF IsSource
    <2>4. RowsAreNamed' /\ RunIsBacked'
      BY <1>1, <1>2, <2>1, <2>2, <2>3, LoopGoesOn
    <2> QED
      BY <1>1, <2>1, <2>2, <2>4 DEF IInv, FinalsHold, TypeOK
  <1>4. CASE /\ UNCHANGED file
             /\ \E v \in Verdicts \ {"none"}, by \in Ends : Result(v, by, run.rows, run.ref)
    <2>1. /\ run' \in Run /\ run'.pc = "merge" /\ run'.i = run.i
          /\ run'.rows = run.rows /\ run'.ref = run.ref /\ run'.verdict # "none"
      BY <1>1, <1>4, ResultFacts
    <2>2. DoneIsBacked' /\ DoneIsOffered' /\ RowsNameTheirFiles' /\ FilesAreNamed'
      BY <1>1, <1>4, FilesStay
    <2>3. RowsAreNamed' /\ RunIsBacked'
      <3>1. /\ run'.ref[1] # "review" => file'[run'.ref].run = runs
            /\ \A row \in run'.rows : file'[row.file].run = runs
        BY <1>1, <1>4, <2>1 DEF Fresh
      <3> QED
        BY <1>1, <2>1, <3>1, LoopGoesOn
    <2> QED
      BY <1>1, <1>4, <2>1, <2>2, <2>3 DEF IInv, FinalsHold, TypeOK
  <1> QED
    BY <1>3, <1>4 DEF Revise, Verdicts, Ends

LEMMA MergeStep == IInv /\ Merge => IInv'
  <1> SUFFICES ASSUME IInv, Merge PROVE IInv'
    OBVIOUS
  <1>1. run.pc = "merge" /\ WriteRows(run.rows) /\ UNCHANGED <<reqs, file, runs>>
    BY DEF Merge
  <1>2. /\ TypeOK /\ run \in Run /\ run.i \in Reqs /\ run.rows \in SUBSET Row
        /\ IsSource(run.ref, run.i) /\ (run.ref[1] # "review" => Fresh(run.ref))
        /\ \A row \in run.rows : /\ Fresh(row.file) /\ row.file[1] # "review"
                                 /\ Carries(row.file) => row.req = row.file[3]
    BY <1>1, LoopFacts DEF Reviewing
  <1>3. /\ runs \in Nat /\ reqs.since \in Nat /\ reqs.since < runs /\ Passed
        /\ reqs.items[run.i].state = "in_progress"
    BY <1>1, RunningFacts
  <1>4. /\ orch' \in Orch /\ orch'.status = "running" /\ orch'.run = runs
        /\ DoneIsBacked' /\ DoneIsOffered' /\ RowsNameTheirFiles' /\ FilesAreNamed'
        /\ \A row \in orch'.rows : /\ row.file[1] # "review"
                                   /\ Carries(row.file) => row.req = row.file[3]
        /\ \A r \in Reqs : HasFinalRow(r) => HasFinalRow(r)'
    BY <1>1, <1>2, RowsWritten
  <1>5. CASE Advance("deferred")
    <2>1. /\ run' \in Run /\ run'.pc = "begin" /\ run'.rows = {} /\ run'.i = After(run.i)
          /\ \A r \in Reqs : run.i < r /\ r < run'.i => reqs.items[r].state = "absent"
      BY <1>2, <1>5, AdvanceFacts DEF Outcomes
    <2>2. Passed'
      <3> SUFFICES ASSUME NEW r \in Reqs, r < run'.i, reqs.items[r].state = "done"
                   PROVE  HasFinalRow(r)'
        BY <1>1 DEF Passed
      <3>1. r < run.i
        BY <1>2, <1>3, <2>1 DEF Reqs
      <3> QED
        BY <1>3, <1>4, <3>1 DEF Passed
    <2>3. TypeOK' /\ RowsAreNamed'
      BY <1>1, <1>2, <1>4, <2>1 DEF TypeOK, RowsAreNamed
    <2>4. RunIsBacked'
      BY <1>1, <1>3, <1>4, <2>1, <2>2 DEF RunIsBacked, Reviewing
    <2> QED
      BY <1>4, <2>3, <2>4 DEF IInv, FinalsHold
  <1>6. CASE run' = [run EXCEPT !.pc = IF run.verdict = "failed" THEN "end" ELSE "final"]
    <2>1. /\ run' \in Run /\ run'.pc \in {"end", "final"} /\ run'.i = run.i
          /\ run'.rows = run.rows /\ run'.ref = run.ref
          /\ run'.pc = "final" => run'.verdict \in Outcomes
      <3>1. run.verdict # "none"
        BY <1>1 DEF IInv, RunIsBacked
      <3> QED
        BY <1>2, <1>6, <3>1 DEF Run, Verdicts, Outcomes
    <2>2. Passed'
      BY <1>1, <1>3, <1>4, <2>1 DEF Passed
    <2>3. TypeOK' /\ RowsAreNamed'
      BY <1>1, <1>2, <1>4, <2>1 DEF TypeOK, RowsAreNamed
    <2>4. RunIsBacked'
      BY <1>1, <1>2, <1>3, <1>4, <2>1, <2>2 DEF RunIsBacked, Reviewing, Fresh, IsSource
    <2> QED
      BY <1>4, <2>3, <2>4 DEF IInv, FinalsHold
  <1> QED
    BY <1>5, <1>6 DEF Merge

LEMMA WriteFinalStep == IInv /\ WriteFinal => IInv'
  <1> SUFFICES ASSUME IInv, WriteFinal PROVE IInv'
    OBVIOUS
  <1> DEFINE f == FinalName(run.i)
  <1>1. /\ run.pc = "final" /\ WriteFile(f, run.ref) /\ UNCHANGED <<reqs, orch, runs>>
        /\ run' = [run EXCEPT !.pc = "finalrow"]
    BY DEF WriteFinal, FinalName
  <1>2. /\ TypeOK /\ run \in Run /\ run.i \in Reqs /\ run.rows \in SUBSET Row
        /\ IsSource(run.ref, run.i) /\ run.ref \in FileNames /\ (run.ref[1] # "review" => Fresh(run.ref))
        /\ \A row \in run.rows : /\ row.file \in FileNames /\ Fresh(row.file) /\ row.file[1] # "review"
                                 /\ Carries(row.file) => row.req = row.file[3]
    BY <1>1, LoopFacts DEF Reviewing
  <1>3. /\ orch.status = "running" /\ orch.run = runs /\ runs \in Nat
        /\ reqs.since \in Nat /\ reqs.since < runs /\ Passed
        /\ reqs.items[run.i].state = "in_progress"
    BY <1>1, RunningFacts
  <1>4. /\ run' \in Run /\ run'.pc = "finalrow" /\ run'.i = run.i /\ run'.rows = run.rows /\ run'.ref = run.ref
        /\ run'.verdict = run.verdict /\ run.verdict \in Outcomes
    BY <1>1, <1>2 DEF Run, IInv, RunIsBacked
  <1>5. f \in FileNames /\ f[1] = "final" /\ f[3] = run.i
    BY <1>2, NameFacts DEF FinalName
  <1>6. f' = f
    BY <1>4 DEF FinalName
  <1> HIDE DEF f
  <1>7. /\ file' \in [FileNames -> Content]
        /\ DoneIsBacked' /\ DoneIsOffered' /\ RowsNameTheirFiles' /\ FilesAreNamed'
        /\ \A g \in FileNames : g = f \/ Fresh(g) => file'[g].run = runs
    BY <1>1, <1>2, <1>5, FileWritten
  <1>8. file'[f].from = run.ref
    <2>1. file'[f] = [req |-> run.i, run |-> runs, from |-> run.ref]
      BY <1>1, <1>2, <1>5, WriteFileFacts
    <2> QED
      BY <2>1
  <1>9. TypeOK' /\ RowsAreNamed'
    BY <1>1, <1>2, <1>4, <1>7 DEF TypeOK, IInv, RowsAreNamed
  <1>10. RunIsBacked'
    <2>1. Passed'
      BY <1>1, <1>3, <1>4 DEF Passed, HasFinalRow
    <2>2. Fresh(FinalName(run.i))' /\ Final(run.i)'.from = run'.ref
      BY <1>1, <1>4, <1>5, <1>6, <1>7, <1>8 DEF Fresh, Final, FinalName, f
    <2>3. /\ run'.ref[1] # "review" => Fresh(run.ref)'
          /\ \A row \in run'.rows : Fresh(row.file)'
          /\ IsSource(run.ref, run.i)'
      BY <1>1, <1>2, <1>4, <1>7 DEF Fresh, IsSource
    <2> QED
      BY <1>1, <1>2, <1>3, <1>4, <2>1, <2>2, <2>3 DEF RunIsBacked, Reviewing
  <1> QED
    BY <1>7, <1>9, <1>10 DEF IInv, FinalsHold

LEMMA WriteFinalRowStep == IInv /\ WriteFinalRow => IInv'
  <1> SUFFICES ASSUME IInv, WriteFinalRow PROVE IInv'
    OBVIOUS
  <1> DEFINE f == FinalName(run.i)
             row1 == RowFor(f, IF ReviewDeferred THEN "review_deferred" ELSE run.by)
  <1>1. /\ run.pc = "finalrow" /\ WriteRows({row1}) /\ UNCHANGED <<reqs, file, runs>>
        /\ run' = [run EXCEPT !.pc = "done"]
    BY DEF WriteFinalRow, FinalName
  <1>2. /\ TypeOK /\ run \in Run /\ run.i \in Reqs /\ run.rows \in SUBSET Row
        /\ IsSource(run.ref, run.i) /\ (run.ref[1] # "review" => Fresh(run.ref))
        /\ \A row \in run.rows : /\ Fresh(row.file) /\ row.file[1] # "review"
                                 /\ Carries(row.file) => row.req = row.file[3]
    BY <1>1, LoopFacts DEF Reviewing
  <1>3. /\ runs \in Nat /\ reqs.since \in Nat /\ reqs.since < runs /\ Passed
        /\ reqs.items[run.i].state = "in_progress"
    BY <1>1, RunningFacts
  <1>4. /\ run' \in Run /\ run'.pc = "done" /\ run'.i = run.i /\ run'.rows = run.rows /\ run'.ref = run.ref
        /\ run'.verdict = run.verdict /\ run.verdict \in Outcomes
    BY <1>1, <1>2 DEF Run, IInv, RunIsBacked
  <1>5. f \in FileNames /\ f[1] = "final" /\ f[3] = run.i
    BY <1>2, NameFacts DEF FinalName
  <1>6. Fresh(f) /\ Final(run.i).from = run.ref
    BY <1>1 DEF IInv, RunIsBacked
  <1>7. row1 \in Row /\ row1.file = f /\ row1.req = run.i
    BY <1>2, <1>5 DEF RowFor, Row, Ends, Run
  <1> HIDE DEF f, row1
  <1>8. /\ orch' \in Orch /\ orch'.status = "running" /\ orch'.run = runs
        /\ orch'.rows = orch.rows \cup {row1}
        /\ DoneIsBacked' /\ DoneIsOffered' /\ RowsNameTheirFiles' /\ FilesAreNamed'
        /\ \A row \in orch'.rows : /\ row.file[1] # "review"
                                   /\ Carries(row.file) => row.req = row.file[3]
        /\ \A r \in Reqs : HasFinalRow(r) => HasFinalRow(r)'
    <2>1. /\ {row1} \in SUBSET Row
          /\ \A row \in {row1} : /\ Fresh(row.file) /\ row.file[1] # "review"
                                 /\ Carries(row.file) => row.req = row.file[3]
      BY <1>5, <1>6, <1>7
    <2> QED
      BY <1>1, <2>1, RowsWritten
  <1>9. TypeOK' /\ RowsAreNamed'
    BY <1>1, <1>2, <1>4, <1>8 DEF TypeOK, RowsAreNamed
  <1>10. RunIsBacked'
    <2>1. Passed'
      BY <1>1, <1>3, <1>4, <1>8 DEF Passed
    <2>2. HasFinalRow(run.i)'
      BY <1>4, <1>5, <1>7, <1>8 DEF HasFinalRow
    <2>3. Fresh(FinalName(run.i))' /\ Final(run.i)'.from = run'.ref
      BY <1>1, <1>4, <1>6 DEF Fresh, Final, FinalName, f
    <2>4. /\ run'.ref[1] # "review" => Fresh(run.ref)'
          /\ \A row \in run'.rows : Fresh(row.file)'
          /\ IsSource(run.ref, run.i)'
      BY <1>1, <1>2, <1>4 DEF Fresh, IsSource
    <2> QED
      BY <1>1, <1>2, <1>3, <1>4, <1>8, <2>1, <2>2, <2>3, <2>4 DEF RunIsBacked, Reviewing
  <1> QED
    BY <1>8, <1>9, <1>10 DEF IInv, FinalsHold

LEMMA MarkDoneStep == IInv /\ MarkDone => IInv'
  <1> SUFFICES ASSUME IInv, MarkDone PROVE IInv'
    OBVIOUS
  <1>1. /\ run.pc = "done" /\ SetState(run.i, "done") /\ Advance(run.verdict)
        /\ UNCHANGED <<orch, file, runs>>
    BY DEF MarkDone
  <1>2. run.i \in Reqs
    BY <1>1, RunningFacts
  <1>3. run.verdict \in Outcomes
    BY <1>1 DEF IInv, RunIsBacked, Reviewing
  <1> QED
    BY <1>1, <1>2, <1>3, RequirementOver DEF CoarseStates

LEMMA MarkBlockedStep == IInv /\ MarkBlocked => IInv'
  <1> SUFFICES ASSUME IInv, MarkBlocked PROVE IInv'
    OBVIOUS
  <1>1. /\ run.pc = "end" /\ SetState(run.i, "blocked")
        /\ Advance("blocked") \/ Advance("deferred")
        /\ UNCHANGED <<orch, file, runs>>
    BY DEF MarkBlocked
  <1>2. run.i \in Reqs
    BY <1>1, RunningFacts
  <1> QED
    BY <1>1, <1>2, RequirementOver DEF CoarseStates, Outcomes

\* All requirements are behind the run, so what is done has its row.
LEMMA FinishStep == IInv /\ Finish => IInv'
  <1> SUFFICES ASSUME IInv, Finish PROVE IInv'
    OBVIOUS
  <1>1. /\ run.pc = "begin" /\ run.i > NReqs /\ run' = IdleRun /\ UNCHANGED <<reqs, file, runs>>
        /\ orch' = [orch EXCEPT !.status = RunStatus(run.out)]
    BY DEF Finish
  <1>2. /\ TypeOK /\ run \in Run /\ orch \in Orch /\ orch.run = runs /\ runs \in Nat
        /\ reqs.since \in Nat /\ reqs.since < runs /\ Passed
    BY <1>1, RunningFacts DEF IInv, FinalsHold
  <1>3. RunStatus(run.out) \in Outcomes
    BY DEF RunStatus, Outcomes
  <1>4. orch' \in Orch /\ orch'.rows = orch.rows /\ orch'.run = runs
    BY <1>1, <1>2, <1>3 DEF Orch
  <1>5. IdleRun \in Run
    BY OrchestrationAssumption DEF IdleRun, Run, Verdicts, Ends
  <1>6. DoneIsBacked' /\ RowsNameTheirFiles' /\ FilesAreNamed'
    BY <1>1, <1>2, <1>4 DEF IInv, FinalsHold, DoneIsBacked, Final, RowsNameTheirFiles, FilesAreNamed
  <1>7. DoneIsOffered'
    <2> SUFFICES ASSUME NEW r \in Reqs, reqs.items[r].state = "done"
                 PROVE  Final(r).run # 0 /\ \E row \in orch.rows : row.file[1] = "final" /\ row.req = r
      BY <1>1, <1>4 DEF DoneIsOffered, Offered, Final
    <2>1. r < run.i
      BY <1>1, <1>2, OrchestrationAssumption DEF Reqs, Run
    <2>2. HasFinalRow(r)
      BY <1>2, <2>1 DEF Passed
    <2>3. Final(r).run > reqs.since
      BY DEF IInv, FinalsHold, DoneIsBacked
    <2>4. Final(r).run \in Nat
      BY <1>2, NameFacts DEF Final, FinalName, TypeOK, Content
    <2> QED
      BY <1>2, <2>2, <2>3, <2>4 DEF HasFinalRow
  <1>8. TypeOK' /\ RowsAreNamed'
    BY <1>1, <1>2, <1>4, <1>5 DEF TypeOK, IInv, RowsAreNamed, IdleRun
  <1>9. RunIsBacked'
    BY <1>1, <1>2, <1>4 DEF RunIsBacked, IdleRun, Reviewing
  <1> QED
    BY <1>6, <1>7, <1>8, <1>9 DEF IInv, FinalsHold

LEMMA AbortStep == IInv /\ Abort => IInv'
  <1> SUFFICES ASSUME IInv, Abort PROVE IInv'
    OBVIOUS
  <1>1. run' = IdleRun /\ UNCHANGED <<reqs, orch, file, runs>>
    BY DEF Abort
  <1>2. DoneIsBacked' /\ DoneIsOffered' /\ RowsNameTheirFiles' /\ FilesAreNamed'
    BY <1>1, FilesStay
  <1>3. TypeOK' /\ RowsAreNamed'
    <2>1. IdleRun \in Run
      BY OrchestrationAssumption DEF IdleRun, Run, Verdicts, Ends
    <2> QED
      BY <1>1, <2>1 DEF IInv, FinalsHold, TypeOK, RowsAreNamed, IdleRun
  <1>4. RunIsBacked'
    BY <1>1 DEF IInv, RunIsBacked, IdleRun, Reviewing
  <1> QED
    BY <1>2, <1>3, <1>4 DEF IInv, FinalsHold

-----------------------------------------------------------------------------
(* The theorems.                                                           *)

LEMMA StutterStep == IInv /\ UNCHANGED vars => IInv'
  <1> SUFFICES ASSUME IInv, UNCHANGED vars PROVE IInv'
    OBVIOUS
  <1>1. DoneIsBacked' /\ DoneIsOffered' /\ RowsNameTheirFiles' /\ FilesAreNamed'
    BY FilesStay DEF vars
  <1>2. TypeOK' /\ RowsAreNamed' /\ RunIsBacked'
    BY DEF vars, IInv, FinalsHold, TypeOK, RowsAreNamed, RunIsBacked, Fresh, IsSource, Passed,
           HasFinalRow, Final
  <1> QED
    BY <1>1, <1>2 DEF IInv, FinalsHold

LEMMA Inductive == Spec => []IInv
  <1>1. IInv /\ [Next]_vars => IInv'
    BY ElicitStep, ConfirmStep, StartStep, BeginStep, ExecuteStep, WriteFanoutRowStep,
       ReviewEndsStep, DirectStep, ReviseStep, MergeStep, WriteFinalStep, WriteFinalRowStep,
       MarkDoneStep, MarkBlockedStep, FinishStep, AbortStep, StutterStep
    DEF Next, Proceed
  <1> QED
    BY InitHolds, <1>1, PTL DEF Spec

\* The requirements, the rows and the files of an orchestration tell one story, through
\* every death, re-elicitation and later run (orchestrate/engine.py, state.py): what is
\* done has its final artifact and is offered, and every row names a file of its run.
THEOREM FinalsAreKept == Spec => []FinalsHold
  <1>1. IInv => FinalsHold
    BY DEF IInv
  <1> QED
    BY Inductive, <1>1, PTL

-----------------------------------------------------------------------------
(* The length of a run.                                                    *)

\* Steps for one requirement: every round is a review and a revision.
PerReq == 2 * MaxRounds + 7

\* Steps for the requirements from i on.
Ahead(i) == PerReq * (NReqs + 1 - i)

\* Steps for what is left of the present requirement.
Here ==
    CASE run.pc = "execute" -> 2 * MaxRounds + 6
      [] run.pc = "row" -> 2 * MaxRounds + 5
      [] run.pc = "review" -> 2 * (MaxRounds - run.round) + 6
      [] run.pc = "revise" -> 2 * (MaxRounds - run.round) + 5
      [] run.pc = "merge" -> 4
      [] run.pc = "final" -> 3
      [] run.pc = "finalrow" -> 2
      [] run.pc \in {"done", "end"} -> 1

\* Steps to the end of the run.
StepsToGo ==
    CASE run.pc = "idle" -> 0
      [] run.pc = "begin" -> Ahead(run.i) + 1
      [] run.pc \notin {"idle", "begin"} -> Ahead(run.i + 1) + 1 + Here

\* The later the requirement, the less is ahead.
LEMMA AheadFacts ==
    /\ PerReq \in Nat
    /\ \A i \in 1..NReqs + 1 : Ahead(i) \in Nat /\ Ahead(i) <= PerReq * NReqs
    /\ \A i, j \in 1..NReqs + 1 : i <= j => Ahead(j) <= Ahead(i)
    /\ \A i \in 1..NReqs : Ahead(i) = Ahead(i + 1) + PerReq
  <1>1. PerReq \in Nat /\ NReqs \in Nat
    BY OrchestrationAssumption DEF PerReq
  <1>2. \A R, a, b \in Nat : R * (a + b) = R * a + R * b /\ R * a \in Nat /\ R * 1 = R
    OBVIOUS
  <1>3. \A R, a, b \in Nat : a <= b => R * a <= R * b
    <2> SUFFICES ASSUME NEW R \in Nat, NEW a \in Nat, NEW b \in Nat, a <= b
                 PROVE  R * a <= R * b
      OBVIOUS
    <2>1. PICK d \in Nat : b = a + d
      OBVIOUS
    <2>2. R * b = R * a + R * d /\ R * a \in Nat /\ R * d \in Nat
      BY <1>2, <2>1
    <2> QED
      BY <2>2
  <1>4. \A i \in 1..NReqs + 1 : NReqs + 1 - i \in Nat /\ NReqs + 1 - i <= NReqs
    BY <1>1
  <1>5. \A i \in 1..NReqs + 1 : Ahead(i) \in Nat /\ Ahead(i) <= PerReq * NReqs
    BY <1>1, <1>2, <1>3, <1>4 DEF Ahead
  <1>6. \A i, j \in 1..NReqs + 1 : i <= j => Ahead(j) <= Ahead(i)
    <2> SUFFICES ASSUME NEW i \in 1..NReqs + 1, NEW j \in 1..NReqs + 1, i <= j
                 PROVE  Ahead(j) <= Ahead(i)
      OBVIOUS
    <2>1. NReqs + 1 - j <= NReqs + 1 - i
      BY <1>1
    <2> QED
      BY <1>1, <1>3, <1>4, <2>1 DEF Ahead
  <1>7. \A i \in 1..NReqs : Ahead(i) = Ahead(i + 1) + PerReq
    <2> SUFFICES ASSUME NEW i \in 1..NReqs
                 PROVE  Ahead(i) = Ahead(i + 1) + PerReq
      OBVIOUS
    <2>1. PICK a \in Nat : a = NReqs - i
      BY <1>1
    <2>2. NReqs + 1 - i = a + 1 /\ NReqs + 1 - (i + 1) = a
      BY <1>1, <2>1
    <2>3. PerReq * (a + 1) = PerReq * a + PerReq
      BY <1>1, <1>2
    <2> QED
      BY <2>2, <2>3 DEF Ahead
  <1> QED
    BY <1>1, <1>5, <1>6, <1>7

\* The parts of the distance are numbers; something is left unless the run is over.
LEMMA ToGoFacts ==
    ASSUME IInv
    PROVE  /\ StepsToGo \in Nat /\ StepsToGo <= PerReq * NReqs + 1
           /\ StepsToGo = 0 <=> run.pc = "idle"
           /\ run.pc \notin {"idle", "begin"} =>
                /\ run.i \in Reqs /\ Here \in Nat /\ 1 <= Here /\ Here < PerReq
                /\ StepsToGo = Ahead(run.i + 1) + 1 + Here /\ Ahead(run.i + 1) \in Nat
  <1>1. /\ run \in Run
        /\ run.pc \notin {"idle", "begin"} => run.i \in Reqs
        /\ run.pc = "revise" => run.round < MaxRounds
    BY DEF IInv, FinalsHold, TypeOK, RunIsBacked
  <1>2. /\ run.round \in 1..MaxRounds /\ run.i \in 1..NReqs + 1
        /\ run.pc \in {"idle", "begin", "execute", "row", "review", "revise", "merge", "final",
                        "finalrow", "done", "end"}
    BY <1>1 DEF Run
  <1>3. MaxRounds \in Nat \ {0} /\ NReqs \in Nat \ {0}
    BY OrchestrationAssumption
  <1>4. PICK n \in Nat : n = PerReq /\ n = 2 * MaxRounds + 7
    BY <1>3 DEF PerReq
  <1>5. PICK total \in Nat : total = PerReq * NReqs
    BY <1>3, <1>4
  <1>6. CASE run.pc = "idle"
    BY <1>5, <1>6 DEF StepsToGo
  <1>7. CASE run.pc = "begin"
    <2>1. PICK a \in Nat : a = Ahead(run.i) /\ a <= total
      BY <1>2, <1>5, AheadFacts
    <2>2. StepsToGo = a + 1
      BY <1>7, <2>1 DEF StepsToGo
    <2>3. a + 1 \in Nat /\ a + 1 # 0 /\ a + 1 <= total + 1
      BY <2>1
    <2> QED
      BY <1>5, <1>7, <2>2, <2>3
  <1>8. CASE run.pc \notin {"idle", "begin"}
    <2>1. run.i \in 1..NReqs /\ run.i + 1 \in 1..NReqs + 1
      BY <1>1, <1>3, <1>8 DEF Reqs
    <2>2. PICK a \in Nat : a = Ahead(run.i + 1) /\ a + n <= total
      BY <1>2, <1>4, <1>5, <2>1, AheadFacts
    <2>3. PICK m \in Nat : m = MaxRounds - run.round
      BY <1>2, <1>3
    <2>4. m < MaxRounds
      BY <1>2, <1>3, <2>3
    <2>5. PICK h \in Nat : h = Here /\ 1 <= h /\ h < n
      <3>1. \/ Here \in {1, 2, 3, 4}
            \/ Here = 2 * MaxRounds + 6
            \/ Here = 2 * MaxRounds + 5
            \/ Here = 2 * m + 6
            \/ Here = 2 * m + 5
        BY <1>2, <1>8, <2>3 DEF Here
      <3> QED
        BY <1>3, <1>4, <2>4, <3>1
    <2>6. StepsToGo = a + 1 + h
      BY <1>8, <2>2, <2>5 DEF StepsToGo
    <2>7. a + 1 + h \in Nat /\ a + 1 + h # 0 /\ a + 1 + h <= total + 1
      BY <2>2, <2>5
    <2> QED
      BY <1>1, <1>4, <1>5, <1>8, <2>2, <2>5, <2>6, <2>7
  <1> QED
    BY <1>2, <1>6, <1>7, <1>8

\* The next requirement is a later one.
LEMMA AfterIsLater ==
    ASSUME IInv, NEW i \in Reqs
    PROVE  After(i) \in i + 1..NReqs + 1
  <1>1. After(i) \in 1..NReqs + 1 /\ NReqs \in Nat
    BY AfterFacts, OrchestrationAssumption DEF Reqs, IInv, FinalsHold
  <1> DEFINE L == {r \in Reqs : r > i /\ reqs.items[r].state # "absent"}
  <1>2. L \subseteq Nat
    BY DEF Reqs
  <1>3. CASE L = {}
    BY <1>1, <1>3 DEF After, Reqs
  <1>4. CASE L # {}
    <2>1. \E r \in L : \A q \in L : r <= q
      <3> HIDE DEF L
      <3> QED
        BY <1>2, <1>4, HasLeast
    <2>2. After(i) \in L
      BY <1>4, <2>1 DEF After
    <2> QED
      BY <1>1, <2>2 DEF Reqs
  <1> QED
    BY <1>3, <1>4

\* A requirement that is over leaves those after it.
LEMMA OverProgress ==
    ASSUME IInv, run.pc # "idle", run.i \in Reqs, NEW o \in Outcomes, Advance(o)
    PROVE  StepsToGo' < StepsToGo
  <1>1. TypeOK
    BY DEF IInv, FinalsHold
  <1>2. run'.pc = "begin" /\ run'.i = After(run.i)
    BY <1>1, AdvanceFacts
  <1>3. run'.i \in run.i + 1..NReqs + 1 /\ run.i \in 1..NReqs /\ NReqs \in Nat
    BY <1>2, AfterIsLater, OrchestrationAssumption DEF Reqs
  <1>4. run'.i \in 1..NReqs + 1 /\ run.i + 1 \in 1..NReqs + 1 /\ run.i + 1 <= run'.i
    BY <1>3
  <1>5. PICK a \in Nat, b \in Nat : a = Ahead(run.i + 1) /\ b = Ahead(run'.i) /\ b <= a
    BY <1>4, AheadFacts
  <1>6. StepsToGo' = b + 1
    BY <1>2, <1>5 DEF StepsToGo, Ahead
  <1>7. CASE run.pc = "begin"
    <2>1. PICK n \in Nat : n = PerReq /\ n > 0
      BY OrchestrationAssumption DEF PerReq
    <2>2. Ahead(run.i) = a + n
      BY <1>3, <1>5, <2>1, AheadFacts
    <2>3. StepsToGo = a + n + 1
      BY <1>7, <2>2 DEF StepsToGo
    <2> QED
      BY <1>5, <1>6, <2>1, <2>3
  <1>8. CASE run.pc # "begin"
    <2>1. PICK h \in Nat : h = Here /\ 1 <= h
      BY <1>8, ToGoFacts
    <2>2. StepsToGo = a + 1 + h
      BY <1>5, <1>8, <2>1, ToGoFacts
    <2> QED
      BY <1>5, <1>6, <2>1, <2>2
  <1> QED
    BY <1>7, <1>8

\* Within a requirement the run only comes nearer to its end.
LEMMA HereProgress ==
    ASSUME IInv, IInv', run.pc \notin {"idle", "begin"}, run'.pc \notin {"idle", "begin"},
           run'.i = run.i, Here' \in Nat, Here' < Here
    PROVE  StepsToGo' < StepsToGo
  <1>1. PICK a \in Nat, h \in Nat : /\ a = Ahead(run.i + 1) /\ h = Here
                                  /\ StepsToGo = a + 1 + h
    BY ToGoFacts
  <1>2. PICK k \in Nat : k = Here'
    OBVIOUS
  <1>3. StepsToGo' = a + 1 + k
    BY <1>1, <1>2 DEF StepsToGo, Ahead
  <1> QED
    BY <1>1, <1>2, <1>3

LEMMA BeginProgress ==
    ASSUME IInv, IInv', Begin
    PROVE  StepsToGo' < StepsToGo
  <1>1. run.pc = "begin" /\ run.i <= NReqs /\ run \in Run
    BY DEF Begin, IInv, FinalsHold, TypeOK
  <1>2. run.i \in Reqs /\ run.i \in 1..NReqs
    BY <1>1, OrchestrationAssumption DEF Run, Reqs
  <1>3. CASE Advance("deferred")
    BY <1>1, <1>2, <1>3, OverProgress DEF Outcomes
  <1>4. CASE run' = [run EXCEPT !.pc = "execute"]
    <2>1. run'.pc = "execute" /\ run'.i = run.i
      BY <1>1, <1>4 DEF Run
    <2>2. PICK a \in Nat, n \in Nat : /\ a = Ahead(run.i + 1) /\ n = PerReq
                                    /\ n = 2 * MaxRounds + 7 /\ Ahead(run.i) = a + n
      <3>1. /\ Ahead(run.i + 1) \in Nat /\ PerReq \in Nat
            /\ Ahead(run.i) = Ahead(run.i + 1) + PerReq
        <4>1. run.i + 1 \in 1..NReqs + 1
          BY <1>2, OrchestrationAssumption
        <4> QED
          BY <1>2, <4>1, AheadFacts
      <3> QED
        BY <3>1 DEF PerReq
    <2>3. StepsToGo = a + n + 1
      BY <1>1, <2>2 DEF StepsToGo
    <2>4. PICK h \in Nat : h = 2 * MaxRounds + 6 /\ h < n
      BY <2>2, OrchestrationAssumption
    <2>5. Here' = h
      BY <2>1, <2>4 DEF Here
    <2>6. StepsToGo' = a + 1 + h
      BY <2>1, <2>2, <2>5 DEF StepsToGo, Ahead
    <2> QED
      BY <2>2, <2>3, <2>4, <2>6
  <1> QED
    BY <1>3, <1>4 DEF Begin

\* The step of a run inside the critique loop or after it.
LEMMA LoopProgress ==
    ASSUME IInv, IInv', run.pc \notin {"idle", "begin"}, run'.i = run.i,
           \/ run.pc = "execute" /\ run'.pc = "row"
           \/ run.pc = "row" /\ run'.pc = "review"
           \/ run.pc = "review" /\ run'.pc \in {"revise", "merge"} /\ run'.round = run.round
           \/ run.pc = "revise" /\ run'.pc = "merge"
           \/ run.pc = "revise" /\ run'.pc = "review" /\ run'.round = run.round + 1
           \/ run.pc = "merge" /\ run'.pc \in {"final", "end"}
           \/ run.pc = "final" /\ run'.pc = "finalrow"
           \/ run.pc = "finalrow" /\ run'.pc = "done"
    PROVE  StepsToGo' < StepsToGo
  <1>1. run.round \in 1..MaxRounds /\ run'.round \in 1..MaxRounds /\ MaxRounds \in Nat
    BY OrchestrationAssumption DEF IInv, FinalsHold, TypeOK, Run
  <1>2. PICK n \in Nat, m \in Nat, k \in Nat :
          n = MaxRounds /\ m = MaxRounds - run.round /\ k = MaxRounds - run'.round /\ k < n
    BY <1>1
  <1>3. /\ run'.round = run.round => k = m
        /\ run'.round = run.round + 1 => m = k + 1
    BY <1>1, <1>2
  <1>4. Here' \in Nat /\ Here' < Here
    <2>1. CASE run.pc = "execute"
      <3>1. Here = 2 * n + 6 /\ Here' = 2 * n + 5
        BY <1>2, <2>1 DEF Here
      <3> QED BY <3>1
    <2>2. CASE run.pc = "row"
      <3>1. Here = 2 * n + 5 /\ Here' = 2 * k + 6
        BY <1>2, <2>2 DEF Here
      <3> QED BY <1>2, <3>1
    <2>3. CASE run.pc = "review"
      <3>1. Here = 2 * m + 6 /\ Here' \in {2 * m + 5, 4}
        BY <1>2, <1>3, <2>3 DEF Here
      <3> QED BY <3>1
    <2>4. CASE run.pc = "revise" /\ run'.pc = "merge"
      <3>1. Here = 2 * m + 5 /\ Here' = 4
        BY <1>2, <2>4 DEF Here
      <3> QED BY <3>1
    <2>5. CASE run.pc = "revise" /\ run'.pc = "review"
      <3>1. Here = 2 * m + 5 /\ Here' = 2 * k + 6 /\ m = k + 1
        BY <1>2, <1>3, <2>5 DEF Here
      <3> QED BY <3>1
    <2>6. CASE run.pc \in {"merge", "final", "finalrow"}
      BY <2>6 DEF Here
    <2> QED
      BY <2>1, <2>2, <2>3, <2>4, <2>5, <2>6
  <1> QED
    BY <1>4, HereProgress

\* Every step of a run brings it nearer to its end.
LEMMA RunProgress ==
    ASSUME IInv, IInv', Proceed
    PROVE  StepsToGo' < StepsToGo
  <1>1. /\ run \in Run
        /\ run.pc \notin {"idle", "begin"} => run.i \in Reqs
    BY DEF IInv, FinalsHold, TypeOK, RunIsBacked
  <1>2. CASE Begin
    BY <1>2, BeginProgress
  <1>3. CASE Execute
    <2>1. run.pc = "execute" /\ run.i \in Reqs
      BY <1>1, <1>3 DEF Execute
    <2>2. CASE \E o \in Outcomes : Advance(o)
      BY <2>1, <2>2, OverProgress
    <2>3. CASE run' = [run EXCEPT !.pc = "row"]
      <3>1. run'.pc = "row" /\ run'.i = run.i
        BY <1>1, <2>3 DEF Run
      <3> QED
        BY <2>1, <3>1, LoopProgress
    <2> QED
      BY <1>3, <2>2, <2>3 DEF Execute, Outcomes
  <1>4. CASE WriteFanoutRow
    <2>1. run.pc = "row" /\ run'.pc = "review" /\ run'.i = run.i
      BY <1>1, <1>4 DEF WriteFanoutRow, Run
    <2> QED
      BY <2>1, LoopProgress
  <1>5. ASSUME NEW v, NEW by, NEW rows, NEW ref, Result(v, by, rows, ref)
        PROVE  run'.pc = "merge" /\ run'.i = run.i /\ run'.round = run.round
    BY <1>1, <1>5 DEF Result, Run
  <1>6. CASE ReviewEnds
    <2>1. run.pc = "review" /\ run'.pc = "merge" /\ run'.i = run.i /\ run'.round = run.round
      BY <1>5, <1>6 DEF ReviewEnds
    <2> QED
      BY <2>1, LoopProgress
  <1>7. CASE Direct
    <2>1. /\ run.pc = "review" /\ run'.pc \in {"revise", "merge"}
          /\ run'.i = run.i /\ run'.round = run.round
      <3>1. ASSUME NEW rows, run' = [run EXCEPT !.pc = "revise", !.rows = rows]
            PROVE  run'.pc = "revise" /\ run'.i = run.i /\ run'.round = run.round
        BY <1>1, <3>1 DEF Run
      <3> QED
        BY <1>5, <1>7, <3>1 DEF Direct
    <2> QED
      BY <2>1, LoopProgress
  <1>8. CASE Revise
    <2>1. /\ run.pc = "revise" /\ run'.i = run.i
          /\ \/ run'.pc = "merge"
             \/ run'.pc = "review" /\ run'.round = run.round + 1
      <3>1. ASSUME NEW f, run' = [run EXCEPT !.pc = "review", !.ref = f, !.round = run.round + 1]
            PROVE  run'.pc = "review" /\ run'.i = run.i /\ run'.round = run.round + 1
        BY <1>1, <3>1 DEF Run
      <3> QED
        BY <1>5, <1>8, <3>1 DEF Revise
    <2> QED
      BY <2>1, LoopProgress
  <1>9. CASE Merge
    <2>1. run.pc = "merge" /\ run.i \in Reqs
      BY <1>1, <1>9 DEF Merge
    <2>2. CASE Advance("deferred")
      BY <2>1, <2>2, OverProgress DEF Outcomes
    <2>3. CASE run' = [run EXCEPT !.pc = IF run.verdict = "failed" THEN "end" ELSE "final"]
      <3>1. run'.pc \in {"end", "final"} /\ run'.i = run.i
        BY <1>1, <2>3 DEF Run
      <3> QED
        BY <2>1, <3>1, LoopProgress
    <2> QED
      BY <1>9, <2>2, <2>3 DEF Merge
  <1>10. CASE WriteFinal
    <2>1. run.pc = "final" /\ run'.pc = "finalrow" /\ run'.i = run.i
      BY <1>1, <1>10 DEF WriteFinal, Run
    <2> QED
      BY <2>1, LoopProgress
  <1>11. CASE WriteFinalRow
    <2>1. run.pc = "finalrow" /\ run'.pc = "done" /\ run'.i = run.i
      BY <1>1, <1>11 DEF WriteFinalRow, Run
    <2> QED
      BY <2>1, LoopProgress
  <1>12. CASE MarkDone
    <2>1. run.pc = "done" /\ run.i \in Reqs /\ run.verdict \in Outcomes /\ Advance(run.verdict)
      BY <1>1, <1>12 DEF MarkDone, IInv, RunIsBacked
    <2> QED
      BY <2>1, OverProgress
  <1>13. CASE MarkBlocked
    <2>1. run.pc = "end" /\ run.i \in Reqs /\ \E o \in Outcomes : Advance(o)
      BY <1>1, <1>13 DEF MarkBlocked, Outcomes
    <2> QED
      BY <2>1, OverProgress
  <1>14. CASE Finish
    <2>1. run.pc # "idle" /\ run'.pc = "idle"
      BY <1>14 DEF Finish, IdleRun
    <2>2. StepsToGo' = 0 /\ StepsToGo \in Nat /\ StepsToGo # 0
      BY <2>1, ToGoFacts DEF StepsToGo
    <2> QED
      BY <2>2
  <1> QED
    BY <1>2, <1>3, <1>4, <1>6, <1>7, <1>8, <1>9, <1>10, <1>11, <1>12, <1>13, <1>14 DEF Proceed

\* No cycle of review and revision goes on for ever, and no list of requirements is walked
\* twice: run_orchestration takes at most 2 * MAX_ROUNDS + 7 steps for every
\* requirement and one more; every step of it, an abort included, leaves fewer.
THEOREM RunsRunOut ==
    Spec => /\ [](StepsToGo \in Nat /\ StepsToGo <= PerReq * NReqs + 1)
            /\ [][/\ Proceed => StepsToGo' < StepsToGo
                  /\ run.pc # "idle" => run' = run \/ StepsToGo' < StepsToGo]_vars
  <1> DEFINE Bounded == StepsToGo \in Nat /\ StepsToGo <= PerReq * NReqs + 1
             Fewer == /\ Proceed => StepsToGo' < StepsToGo
                      /\ run.pc # "idle" => run' = run \/ StepsToGo' < StepsToGo
  <1>1. IInv => Bounded
    BY ToGoFacts
  <1>2. IInv /\ IInv' /\ [Next]_vars => [Fewer]_vars
    <2> SUFFICES ASSUME IInv, IInv', Next
                 PROVE  Fewer
      OBVIOUS
    <2>1. Proceed => StepsToGo' < StepsToGo
      BY RunProgress
    <2>2. CASE Elicit \/ Confirm \/ Start
      BY <2>1, <2>2 DEF Elicit, Confirm, Start
    <2>3. CASE Abort
      <3>1. run.pc # "idle" /\ run'.pc = "idle"
        BY <2>3 DEF Abort, IdleRun
      <3>2. StepsToGo' = 0 /\ StepsToGo \in Nat /\ StepsToGo # 0
        BY <3>1, ToGoFacts DEF StepsToGo
      <3> QED
        BY <2>1, <3>2
    <2> QED
      BY <2>1, <2>2, <2>3 DEF Next
  <1> QED
    BY <1>1, <1>2, Inductive, PTL DEF Spec
=============================================================================
