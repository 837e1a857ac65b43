-------------------------- MODULE CardScheduler_proofs --------------------------
(***************************************************************************)
(* Theorems of CardScheduler for any number of processes, runs and calls   *)
(* and for cards of any length.  What the ledger of a run says is reduced  *)
(* to three sets: how it began, how it ended, and whether it was closed.   *)
(* The inductive invariant CardInv relates them to the locals of the       *)
(* process that has the run.                                               *)
(***************************************************************************)
EXTENDS CardScheduler, SequenceTheorems, WellFoundedInduction, TLAPS

Ends(lg) == {lg[i].status : i \in EndsOf(lg)}

StartsOf(lg) == {i \in 1..Len(lg) : lg[i].type = "run_started"}

\* The dry flags of the run_started events.
Starts(lg) == {lg[i].dry : i \in StartsOf(lg)}

Closed(lg) == \E i \in 1..Len(lg) : lg[i].type \in {"run_finished", "run_failed"}

CardTypeOK ==
    /\ ledger \in [Runs -> Seq(Event)]
    /\ module \in [run : Runs \cup {None}, status : Statuses \cup {None}]
    /\ proc \in [Procs -> Proc]
    /\ DOMAIN ran = Runs /\ \A r \in Runs : ran[r] \in [DOMAIN Cards[r] -> Nat]

\* A run that did not begin has done nothing; a run ends in one way.
RunsAreKept ==
    \A r \in Runs :
        /\ Starts(ledger[r]) = {} => Ends(ledger[r]) = {} /\ \A i \in DOMAIN Cards[r] : ran[r][i] = 0
        /\ \A s, t \in Ends(ledger[r]) : s = t

Unrun(p, i) == \A j \in DOMAIN Cards[proc[p].run] : j >= i => ran[proc[p].run][j] = 0

\* What a process that has a run knows of it.
ProcHolds(p) ==
    LET r == proc[p].run
        lg == ledger[r]
    IN  proc[p].pc # "idle" =>
        /\ r \in RunsOf[p]
        /\ proc[p].pc \in {"pending", "started"} => Starts(lg) = {}
        /\ proc[p].pc \in {"step", "execute", "record", "end", "state"} => proc[p].dry \in Starts(lg)
        /\ proc[p].pc \in {"step", "execute", "record"} => Ends(lg) = {}
        /\ proc[p].pc \in {"step", "execute"} => Unrun(p, proc[p].step)
        /\ proc[p].pc \in {"execute", "record"} => proc[p].step \in DOMAIN Cards[r]
        /\ proc[p].pc = "record" => Unrun(p, proc[p].step + 1) /\ proc[p].outcome # None
        /\ proc[p].pc \in {"end", "state"} =>
             proc[p].status \in Terminal /\ Ends(lg) \subseteq {proc[p].status}
        /\ proc[p].pc = "state" => ~proc[p].dry /\ Closed(lg) /\ Ends(lg) # {}

ProcsHold == \A p \in Procs : ProcHolds(p)

\* The module entry.
ModuleHolds ==
    module.run # None =>
        /\ Ends(ledger[module.run]) = {module.status}
        /\ FALSE \in Starts(ledger[module.run])
        /\ Closed(ledger[module.run])

CardInv == CardTypeOK /\ CommandsRunOnce /\ RunsAreKept /\ ProcsHold /\ ModuleHolds

-----------------------------------------------------------------------------
(* Lemmas about the ledger.                                                *)

\* The last of finitely many places.
LEMMA HasGreatest ==
    ASSUME NEW n \in Nat, NEW S, S \subseteq 1..n, S # {}
    PROVE  \E m \in S : \A k \in S : k <= m
  <1> DEFINE T == {n - k : k \in S}
             R == OpToRel(<, Nat)
  <1>1. \A x, y \in Nat : <<x, y>> \in R <=> x < y
    BY DEF OpToRel
  <1>2. IsWellFoundedOn(R, Nat)
    BY NatLessThanWellFounded
  <1>3. T \subseteq Nat /\ T # {}
    <2>1. \A k \in S : k \in 1..n
      OBVIOUS
    <2>2. \A k \in 1..n : n - k \in Nat
      OBVIOUS
    <2> QED
      BY <2>1, <2>2
  <1> HIDE DEF R
  <1>4. PICK t \in T : \A u \in T : ~ <<u, t>> \in R
    <2> HIDE DEF T
    <2> QED
      BY <1>2, <1>3, WFMin
  <1>5. PICK m \in S : t = n - m
    OBVIOUS
  <1>6. ASSUME NEW k \in S PROVE k <= m
    <2>1. n - k \in T /\ n - k \in Nat /\ t \in Nat
      BY <1>3
    <2>2. ~ n - k < t
      BY <1>1, <1>4, <2>1
    <2> QED
      BY <1>5, <2>2
  <1> QED
    BY <1>6

LEMMA LastEndFacts ==
    ASSUME NEW lg \in Seq(Event), EndsOf(lg) # {}
    PROVE  LastEnd(lg) \in EndsOf(lg)
  <1>1. EndsOf(lg) \subseteq 1..Len(lg) /\ Len(lg) \in Nat
    BY DEF EndsOf
  <1>2. \E m \in EndsOf(lg) : \A k \in EndsOf(lg) : k <= m
    BY <1>1, HasGreatest
  <1> QED
    BY <1>2 DEF LastEnd

\* What find_run answers: nothing before run_started, else how the run ended, else
\* something that is no end.
LEMMA FindRunFacts ==
    ASSUME NEW lg \in Seq(Event)
    PROVE  /\ Starts(lg) = {} => FindRun(lg) = None
           /\ Starts(lg) # {} /\ Ends(lg) # {} => FindRun(lg) \in Ends(lg)
           /\ FindRun(lg) \in Terminal => Starts(lg) # {} /\ Ends(lg) # {}
           /\ FindRun(lg) \in Statuses \cup {None}
  <1>1. Starts(lg) = {} <=> ~Started(lg)
    BY DEF Starts, StartsOf, Started
  <1>2. Ends(lg) = {} <=> EndsOf(lg) = {}
    BY DEF Ends
  <1>3. \A i \in 1..Len(lg) : lg[i].status \in Statuses
    <2>1. \A i \in 1..Len(lg) : lg[i] \in Event
      BY ElementOfSeq
    <2> QED
      BY <2>1 DEF Event
  <1>4. CASE Starts(lg) = {}
    BY <1>1, <1>4 DEF FindRun, Terminal, None
  <1>5. CASE Starts(lg) # {} /\ Ends(lg) # {}
    <2>1. LastEnd(lg) \in EndsOf(lg)
      BY <1>2, <1>5, LastEndFacts
    <2>2. FindRun(lg) = lg[LastEnd(lg)].status
      BY <1>1, <1>2, <1>5 DEF FindRun
    <2>3. LastEnd(lg) \in 1..Len(lg)
      BY <2>1 DEF EndsOf
    <2> QED
      BY <1>3, <1>5, <2>1, <2>2, <2>3 DEF Ends
  <1>6. CASE Starts(lg) # {} /\ Ends(lg) = {}
    <2>1. Len(lg) \in 1..Len(lg)
      BY <1>6 DEF Starts, StartsOf
    <2>2. FindRun(lg) = lg[Len(lg)].status
      BY <1>1, <1>2, <1>6 DEF FindRun
    <2>3. lg[Len(lg)].status \notin Terminal
      BY <1>2, <1>6, <2>1 DEF EndsOf
    <2> QED
      BY <1>3, <1>6, <2>1, <2>2, <2>3
  <1> QED
    BY <1>4, <1>5, <1>6

\* One more event.
LEMMA AppendFacts ==
    ASSUME NEW lg \in Seq(Event), NEW e \in Event
    PROVE  /\ Append(lg, e) \in Seq(Event)
           /\ Ends(Append(lg, e)) = Ends(lg) \cup ({e.status} \cap Terminal)
           /\ Starts(Append(lg, e)) =
                Starts(lg) \cup (IF e.type = "run_started" THEN {e.dry} ELSE {})
           /\ Closed(Append(lg, e)) <=> Closed(lg) \/ e.type \in {"run_finished", "run_failed"}
  <1> DEFINE L == Append(lg, e)
             n == Len(lg)
  <1>1. /\ L \in Seq(Event) /\ Len(L) = n + 1 /\ n \in Nat
        /\ \A i \in 1..n : L[i] = lg[i]
        /\ L[n + 1] = e
    BY AppendProperties
  <1> HIDE DEF L, n
  <1>2. 1..Len(L) = 1..n \cup {n + 1} /\ n + 1 \notin 1..n
    BY <1>1
  <1>3. EndsOf(L) = EndsOf(lg) \cup (IF e.status \in Terminal THEN {n + 1} ELSE {})
    BY <1>1, <1>2 DEF EndsOf, n
  <1>4. StartsOf(L) = StartsOf(lg) \cup (IF e.type = "run_started" THEN {n + 1} ELSE {})
    BY <1>1, <1>2 DEF StartsOf, n
  <1>5. EndsOf(lg) \subseteq 1..n /\ StartsOf(lg) \subseteq 1..n
    BY DEF EndsOf, StartsOf, n
  <1>6. Ends(L) = Ends(lg) \cup ({e.status} \cap Terminal)
    BY <1>1, <1>3, <1>5 DEF Ends
  <1>7. Starts(L) = Starts(lg) \cup (IF e.type = "run_started" THEN {e.dry} ELSE {})
    BY <1>1, <1>4, <1>5 DEF Starts
  <1>8. Closed(L) <=> Closed(lg) \/ e.type \in {"run_finished", "run_failed"}
    BY <1>1, <1>2 DEF Closed, n
  <1> QED
    BY <1>1, <1>6, <1>7, <1>8 DEF L

-----------------------------------------------------------------------------
(* The parts of a step.                                                    *)

\* A write of an event that ends a run only where it began, and no other way than it
\* ended before.
LEMMA WriteFacts ==
    ASSUME CardTypeOK, RunsAreKept, ModuleHolds,
           NEW r \in Runs, NEW e \in Event, Write(r, e.type, e.status, e.dry),
           module' = module, ran' = ran,
           e.status \in Terminal =>
             Starts(ledger[r]) # {} /\ Ends(ledger[r]) \subseteq {e.status}
    PROVE  /\ ledger' \in [Runs -> Seq(Event)]
           /\ \A q \in Runs : q # r => ledger'[q] = ledger[q]
           /\ Ends(ledger'[r]) = Ends(ledger[r]) \cup ({e.status} \cap Terminal)
           /\ Starts(ledger'[r]) =
                Starts(ledger[r]) \cup (IF e.type = "run_started" THEN {e.dry} ELSE {})
           /\ Closed(ledger'[r]) <=> Closed(ledger[r]) \/ e.type \in {"run_finished", "run_failed"}
           /\ RunsAreKept' /\ ModuleHolds'
  <1>1. ledger[r] \in Seq(Event)
    BY DEF CardTypeOK
  <1>2. ledger' = [ledger EXCEPT ![r] = Append(ledger[r], e)]
    BY DEF Write, Event
  <1>4. ledger'[r] = Append(ledger[r], e) /\ \A q \in Runs : q # r => ledger'[q] = ledger[q]
    BY <1>2 DEF CardTypeOK
  <1>5. /\ Append(ledger[r], e) \in Seq(Event)
        /\ Ends(ledger'[r]) = Ends(ledger[r]) \cup ({e.status} \cap Terminal)
        /\ Starts(ledger'[r]) =
             Starts(ledger[r]) \cup (IF e.type = "run_started" THEN {e.dry} ELSE {})
        /\ Closed(ledger'[r]) <=> Closed(ledger[r]) \/ e.type \in {"run_finished", "run_failed"}
    BY <1>1, <1>4, AppendFacts
  <1>6. ledger' \in [Runs -> Seq(Event)]
    BY <1>2, <1>5 DEF CardTypeOK
  <1>7. RunsAreKept'
    <2> SUFFICES ASSUME NEW q \in Runs
                 PROVE /\ Starts(ledger'[q]) = {} => Ends(ledger'[q]) = {} /\ \A i \in DOMAIN Cards[q] : ran'[q][i] = 0
                       /\ \A s, t \in Ends(ledger'[q]) : s = t
      BY DEF RunsAreKept
    <2>1. CASE q = r
      <3>1. CASE e.status \in Terminal
        BY <1>5, <2>1, <3>1 DEF RunsAreKept
      <3>2. CASE e.status \notin Terminal
        <4>1. Ends(ledger'[r]) = Ends(ledger[r])
          BY <1>5, <3>2
        <4> QED
          BY <1>5, <2>1, <4>1 DEF RunsAreKept
      <3> QED
        BY <3>1, <3>2
    <2>2. CASE q # r
      BY <1>4, <2>2 DEF RunsAreKept
    <2> QED
      BY <2>1, <2>2
  <1>8. ModuleHolds'
    <2>1. CASE module.run = r
      <3>1. CASE e.status \in Terminal
        BY <1>5, <2>1, <3>1 DEF ModuleHolds
      <3>2. CASE e.status \notin Terminal
        BY <1>5, <2>1, <3>2 DEF ModuleHolds
      <3> QED
        BY <3>1, <3>2
    <2>2. CASE module.run # r
      BY <1>4, <2>2 DEF ModuleHolds, CardTypeOK
    <2> QED
      BY <2>1, <2>2
  <1> QED
    BY <1>4, <1>5, <1>6, <1>7, <1>8

\* A process that does not move keeps what it knows: its run is no other's.
LEMMA OthersHold ==
    ASSUME OneAtATime, ProcsHold, NEW p \in Procs, proc[p].pc # "idle",
           \A q \in Procs : q # p => proc'[q] = proc[q],
           \A r \in Runs : r # proc[p].run => ledger'[r] = ledger[r] /\ ran'[r] = ran[r],
           ProcHolds(p)'
    PROVE  ProcsHold'
  <1> SUFFICES ASSUME NEW q \in Procs, q # p PROVE ProcHolds(q)'
    BY DEF ProcsHold
  <1>1. proc'[q] = proc[q] /\ ProcHolds(q) /\ ProcHolds(p)
    BY DEF ProcsHold
  <1>2. CASE proc[q].pc = "idle"
    BY <1>1, <1>2 DEF ProcHolds
  <1>3. CASE proc[q].pc # "idle"
    <2>1. proc[q].run \in RunsOf[q] /\ proc[p].run \in RunsOf[p]
      BY <1>1, <1>3 DEF ProcHolds
    <2>2. proc[q].run # proc[p].run /\ proc[q].run \in Runs
      BY <2>1, CardAssumption DEF OneAtATime
    <2>3. ledger'[proc[q].run] = ledger[proc[q].run] /\ ran'[proc[q].run] = ran[proc[q].run]
      BY <2>2
    <2> QED
      BY <1>1, <2>3 DEF ProcHolds, Unrun
  <1> QED
    BY <1>2, <1>3

-----------------------------------------------------------------------------
(* CardInv is inductive.                                                   *)

LEMMA CardInvInit == CardInit => CardInv
  <1> SUFFICES ASSUME CardInit PROVE CardInv
    OBVIOUS
  <1>1. CardTypeOK
    <2>1. <<>> \in Seq(Event)
      OBVIOUS
    <2>2. Idle \in Proc
      BY DEF Idle, Proc, PCs, Outcomes
    <2> QED
      BY <2>1, <2>2 DEF CardInit, CardTypeOK
  <1>2. \A r \in Runs : Ends(ledger[r]) = {} /\ Starts(ledger[r]) = {}
    BY DEF CardInit, Ends, EndsOf, Starts, StartsOf
  <1>3. CommandsRunOnce /\ RunsAreKept
    BY <1>2 DEF CardInit, CommandsRunOnce, RunsAreKept
  <1>4. ProcsHold
    BY DEF CardInit, ProcsHold, ProcHolds, Idle
  <1>5. ModuleHolds
    BY DEF CardInit, ModuleHolds
  <1> QED
    BY <1>1, <1>3, <1>4, <1>5 DEF CardInv

LEMMA CallStep ==
    ASSUME CardInv, NEW p \in Procs, CallCard(p) \/ Die(p)
    PROVE  CardInv'
  <1>1. ledger' = ledger /\ module' = module /\ ran' = ran
    BY DEF CallCard, Die
  <1>2. /\ proc' \in [Procs -> Proc]
        /\ \A q \in Procs : q # p => proc'[q] = proc[q]
        /\ proc'[p].pc \in {"idle", "find"}
        /\ proc'[p].pc = "find" => proc'[p].run \in RunsOf[p]
    <2>a. Idle \in Proc /\ Idle.pc = "idle"
      BY DEF Idle, Proc, PCs, Outcomes
    <2>1. CASE CallCard(p)
      <3>1. PICK r \in RunsOf[p], dry \in BOOLEAN :
              proc' = [proc EXCEPT ![p] = [Idle EXCEPT !.pc = "find", !.run = r, !.dry = dry]]
        BY <2>1 DEF CallCard
      <3>2. r \in Runs
        BY CardAssumption
      <3> DEFINE new == [Idle EXCEPT !.pc = "find", !.run = r, !.dry = dry]
      <3>3. new \in Proc
        BY <2>a, <3>2 DEF Proc, PCs
      <3>4. new.pc = "find" /\ new.run = r
        BY <2>a DEF Proc
      <3>5. proc' = [proc EXCEPT ![p] = new]
        BY <3>1
      <3> HIDE DEF new
      <3> QED
        BY <3>3, <3>4, <3>5 DEF CardInv, CardTypeOK
    <2>2. CASE Die(p)
      BY <2>a, <2>2 DEF CardInv, CardTypeOK, Die
    <2> QED
      BY <2>1, <2>2
  <1>3. CardTypeOK' /\ CommandsRunOnce' /\ RunsAreKept' /\ ModuleHolds'
    <2>1. CardTypeOK'
      BY <1>1, <1>2 DEF CardInv, CardTypeOK
    <2>2. CommandsRunOnce'
      BY <1>1 DEF CardInv, CommandsRunOnce
    <2>3. RunsAreKept'
      BY <1>1 DEF CardInv, RunsAreKept
    <2>4. ModuleHolds'
      BY <1>1 DEF CardInv, ModuleHolds
    <2> QED
      BY <2>1, <2>2, <2>3, <2>4
  <1>4. ProcHolds(p)'
    BY <1>2 DEF ProcHolds
  <1>5. ASSUME NEW q \in Procs, q # p PROVE ProcHolds(q)'
    <2>1. proc'[q] = proc[q] /\ ProcHolds(q)
      BY <1>2, <1>5 DEF CardInv, ProcsHold
    <2> QED
      BY <1>1, <2>1 DEF ProcHolds, Unrun
  <1> QED
    BY <1>3, <1>4, <1>5 DEF CardInv, ProcsHold

\* A step of p that writes at most the ledger: what is left to show of CardInv' is what p
\* knows after it.
LEMMA StepKeeps ==
    ASSUME OneAtATime, CardInv, NEW p \in Procs, proc[p].pc # "idle",
           NEW x \in Proc, proc' = [proc EXCEPT ![p] = x],
           ledger' \in [Runs -> Seq(Event)],
           \A r \in Runs : r # proc[p].run => ledger'[r] = ledger[r] /\ ran'[r] = ran[r],
           module' \in [run : Runs \cup {None}, status : Statuses \cup {None}],
           DOMAIN ran' = Runs, \A r \in Runs : ran'[r] \in [DOMAIN Cards[r] -> Nat],
           CommandsRunOnce', RunsAreKept', ModuleHolds', proc'[p] = x => ProcHolds(p)'
    PROVE  CardInv'
  <1>1. /\ proc' \in [Procs -> Proc] /\ proc'[p] = x
        /\ \A q \in Procs : q # p => proc'[q] = proc[q]
    BY DEF CardInv, CardTypeOK
  <1>2. CardTypeOK'
    BY <1>1 DEF CardTypeOK
  <1>3. ProcHolds(p)'
    BY <1>1
  <1>4. ProcsHold'
    BY <1>1, <1>3, OthersHold DEF CardInv
  <1> QED
    BY <1>2, <1>4 DEF CardInv

\* What every step may assume.
LEMMA Facts ==
    ASSUME CardInv, NEW p \in Procs, proc[p].pc # "idle"
    PROVE  /\ proc[p] \in Proc /\ ProcHolds(p)
           /\ proc[p].run \in Runs /\ proc[p].dry \in BOOLEAN /\ proc[p].step \in Nat \ {0}
           /\ proc[p].status \in Statuses \cup {None} /\ proc[p].outcome \in Outcomes
           /\ ledger \in [Runs -> Seq(Event)]
           /\ module \in [run : Runs \cup {None}, status : Statuses \cup {None}]
           /\ DOMAIN ran = Runs /\ \A r \in Runs : ran[r] \in [DOMAIN Cards[r] -> Nat]
           /\ CardTypeOK /\ CommandsRunOnce /\ RunsAreKept /\ ModuleHolds /\ ProcsHold
  <1>1. proc[p] \in Proc /\ ProcHolds(p)
    BY DEF CardInv, CardTypeOK, ProcsHold
  <1>2. proc[p].run \in Runs
    BY <1>1, CardAssumption DEF ProcHolds
  <1> QED
    BY <1>1, <1>2 DEF CardInv, CardTypeOK, Proc

\* Whoever finds nothing finds a run that did not begin.
LEMMA FindStep ==
    ASSUME OneAtATime, CardInv, NEW p \in Procs, Find(p)
    PROVE  CardInv'
  <1> DEFINE r == proc[p].run
             cached == FindRun(ledger[r])
  <1>1. proc[p].pc = "find" /\ proc[p].pc # "idle"
    BY DEF Find
  <1>2. ledger' = ledger /\ module' = module /\ ran' = ran
    BY DEF Find
  <1>3. CommandsRunOnce' /\ RunsAreKept' /\ ModuleHolds'
    BY <1>1, <1>2, Facts DEF CommandsRunOnce, RunsAreKept, ModuleHolds
  <1>4. cached \in Statuses \cup {None} /\ (cached = None => Starts(ledger[r]) = {})
    <2>1. ledger[r] \in Seq(Event) /\ RunsAreKept /\ r \in Runs
      BY <1>1, Facts
    <2>2. ASSUME cached = None PROVE Starts(ledger[r]) = {}
      <3>1. ASSUME Starts(ledger[r]) # {} PROVE FALSE
        <4>1. Started(ledger[r])
          BY <3>1 DEF Starts, StartsOf, Started
        <4>2. \A i \in 1..Len(ledger[r]) : ledger[r][i].status \in Statuses
          <5>1. \A i \in 1..Len(ledger[r]) : ledger[r][i] \in Event
            BY <2>1, ElementOfSeq
          <5> QED
            BY <5>1 DEF Event
        <4>3. Len(ledger[r]) \in 1..Len(ledger[r])
          BY <2>1, <4>1 DEF Started
        <4>4. EndsOf(ledger[r]) # {} => LastEnd(ledger[r]) \in 1..Len(ledger[r])
          BY <2>1, LastEndFacts DEF EndsOf
        <4>5. cached \in Statuses
          BY <4>1, <4>2, <4>3, <4>4 DEF FindRun
        <4> QED
          BY <2>2, <4>5 DEF Statuses, Terminal, None
      <3> QED
        BY <3>1
    <2> QED
      BY <2>1, <2>2, FindRunFacts
  <1>5. CASE cached = None
    <2> DEFINE x == [proc[p] EXCEPT !.pc = "pending"]
    <2>1. x \in Proc /\ x.pc = "pending" /\ x.run = r /\ x.step = proc[p].step
      BY <1>1, Facts DEF Proc, PCs
    <2>2. proc' = [proc EXCEPT ![p] = x]
      BY <1>1, <1>5, Facts DEF Find, CardTypeOK
    <2> HIDE DEF x
    <2>3. ASSUME proc'[p] = x PROVE ProcHolds(p)'
      BY <1>1, <1>2, <1>4, <1>5, <2>1, <2>3, Facts DEF ProcHolds
    <2> QED
      BY <1>1, <1>2, <1>3, <2>1, <2>2, <2>3, Facts, StepKeeps
  <1>6. CASE cached # None
    <2> DEFINE x == [Idle EXCEPT !.run = proc[p].run, !.status = cached]
    <2>1. x \in Proc /\ x.pc = "idle"
      <3>1. Idle \in Proc /\ Idle.pc = "idle"
        BY DEF Idle, Proc, PCs, Outcomes
      <3> QED
        BY <1>1, <1>4, <3>1, Facts DEF Proc
    <2>2. proc' = [proc EXCEPT ![p] = x]
      BY <1>6 DEF Find
    <2> HIDE DEF x
    <2>3. ASSUME proc'[p] = x PROVE ProcHolds(p)'
      BY <2>1, <2>3 DEF ProcHolds
    <2> QED
      BY <1>1, <1>2, <1>3, <2>1, <2>2, <2>3, Facts, StepKeeps
  <1> QED
    BY <1>5, <1>6

\* The two writes that begin a run.
LEMMA BeginStep ==
    ASSUME OneAtATime, CardInv, NEW p \in Procs, WritePending(p) \/ WriteStarted(p)
    PROVE  CardInv'
  <1> DEFINE r == proc[p].run
             begin == proc[p].pc = "started"
             e == [type |-> IF begin THEN "run_started" ELSE "run_pending",
                   status |-> IF begin THEN "running" ELSE "pending", dry |-> proc[p].dry]
             x == [proc[p] EXCEPT !.pc = IF begin THEN "step" ELSE "started"]
  <1>1. proc[p].pc \in {"pending", "started"} /\ proc[p].pc # "idle"
    BY DEF WritePending, WriteStarted
  <1>2. /\ Write(r, e.type, e.status, e.dry) /\ module' = module /\ ran' = ran
        /\ proc' = [proc EXCEPT ![p].pc = IF begin THEN "step" ELSE "started"]
    BY DEF WritePending, WriteStarted, Goto
  <1>3. /\ e \in Event /\ e.status \notin Terminal /\ e.dry = proc[p].dry
        /\ (e.type = "run_started" <=> begin)
    BY <1>1, Facts DEF Event, EventTypes, Statuses, Terminal
  <1>4. /\ x \in Proc /\ x.run = r /\ x.dry = proc[p].dry
        /\ x.pc = IF begin THEN "step" ELSE "started"
    BY <1>1, Facts DEF Proc, PCs
  <1>5. proc' = [proc EXCEPT ![p] = x]
    BY <1>1, <1>2, Facts DEF CardTypeOK
  <1> HIDE DEF e, x
  <1>6. /\ ledger' \in [Runs -> Seq(Event)]
        /\ \A q \in Runs : q # r => ledger'[q] = ledger[q]
        /\ Ends(ledger'[r]) = Ends(ledger[r]) \cup ({e.status} \cap Terminal)
        /\ Starts(ledger'[r]) =
             Starts(ledger[r]) \cup (IF e.type = "run_started" THEN {e.dry} ELSE {})
        /\ RunsAreKept' /\ ModuleHolds'
    <2>1. /\ CardTypeOK /\ RunsAreKept /\ ModuleHolds
          /\ r \in Runs
      BY <1>1, Facts
    <2> QED
      BY <1>2, <1>3, <2>1, WriteFacts
  <1>7. CommandsRunOnce'
    BY <1>1, <1>2, Facts DEF CommandsRunOnce
  <1>8. Starts(ledger[r]) = {} /\ Ends(ledger[r]) = {} /\ \A i \in DOMAIN Cards[r] : ran[r][i] = 0
    BY <1>1, Facts DEF ProcHolds, RunsAreKept
  <1>9. ASSUME proc'[p] = x PROVE ProcHolds(p)'
    <2>1. r \in RunsOf[p]
      BY <1>1, Facts DEF ProcHolds
    <2>2. CASE begin
      BY <1>2, <1>3, <1>4, <1>6, <1>8, <1>9, <2>1, <2>2 DEF ProcHolds, Unrun
    <2>3. CASE ~begin
      BY <1>3, <1>4, <1>6, <1>8, <1>9, <2>1, <2>3 DEF ProcHolds
    <2> QED
      BY <2>2, <2>3
  <1> QED
    BY <1>1, <1>2, <1>4, <1>5, <1>6, <1>7, <1>9, Facts, StepKeeps

\* The steps that write one event and move on: it is enough that the event may be
\* written there and that p knows what it must afterwards.
LEMMA EventStep ==
    ASSUME OneAtATime, CardInv, NEW p \in Procs, proc[p].pc # "idle",
           NEW e \in Event, Write(proc[p].run, e.type, e.status, e.dry),
           module' = module, ran' = ran, NEW x \in Proc, proc' = [proc EXCEPT ![p] = x],
           e.status \in Terminal =>
             Starts(ledger[proc[p].run]) # {} /\ Ends(ledger[proc[p].run]) \subseteq {e.status},
           /\ proc'[p] = x
           /\ Ends(ledger'[proc[p].run]) = Ends(ledger[proc[p].run]) \cup ({e.status} \cap Terminal)
           /\ Starts(ledger'[proc[p].run]) =
                Starts(ledger[proc[p].run]) \cup (IF e.type = "run_started" THEN {e.dry} ELSE {})
           /\ e.type \in {"run_finished", "run_failed"} => Closed(ledger'[proc[p].run])
           => ProcHolds(p)'
    PROVE  CardInv'
  <1> DEFINE r == proc[p].run
  <1>1. CardTypeOK /\ RunsAreKept /\ ModuleHolds /\ r \in Runs
    BY Facts
  <1>2. /\ ledger' \in [Runs -> Seq(Event)]
        /\ \A q \in Runs : q # r => ledger'[q] = ledger[q]
        /\ Ends(ledger'[r]) = Ends(ledger[r]) \cup ({e.status} \cap Terminal)
        /\ Starts(ledger'[r]) =
             Starts(ledger[r]) \cup (IF e.type = "run_started" THEN {e.dry} ELSE {})
        /\ e.type \in {"run_finished", "run_failed"} => Closed(ledger'[r])
        /\ RunsAreKept' /\ ModuleHolds'
    BY <1>1, WriteFacts
  <1>3. CommandsRunOnce'
    BY Facts DEF CommandsRunOnce
  <1>4. proc'[p] = x => ProcHolds(p)'
    BY <1>2
  <1> QED
    BY <1>2, <1>3, <1>4, Facts, StepKeeps

LEMMA NextStepStep ==
    ASSUME OneAtATime, CardInv, NEW p \in Procs, NextStep(p)
    PROVE  CardInv'
  <1> DEFINE r == proc[p].run
             i == proc[p].step
  <1>1. proc[p].pc = "step" /\ proc[p].pc # "idle" /\ module' = module /\ ran' = ran
    BY DEF NextStep
  <1>2. /\ r \in RunsOf[p] /\ proc[p].dry \in Starts(ledger[r]) /\ Ends(ledger[r]) = {}
        /\ Unrun(p, i)
    BY <1>1, Facts DEF ProcHolds
  <1>3. CASE i <= Len(Cards[r])
    <2> DEFINE e == [type |-> "step_started", status |-> "running", dry |-> FALSE]
               x == [proc[p] EXCEPT !.pc = "execute"]
    <2>1. e \in Event /\ e.status \notin Terminal /\ e.type = "step_started"
      BY DEF Event, EventTypes, Statuses, Terminal
    <2>2. /\ x \in Proc /\ x.run = r /\ x.step = i /\ x.dry = proc[p].dry /\ x.pc = "execute"
      BY <1>1, Facts DEF Proc, PCs
    <2>3. Write(r, e.type, e.status, e.dry) /\ proc' = [proc EXCEPT ![p] = x]
      BY <1>1, <1>3, Facts DEF NextStep, Goto, CardTypeOK
    <2>4. i \in DOMAIN Cards[r]
      <3>1. Cards[r] \in Seq(StepKinds) /\ i \in Nat \ {0}
        BY <1>1, Facts, CardAssumption
      <3> QED
        BY <1>3, <3>1
    <2> HIDE DEF e, x
    <2>5. ASSUME proc'[p] = x, Ends(ledger'[r]) = Ends(ledger[r]) \cup ({e.status} \cap Terminal),
                 Starts(ledger'[r]) =
                   Starts(ledger[r]) \cup (IF e.type = "run_started" THEN {e.dry} ELSE {})
          PROVE  ProcHolds(p)'
      BY <1>1, <1>2, <2>1, <2>2, <2>4, <2>5 DEF ProcHolds, Unrun
    <2> QED
      BY <1>1, <2>1, <2>2, <2>3, <2>5, EventStep
  <1>4. CASE ~ i <= Len(Cards[r])
    <2> DEFINE x == [proc[p] EXCEPT !.pc = "end", !.status = "completed"]
    <2>1. /\ x \in Proc /\ x.run = r /\ x.dry = proc[p].dry /\ x.pc = "end"
          /\ x.status = "completed"
      BY <1>1, Facts DEF Proc, PCs, Statuses, Terminal
    <2>2. proc' = [proc EXCEPT ![p] = x] /\ ledger' = ledger
      BY <1>1, <1>4, Facts DEF NextStep, CardTypeOK
    <2> HIDE DEF x
    <2>3. CommandsRunOnce' /\ RunsAreKept' /\ ModuleHolds'
      BY <1>1, <2>2, Facts DEF CommandsRunOnce, RunsAreKept, ModuleHolds
    <2>4. ASSUME proc'[p] = x PROVE ProcHolds(p)'
      BY <1>2, <2>1, <2>2, <2>4 DEF ProcHolds, Terminal
    <2> QED
      BY <1>1, <2>1, <2>2, <2>3, <2>4, Facts, StepKeeps
  <1> QED
    BY <1>3, <1>4

\* The command of a step is executed when none of the steps from it on has been.
LEMMA ExecuteStep ==
    ASSUME OneAtATime, CardInv, NEW p \in Procs, Execute(p)
    PROVE  CardInv'
  <1> DEFINE r == proc[p].run
             i == proc[p].step
  <1>1. /\ proc[p].pc = "execute" /\ proc[p].pc # "idle"
        /\ ledger' = ledger /\ module' = module
    BY DEF Execute
  <1>2. /\ r \in RunsOf[p] /\ proc[p].dry \in Starts(ledger[r]) /\ Ends(ledger[r]) = {}
        /\ Unrun(p, i) /\ i \in DOMAIN Cards[r]
    BY <1>1, Facts DEF ProcHolds
  <1>3. Cards[r] \in Seq(StepKinds) /\ Cards[r][i] \in StepKinds
    <2>1. Cards[r] \in Seq(StepKinds)
      BY <1>1, Facts, CardAssumption
    <2> QED
      BY <1>2, <2>1
  <1>4. PICK outcome \in Outcomes \ {None} :
          proc' = [proc EXCEPT ![p].pc = "record", ![p].outcome = outcome]
    <2>1. PICK outcome \in Outcomes :
            /\ CASE Cards[r][i] = "note" -> outcome = "completed"
                 [] Cards[r][i] = "confirm" -> outcome = "blocked"
                 [] Cards[r][i] = "denied" -> outcome = "denied"
                 [] Cards[r][i] = "shell" ->
                      outcome \in {"completed", IF proc[p].dry THEN "completed" ELSE "failed"}
            /\ proc' = [proc EXCEPT ![p].pc = "record", ![p].outcome = outcome]
      BY DEF Execute
    <2>2. outcome # None
      BY <1>3, <2>1 DEF StepKinds, None
    <2> QED
      BY <2>1, <2>2
  <1>5. ran' = ran \/ ran' = [ran EXCEPT ![r][i] = @ + 1]
    BY DEF Execute
  <1>6. /\ DOMAIN ran' = Runs /\ \A q \in Runs : ran'[q] \in [DOMAIN Cards[q] -> Nat]
        /\ \A q \in Runs : q # r => ran'[q] = ran[q]
        /\ \A j \in DOMAIN Cards[r] : j # i => ran'[r][j] = ran[r][j]
        /\ ran'[r][i] <= 1
    <2>1. /\ DOMAIN ran = Runs /\ \A q \in Runs : ran[q] \in [DOMAIN Cards[q] -> Nat]
          /\ r \in Runs
      BY <1>1, Facts
    <2>2. ran[r][i] = 0
      <3>1. i \in Nat \ {0}
        BY <1>1, Facts
      <3> QED
        BY <1>2, <3>1 DEF Unrun
    <2>3. CASE ran' = ran
      BY <2>1, <2>2, <2>3
    <2>4. CASE ran' = [ran EXCEPT ![r][i] = @ + 1]
      <3>1. ran' = [ran EXCEPT ![r] = [ran[r] EXCEPT ![i] = ran[r][i] + 1]]
        BY <2>4
      <3>2. [ran[r] EXCEPT ![i] = ran[r][i] + 1] \in [DOMAIN Cards[r] -> Nat]
        <4>1. ran[r] \in [DOMAIN Cards[r] -> Nat] /\ ran[r][i] + 1 \in Nat
          BY <2>1, <2>2
        <4> QED
          BY <4>1
      <3>3. ran'[r] = [ran[r] EXCEPT ![i] = ran[r][i] + 1]
        BY <2>1, <3>1
      <3>4. DOMAIN ran' = Runs /\ \A q \in Runs : q # r => ran'[q] = ran[q]
        BY <2>1, <3>1
      <3>5. \A q \in Runs : ran'[q] \in [DOMAIN Cards[q] -> Nat]
        BY <2>1, <3>2, <3>3, <3>4
      <3> QED
        BY <1>2, <2>1, <2>2, <3>3, <3>4, <3>5
    <2> QED
      BY <1>5, <2>3, <2>4
  <1> DEFINE x == [proc[p] EXCEPT !.pc = "record", !.outcome = outcome]
  <1>7. /\ x \in Proc /\ x.run = r /\ x.step = i /\ x.dry = proc[p].dry /\ x.pc = "record"
        /\ x.outcome # None
    BY <1>1, Facts DEF Proc, PCs
  <1>8. proc' = [proc EXCEPT ![p] = x]
    BY <1>1, <1>4, Facts DEF CardTypeOK
  <1> HIDE DEF x
  <1>9. CommandsRunOnce'
    BY <1>1, <1>6, Facts DEF CommandsRunOnce
  <1>10. RunsAreKept' /\ ModuleHolds'
    <2>1. Starts(ledger[r]) # {} /\ RunsAreKept /\ ModuleHolds
      BY <1>1, <1>2, Facts
    <2>2. ModuleHolds'
      BY <1>1, <2>1 DEF ModuleHolds
    <2>3. RunsAreKept'
      <3> SUFFICES ASSUME NEW q \in Runs
                   PROVE /\ Starts(ledger[q]) = {} =>
                              Ends(ledger[q]) = {} /\ \A j \in DOMAIN Cards[q] : ran'[q][j] = 0
                         /\ \A s, t \in Ends(ledger[q]) : s = t
        BY <1>1 DEF RunsAreKept
      <3>1. CASE q = r
        BY <2>1, <3>1 DEF RunsAreKept
      <3>2. CASE q # r
        <4>1. ran'[q] = ran[q]
          BY <1>6, <3>2
        <4> QED
          BY <2>1, <4>1 DEF RunsAreKept
      <3> QED
        BY <3>1, <3>2
    <2> QED
      BY <2>2, <2>3
  <1>11. ASSUME proc'[p] = x PROVE ProcHolds(p)'
    <2>1. \A j \in DOMAIN Cards[r] : j >= i + 1 => ran'[r][j] = 0
      <3>1. i \in Nat /\ \A j \in DOMAIN Cards[r] : j \in Nat
        BY <1>1, <1>3, Facts
      <3> QED
        BY <1>2, <1>6, <3>1 DEF Unrun
    <2> QED
      BY <1>1, <1>2, <1>7, <1>11, <2>1 DEF ProcHolds, Unrun
  <1> QED
    BY <1>1, <1>6, <1>7, <1>8, <1>9, <1>10, <1>11, Facts, StepKeeps

LEMMA RecordStep ==
    ASSUME OneAtATime, CardInv, NEW p \in Procs, Record(p)
    PROVE  CardInv'
  <1> DEFINE r == proc[p].run
             i == proc[p].step
             out == proc[p].outcome
             status == IF out = "blocked" THEN "blocked" ELSE "failed"
             type == CASE out = "completed" -> "step_completed"
                       [] out = "blocked" -> "step_blocked"
                       [] out = "failed" -> "step_failed"
                       [] out = "denied" -> "security_violation"
             new == IF out = "completed" THEN "running" ELSE status
             e == [type |-> type, status |-> new, dry |-> FALSE]
             x == IF out = "completed" THEN [proc[p] EXCEPT !.pc = "step", !.step = i + 1]
                  ELSE [proc[p] EXCEPT !.pc = "end", !.status = status]
  <1>1. proc[p].pc = "record" /\ proc[p].pc # "idle" /\ module' = module /\ ran' = ran
    BY DEF Record
  <1>2. /\ r \in RunsOf[p] /\ proc[p].dry \in Starts(ledger[r]) /\ Ends(ledger[r]) = {}
        /\ Unrun(p, i + 1) /\ out \in {"completed", "blocked", "failed", "denied"}
    BY <1>1, Facts DEF ProcHolds, Outcomes
  <1>3. status \in {"blocked", "failed"} /\ status \in Terminal /\ status \in Statuses
    BY DEF Terminal, Statuses
  <1>4. /\ type \in EventTypes /\ type # "run_started"
        /\ new \in Statuses /\ "running" \notin Terminal
    <2>1. type \in {"step_completed", "step_blocked", "step_failed", "security_violation"}
      BY <1>2
    <2> HIDE DEF type
    <2> QED
      BY <1>3, <2>1 DEF EventTypes, Statuses, Terminal
  <1>5. Write(r, type, new, FALSE)
    BY <1>1, <1>2 DEF Record
  <1> HIDE DEF status, type
  <1>6. /\ x \in Proc /\ x.run = r /\ x.dry = proc[p].dry
        /\ out = "completed" => x.pc = "step" /\ x.step = i + 1
        /\ out # "completed" => x.pc = "end" /\ x.status = status
    <2>1. proc[p] \in Proc /\ i + 1 \in Nat \ {0} /\ proc[p].run = r
      BY <1>1, Facts
    <2>2. CASE out = "completed"
      BY <2>1, <2>2 DEF Proc, PCs
    <2>3. CASE out # "completed"
      BY <1>3, <2>1, <2>3 DEF Proc, PCs
    <2> QED
      BY <2>2, <2>3
  <1>7. proc' = [proc EXCEPT ![p] = x]
    BY <1>1, <1>2, Facts DEF Record, CardTypeOK, status
  <1>10. /\ e \in Event /\ Write(r, e.type, e.status, e.dry)
        /\ e.status = new /\ e.type = type
    BY <1>4, <1>5 DEF Event
  <1> HIDE DEF e, x
  <1>8. ASSUME proc'[p] = x, Ends(ledger'[r]) = Ends(ledger[r]) \cup ({e.status} \cap Terminal),
               Starts(ledger'[r]) =
                 Starts(ledger[r]) \cup (IF e.type = "run_started" THEN {e.dry} ELSE {})
        PROVE  ProcHolds(p)'
    <2>1. proc'[p].dry \in Starts(ledger'[r]) /\ proc'[p].run = r
      BY <1>2, <1>6, <1>8
    <2>2. CASE out = "completed"
      <3>1. Ends(ledger'[r]) = {} /\ proc'[p].pc = "step" /\ proc'[p].step = i + 1
        BY <1>2, <1>4, <1>6, <1>8, <1>10, <2>2
      <3> QED
        BY <1>1, <1>2, <2>1, <3>1 DEF ProcHolds, Unrun
    <2>3. CASE out # "completed"
      <3>1. Ends(ledger'[r]) \subseteq {status} /\ proc'[p].pc = "end" /\ proc'[p].status = status
        BY <1>2, <1>4, <1>6, <1>8, <1>10, <2>3
      <3> QED
        BY <1>2, <1>3, <2>1, <3>1 DEF ProcHolds
    <2> QED
      BY <2>2, <2>3
  <1>9. e.status \in Terminal => Starts(ledger[r]) # {} /\ Ends(ledger[r]) \subseteq {e.status}
    BY <1>2
  <1> QED
    BY <1>1, <1>6, <1>7, <1>8, <1>9, <1>10, EventStep

LEMMA WriteEndStep ==
    ASSUME OneAtATime, CardInv, NEW p \in Procs, WriteEnd(p)
    PROVE  CardInv'
  <1> DEFINE r == proc[p].run
             status == proc[p].status
             e == [type |-> IF status = "failed" THEN "run_failed" ELSE "run_finished",
                   status |-> status, dry |-> FALSE]
             pc == IF proc[p].dry THEN "idle" ELSE "state"
             x == [proc[p] EXCEPT !.pc = pc]
  <1>1. proc[p].pc = "end" /\ proc[p].pc # "idle" /\ module' = module /\ ran' = ran
    BY DEF WriteEnd
  <1>2. /\ r \in RunsOf[p] /\ proc[p].dry \in Starts(ledger[r])
        /\ status \in Terminal /\ Ends(ledger[r]) \subseteq {status}
    BY <1>1, Facts DEF ProcHolds
  <1>3. /\ e \in Event /\ e.status = status
        /\ e.type \in {"run_finished", "run_failed"} /\ e.type # "run_started"
    BY <1>2 DEF Event, EventTypes, Statuses
  <1>4. pc \in {"idle", "state"} /\ (pc = "state" => ~proc[p].dry)
    OBVIOUS
  <1>5. Write(r, e.type, e.status, e.dry) /\ proc' = [proc EXCEPT ![p].pc = pc]
    BY DEF WriteEnd, Goto
  <1> HIDE DEF pc
  <1>6. x \in Proc /\ x.run = r /\ x.dry = proc[p].dry /\ x.pc = pc /\ x.status = status
    BY <1>1, <1>4, Facts DEF Proc, PCs
  <1>7. proc' = [proc EXCEPT ![p] = x]
    BY <1>1, <1>5, Facts DEF CardTypeOK
  <1> HIDE DEF e, x
  <1>8. ASSUME proc'[p] = x, Ends(ledger'[r]) = Ends(ledger[r]) \cup ({e.status} \cap Terminal),
               Starts(ledger'[r]) =
                 Starts(ledger[r]) \cup (IF e.type = "run_started" THEN {e.dry} ELSE {}),
               Closed(ledger'[r])
        PROVE  ProcHolds(p)'
    <2>1. Ends(ledger'[r]) = {status} /\ proc[p].dry \in Starts(ledger'[r])
      BY <1>2, <1>3, <1>8
    <2>2. proc'[p].run = r /\ proc'[p].pc = pc /\ proc'[p].status = status
      BY <1>6, <1>8
    <2>3. proc'[p].dry \in Starts(ledger'[r]) /\ (pc = "state" => ~proc'[p].dry)
      BY <1>4, <1>6, <1>8, <2>1
    <2> QED
      BY <1>2, <1>4, <1>8, <2>1, <2>2, <2>3 DEF ProcHolds
  <1> QED
    <2>1. e.status \in Terminal => Starts(ledger[r]) # {} /\ Ends(ledger[r]) \subseteq {e.status}
      BY <1>2, <1>3
    <2> QED
      BY <1>1, <1>3, <1>5, <1>6, <1>7, <1>8, <2>1, EventStep

LEMMA UpdateStateStep ==
    ASSUME OneAtATime, CardInv, NEW p \in Procs, UpdateState(p)
    PROVE  CardInv'
  <1> DEFINE r == proc[p].run
             x == [proc[p] EXCEPT !.pc = "idle"]
  <1>1. proc[p].pc = "state" /\ proc[p].pc # "idle" /\ ledger' = ledger /\ ran' = ran
    BY DEF UpdateState
  <1>2. module' = [run |-> r, status |-> proc[p].status] \/ module' = module
    BY DEF UpdateState
  <1>3. x \in Proc /\ x.pc = "idle"
    BY <1>1, Facts DEF Proc, PCs
  <1>4. proc' = [proc EXCEPT ![p] = x]
    BY <1>1, Facts DEF UpdateState, Goto, CardTypeOK
  <1> HIDE DEF x
  <1>5. ASSUME proc'[p] = x PROVE ProcHolds(p)'
    BY <1>3, <1>5 DEF ProcHolds
  <1>6. CommandsRunOnce' /\ RunsAreKept'
    BY <1>1, Facts DEF CommandsRunOnce, RunsAreKept
  <1>7. ModuleHolds' /\ module' \in [run : Runs \cup {None}, status : Statuses \cup {None}]
    <2>1. CASE module' = module
      BY <1>1, <2>1, Facts DEF ModuleHolds
    <2>2. CASE module' = [run |-> r, status |-> proc[p].status]
      <3>1. /\ proc[p].dry \in Starts(ledger[r]) /\ ~proc[p].dry /\ proc[p].dry \in BOOLEAN
            /\ Closed(ledger[r]) /\ Ends(ledger[r]) # {}
            /\ Ends(ledger[r]) \subseteq {proc[p].status}
        BY <1>1, Facts DEF ProcHolds
      <3>2. FALSE \in Starts(ledger[r]) /\ Ends(ledger[r]) = {proc[p].status}
        BY <3>1
      <3> QED
        BY <1>1, <2>2, <3>1, <3>2, Facts DEF ModuleHolds
    <2> QED
      BY <1>2, <2>1, <2>2
  <1> QED
    BY <1>1, <1>3, <1>4, <1>5, <1>6, <1>7, Facts, StepKeeps

LEMMA CardInvStep ==
    ASSUME OneAtATime, CardInv, [CardNext]_cardVars
    PROVE  CardInv'
  <1>1. CASE UNCHANGED cardVars
    BY <1>1 DEF cardVars, CardInv, CardTypeOK, CommandsRunOnce, RunsAreKept, ProcsHold, ProcHolds,
                Unrun, ModuleHolds
  <1>2. CASE CardNext
    BY <1>2, CallStep, FindStep, BeginStep, NextStepStep, ExecuteStep, RecordStep, WriteEndStep,
       UpdateStateStep DEF CardNext, RunCard
  <1> QED
    BY <1>1, <1>2

-----------------------------------------------------------------------------
(* The theorems.                                                           *)

\* The inductive invariant.
THEOREM CardInvariance == ASSUME OneAtATime PROVE CardSpec => []CardInv
  <1>1. CardInv /\ [CardNext]_cardVars => CardInv'
    BY CardInvStep
  <1> QED
    BY CardInvInit, <1>1, PTL DEF CardSpec

\* However often a run is asked for again, and wherever the processes before died, no
\* command of it runs a second time.
THEOREM NoCommandRunsTwice == ASSUME OneAtATime PROVE CardSpec => []CommandsRunOnce
  <1>1. CardInv => CommandsRunOnce
    BY DEF CardInv
  <1> QED
    BY CardInvariance, <1>1, PTL

\* The state file never says of a run what find_run would not answer.
THEOREM StateFollows == ASSUME OneAtATime PROVE CardSpec => []StateFollowsLedger
  <1>1. CardInv => StateFollowsLedger
    <2> SUFFICES ASSUME CardInv, module.run # None PROVE StateFollowsLedger
      BY DEF StateFollowsLedger
    <2> DEFINE lg == ledger[module.run]
    <2>1. lg \in Seq(Event) /\ Ends(lg) = {module.status} /\ FALSE \in Starts(lg) /\ Closed(lg)
      BY DEF CardInv, CardTypeOK, ModuleHolds
    <2>2. FindRun(lg) = module.status
      BY <2>1, FindRunFacts
    <2>3. \E i \in 1..Len(lg) : lg[i].type = "run_started" /\ ~lg[i].dry
      BY <2>1 DEF Starts, StartsOf
    <2> QED
      BY <2>1, <2>2, <2>3 DEF StateFollowsLedger, Closed
  <1> QED
    BY CardInvariance, <1>1, PTL

\* A run that has ended is not written to any more, but for the event that closes it.
LEMMA EndsStay ==
    ASSUME CardInv, CardNext, NEW r \in Runs, Ends(ledger[r]) # {}
    PROVE  /\ Ends(ledger'[r]) = Ends(ledger[r]) /\ Starts(ledger'[r]) = Starts(ledger[r])
           /\ ledger'[r] \in Seq(Event) /\ ran'[r] = ran[r]
  <1>1. ledger[r] \in Seq(Event) /\ DOMAIN ledger = Runs /\ DOMAIN ran = Runs
    BY DEF CardInv, CardTypeOK
  <1>2. PICK p \in Procs : CallCard(p) \/ RunCard(p) \/ Die(p)
    BY DEF CardNext
  <1>3. CASE ledger'[r] = ledger[r] /\ ran'[r] = ran[r]
    BY <1>1, <1>3
  <1>4. CASE CallCard(p) \/ Find(p) \/ UpdateState(p) \/ Die(p)
    BY <1>3, <1>4 DEF CallCard, Find, UpdateState, Die
  <1>5. CASE WritePending(p) \/ WriteStarted(p) \/ NextStep(p) \/ Execute(p) \/ Record(p)
    <2>1. proc[p].pc \in {"pending", "started", "step", "execute", "record"} /\ proc[p].pc # "idle"
      BY <1>5 DEF WritePending, WriteStarted, NextStep, Execute, Record
    <2>2. proc[p].run # r /\ proc[p].run \in Runs
      BY <2>1, Facts DEF ProcHolds, RunsAreKept
    <2>3. ledger'[r] = ledger[r] /\ ran'[r] = ran[r]
      <3>1. CASE WritePending(p) \/ WriteStarted(p)
        BY <1>1, <2>2, <3>1 DEF WritePending, WriteStarted, Write
      <3>2. CASE NextStep(p)
        BY <1>1, <2>2, <3>2 DEF NextStep, Write
      <3>3. CASE Execute(p)
        BY <1>1, <2>2, <3>3 DEF Execute
      <3>4. CASE Record(p)
        <4>1. proc[p].outcome \in {"completed", "blocked", "failed", "denied"}
          BY <2>1, <3>4, Facts DEF Record, ProcHolds, Outcomes
        <4> QED
          BY <1>1, <2>2, <3>4, <4>1 DEF Record, Write
      <3> QED
        BY <1>5, <3>1, <3>2, <3>3, <3>4
    <2> QED
      BY <1>3, <2>3
  <1>6. CASE WriteEnd(p)
    <2> DEFINE status == proc[p].status
               e == [type |-> IF status = "failed" THEN "run_failed" ELSE "run_finished",
                     status |-> status, dry |-> FALSE]
    <2>1. /\ proc[p].pc = "end" /\ proc[p].pc # "idle" /\ ran' = ran
          /\ ledger' = [ledger EXCEPT ![proc[p].run] = Append(ledger[proc[p].run], e)]
      BY <1>6 DEF WriteEnd, Write
    <2>2. /\ status \in Terminal /\ Ends(ledger[proc[p].run]) \subseteq {status}
      BY <2>1, Facts DEF ProcHolds
    <2>3. e \in Event /\ e.status = status /\ e.type # "run_started"
      BY <2>2 DEF Event, EventTypes, Statuses
    <2> HIDE DEF e, status
    <2>4. CASE proc[p].run = r
      <3>1. ledger'[r] = Append(ledger[r], e)
        BY <1>1, <2>1, <2>4
      <3>2. /\ Ends(ledger'[r]) = Ends(ledger[r]) \cup ({e.status} \cap Terminal)
            /\ Starts(ledger'[r]) = Starts(ledger[r]) \cup {}
            /\ ledger'[r] \in Seq(Event)
        BY <1>1, <2>3, <3>1, AppendFacts
      <3> QED
        BY <2>1, <2>2, <2>3, <2>4, <3>2
    <2>5. CASE proc[p].run # r
      BY <1>1, <1>3, <2>1, <2>5
    <2> QED
      BY <2>4, <2>5
  <1> QED
    BY <1>2, <1>4, <1>5, <1>6 DEF RunCard

\* What run_card answers from the ledger once a run has ended is final, and no command
\* of the run is executed after it.
THEOREM AnswersAreFinal == ASSUME OneAtATime PROVE CardSpec => CachedEndIsFinal
  <1> DEFINE A == \A r \in Runs :
                    FindRun(ledger[r]) \in Terminal
                        => /\ FindRun(ledger'[r]) = FindRun(ledger[r])
                           /\ ran'[r] = ran[r]
  <1>1. CardInv /\ [CardNext]_cardVars => [A]_cardVars
    <2> SUFFICES ASSUME CardInv, CardNext, NEW r \in Runs, FindRun(ledger[r]) \in Terminal
                 PROVE  FindRun(ledger'[r]) = FindRun(ledger[r]) /\ ran'[r] = ran[r]
      BY DEF cardVars
    <2>1. ledger[r] \in Seq(Event) /\ RunsAreKept
      BY DEF CardInv, CardTypeOK
    <2>2. Starts(ledger[r]) # {} /\ Ends(ledger[r]) # {} /\ FindRun(ledger[r]) \in Ends(ledger[r])
      BY <2>1, FindRunFacts
    <2>3. /\ Ends(ledger'[r]) = Ends(ledger[r]) /\ Starts(ledger'[r]) = Starts(ledger[r])
          /\ ledger'[r] \in Seq(Event) /\ ran'[r] = ran[r]
      BY <2>2, EndsStay
    <2>4. FindRun(ledger'[r]) \in Ends(ledger'[r])
      BY <2>2, <2>3, FindRunFacts
    <2> QED
      BY <2>1, <2>2, <2>3, <2>4 DEF RunsAreKept
  <1> QED
    BY CardInvariance, <1>1, PTL DEF CardSpec, CachedEndIsFinal

-----------------------------------------------------------------------------
(* The length of a call.  Nothing here needs a run to be asked for by one  *)
(* process only.                                                           *)

\* How far the locals q of a call are from its end: the way to the first step, three
\* steps for every step of the card that is left, and the way out.
StepsToGo(q) ==
    LET left == 3 * (Len(Cards[q.run]) + 1 - q.step)
    IN  CASE q.pc = "idle" -> 0
          [] q.pc = "state" -> 1
          [] q.pc = "end" -> 2
          [] q.pc = "record" -> left + 1
          [] q.pc = "execute" -> left + 2
          [] q.pc = "step" -> left + 3
          [] q.pc = "started" -> left + 4
          [] q.pc = "pending" -> left + 5
          [] q.pc = "find" -> left + 6

\* A call is at a step of its card.
InCard(q) ==
    q.pc # "idle" =>
        /\ q.run \in Runs
        /\ q.pc \in {"find", "pending", "started"} => q.step = 1
        /\ q.pc = "step" => q.step <= Len(Cards[q.run]) + 1
        /\ q.pc \in {"execute", "record"} => q.step <= Len(Cards[q.run])
        /\ q.pc = "record" => q.outcome # None
        /\ q.pc = "end" => q.status \in Terminal

CallsInCard ==
    /\ ledger \in [Runs -> Seq(Event)]
    /\ proc \in [Procs -> Proc]
    /\ \A p \in Procs : InCard(proc[p])

\* The call of p goes on with the locals x, nearer to its end.
Advances(p, x) ==
    /\ x \in Proc /\ InCard(x)
    /\ proc' = [proc EXCEPT ![p] = x]
    /\ StepsToGo(x) < StepsToGo(proc[p])

\* The distance is a number, and zero at the end only.
LEMMA ToGoFacts ==
    ASSUME NEW q \in Proc, InCard(q)
    PROVE  /\ StepsToGo(q) \in Nat
           /\ StepsToGo(q) = 0 <=> q.pc = "idle"
           /\ q.pc # "idle" => StepsToGo(q) <= 3 * Len(Cards[q.run]) + 6
  <1>1. q.pc \in PCs /\ q.step \in Nat \ {0}
    BY DEF Proc
  <1>2. CASE q.pc = "idle"
    BY <1>2 DEF StepsToGo
  <1>3. CASE q.pc # "idle"
    <2>1. Cards[q.run] \in Seq(StepKinds)
      BY <1>3, CardAssumption DEF InCard
    <2>2. PICK n \in Nat : n = Len(Cards[q.run])
      BY <2>1
    <2>3. PICK i \in Nat \ {0} : i = q.step
      BY <1>1
    <2>4. CASE q.pc = "state" \/ q.pc = "end"
      <3>1. StepsToGo(q) \in {1, 2}
        BY <2>4 DEF StepsToGo
      <3> QED
        BY <1>3, <2>2, <3>1
    <2>5. CASE q.pc \notin {"state", "end"}
      <3>1. /\ q.pc \in {"find", "pending", "started"} => i = 1
            /\ q.pc = "step" => i <= n + 1
            /\ q.pc \in {"execute", "record"} => i <= n
        BY <1>3, <2>2, <2>3 DEF InCard
      <3>2. PICK k \in 1..6 : StepsToGo(q) = 3 * (n + 1 - i) + k
        BY <1>1, <1>3, <2>2, <2>3, <2>5 DEF StepsToGo, PCs
      <3>3. i <= n + 1
        BY <1>1, <1>3, <2>5, <3>1 DEF PCs
      <3>4. PICK m \in Nat \ {0} : m = 3 * (n + 1 - i) + k /\ m <= 3 * n + 6
        <4>1. /\ 3 * (n + 1 - i) + k \in Nat \ {0}
              /\ 3 * (n + 1 - i) + k <= 3 * n + 6
          BY <3>3
        <4> QED
          BY <4>1
      <3>5. StepsToGo(q) = m
        BY <3>2, <3>4
      <3> QED
        BY <1>3, <2>2, <3>4, <3>5
    <2> QED
      BY <2>4, <2>5
  <1> QED
    BY <1>2, <1>3

\* What a step may assume of its call.
LEMMA CallFacts ==
    ASSUME CallsInCard, NEW p \in Procs, proc[p].pc # "idle"
    PROVE  /\ proc[p] \in Proc /\ InCard(proc[p])
           /\ proc[p].run \in Runs /\ proc[p].dry \in BOOLEAN /\ proc[p].step \in Nat \ {0}
           /\ proc[p].status \in Statuses \cup {None} /\ proc[p].outcome \in Outcomes
           /\ Len(Cards[proc[p].run]) \in Nat \ {0}
           /\ DOMAIN proc = Procs
           /\ StepsToGo(proc[p]) \in Nat \ {0}
  <1>1. proc[p] \in Proc /\ InCard(proc[p]) /\ DOMAIN proc = Procs
    BY DEF CallsInCard
  <1>2. proc[p].run \in Runs
    BY <1>1 DEF InCard
  <1>3. Cards[proc[p].run] \in Seq(StepKinds) /\ Cards[proc[p].run] # <<>>
    BY <1>2, CardAssumption
  <1>4. Len(Cards[proc[p].run]) \in Nat \ {0}
    BY <1>3
  <1>5. StepsToGo(proc[p]) \in Nat /\ StepsToGo(proc[p]) # 0
    BY <1>1, ToGoFacts
  <1> QED
    BY <1>1, <1>2, <1>4, <1>5 DEF Proc

\* A call that ends, or goes to one of the last two places.
LEMMA GoesOut ==
    ASSUME CallsInCard, NEW p \in Procs, NEW x \in Proc, InCard(x),
           proc' = [proc EXCEPT ![p] = x],
           \/ x.pc = "idle" /\ proc[p].pc # "idle"
           \/ x.pc = "state" /\ proc[p].pc = "end"
           \/ x.pc = "end" /\ proc[p].pc \in {"step", "record"}
    PROVE  Advances(p, x)
  <1>1. StepsToGo(proc[p]) \in Nat \ {0}
    BY CallFacts
  <1>2. CASE x.pc = "idle"
    <2>1. StepsToGo(x) = 0
      BY <1>2 DEF StepsToGo
    <2> QED
      BY <1>1, <2>1 DEF Advances
  <1>3. CASE x.pc = "state"
    <2>1. StepsToGo(x) = 1 /\ StepsToGo(proc[p]) = 2
      BY <1>3 DEF StepsToGo
    <2> QED
      BY <2>1 DEF Advances
  <1>4. CASE x.pc = "end"
    <2>1. StepsToGo(x) = 2
      BY <1>4 DEF StepsToGo
    <2>2. PICK n \in Nat, i \in Nat : n = Len(Cards[proc[p].run]) /\ i = proc[p].step
      BY <1>4, CallFacts
    <2>3. \/ StepsToGo(proc[p]) = 3 * (n + 1 - i) + 1 /\ i <= n
          \/ StepsToGo(proc[p]) = 3 * (n + 1 - i) + 3 /\ i <= n + 1
      BY <1>4, <2>2, CallFacts DEF StepsToGo, InCard
    <2>4. /\ i <= n => 2 < 3 * (n + 1 - i) + 1
          /\ i <= n + 1 => 2 < 3 * (n + 1 - i) + 3
      OBVIOUS
    <2>5. 2 < StepsToGo(proc[p])
      BY <2>3, <2>4
    <2> QED
      BY <2>1, <2>5 DEF Advances
  <1> QED
    BY <1>2, <1>3, <1>4

\* A call that goes one place further in its card.
LEMMA GoesOn ==
    ASSUME CallsInCard, NEW p \in Procs, NEW x \in Proc, InCard(x),
           proc' = [proc EXCEPT ![p] = x], x.run = proc[p].run,
           \/ /\ <<proc[p].pc, x.pc>> \in {<<"find", "pending">>, <<"pending", "started">>,
                     <<"started", "step">>, <<"step", "execute">>, <<"execute", "record">>}
              /\ x.step = proc[p].step
           \/ /\ proc[p].pc = "record" /\ x.pc = "step"
              /\ x.step = proc[p].step + 1
    PROVE  Advances(p, x)
  <1>1. PICK n \in Nat, i \in Nat : n = Len(Cards[proc[p].run]) /\ i = proc[p].step
    BY CallFacts
  <1>2. CASE proc[p].pc = "record"
    <2>1. /\ StepsToGo(proc[p]) = 3 * (n + 1 - i) + 1
          /\ StepsToGo(x) = 3 * (n + 1 - (i + 1)) + 3
      BY <1>1, <1>2 DEF StepsToGo
    <2>2. 3 * (n + 1 - (i + 1)) + 3 < 3 * (n + 1 - i) + 1
      OBVIOUS
    <2> QED
      BY <2>1, <2>2 DEF Advances
  <1>3. CASE proc[p].pc # "record"
    <2>1. PICK l \in Int : l = 3 * (n + 1 - i)
      OBVIOUS
    <2>2. x.run = proc[p].run /\ x.step = i
      BY <1>1, <1>3
    <2>3. \/ StepsToGo(proc[p]) = l + 6 /\ StepsToGo(x) = l + 5
          \/ StepsToGo(proc[p]) = l + 5 /\ StepsToGo(x) = l + 4
          \/ StepsToGo(proc[p]) = l + 4 /\ StepsToGo(x) = l + 3
          \/ StepsToGo(proc[p]) = l + 3 /\ StepsToGo(x) = l + 2
          \/ StepsToGo(proc[p]) = l + 2 /\ StepsToGo(x) = l + 1
      BY <1>1, <1>3, <2>1, <2>2 DEF StepsToGo
    <2>4. StepsToGo(x) < StepsToGo(proc[p])
      BY <2>3
    <2> QED
      BY <2>4 DEF Advances
  <1> QED
    BY <1>2, <1>3

\* A write keeps the ledger one.
LEMMA WriteKeepsType ==
    ASSUME CallsInCard, NEW r \in Runs, NEW type \in EventTypes, NEW status \in Statuses,
           NEW dry \in BOOLEAN, Write(r, type, status, dry)
    PROVE  ledger' \in [Runs -> Seq(Event)]
  <1>1. [type |-> type, status |-> status, dry |-> dry] \in Event
    BY DEF Event
  <1>2. ledger[r] \in Seq(Event)
    BY DEF CallsInCard
  <1>3. Append(ledger[r], [type |-> type, status |-> status, dry |-> dry]) \in Seq(Event)
    BY <1>1, <1>2, AppendProperties
  <1> QED
    BY <1>3 DEF Write, CallsInCard

Progress(p) == ledger' \in [Runs -> Seq(Event)] /\ \E x \in Proc : Advances(p, x)

LEMMA FindProgress ==
    ASSUME CallsInCard, NEW p \in Procs, Find(p)
    PROVE  Progress(p)
  <1> DEFINE cached == FindRun(ledger[proc[p].run])
  <1>1. proc[p].pc = "find" /\ ledger' = ledger
    BY DEF Find
  <1>2. cached \in Statuses \cup {None}
    BY <1>1, CallFacts, FindRunFacts DEF CallsInCard
  <1>3. CASE cached = None
    <2> DEFINE x == [proc[p] EXCEPT !.pc = "pending"]
    <2>1. /\ x \in Proc /\ x.pc = "pending" /\ x.run = proc[p].run /\ x.step = proc[p].step
      BY <1>1, CallFacts DEF Proc, PCs
    <2>2. proc' = [proc EXCEPT ![p] = x]
      BY <1>3, CallFacts, <1>1 DEF Find
    <2> HIDE DEF x
    <2>3. InCard(x)
      BY <1>1, <2>1, CallFacts DEF InCard
    <2> QED
      BY <1>1, <2>1, <2>2, <2>3, GoesOn DEF Progress, CallsInCard
  <1>4. CASE cached # None
    <2> DEFINE x == [Idle EXCEPT !.run = proc[p].run, !.status = cached]
    <2>1. x \in Proc /\ x.pc = "idle"
      <3>1. Idle \in Proc /\ Idle.pc = "idle"
        BY DEF Idle, Proc, PCs, Outcomes
      <3> QED
        BY <1>1, <1>2, <3>1, CallFacts DEF Proc
    <2>2. proc' = [proc EXCEPT ![p] = x]
      BY <1>4 DEF Find
    <2> HIDE DEF x
    <2>3. InCard(x)
      BY <2>1 DEF InCard
    <2> QED
      BY <1>1, <2>1, <2>2, <2>3, GoesOut DEF Progress, CallsInCard
  <1> QED
    BY <1>3, <1>4

LEMMA BeginProgress ==
    ASSUME CallsInCard, NEW p \in Procs, WritePending(p) \/ WriteStarted(p)
    PROVE  Progress(p)
  <1> DEFINE x == [proc[p] EXCEPT !.pc = IF proc[p].pc = "pending" THEN "started" ELSE "step"]
  <1>1. /\ proc[p].pc \in {"pending", "started"}
        /\ \/ Write(proc[p].run, "run_pending", "pending", proc[p].dry)
           \/ Write(proc[p].run, "run_started", "running", proc[p].dry)
    BY DEF WritePending, WriteStarted
  <1>2. ledger' \in [Runs -> Seq(Event)]
    <2>1. {"run_pending", "run_started"} \subseteq EventTypes /\ {"pending", "running"} \subseteq Statuses
      BY DEF EventTypes, Statuses
    <2> QED
      BY <1>1, <2>1, CallFacts, WriteKeepsType
  <1>3. /\ x \in Proc /\ x.pc = IF proc[p].pc = "pending" THEN "started" ELSE "step"
        /\ x.run = proc[p].run /\ x.step = proc[p].step
    BY <1>1, CallFacts DEF Proc, PCs
  <1>4. proc' = [proc EXCEPT ![p] = x]
    BY <1>1, CallFacts DEF WritePending, WriteStarted, Goto
  <1> HIDE DEF x
  <1>5. InCard(x)
    <2>1. PICK n \in Nat \ {0} : n = Len(Cards[proc[p].run])
      BY <1>1, CallFacts
    <2>2. proc[p].step = 1 /\ proc[p].run \in Runs
      BY <1>1, CallFacts DEF InCard
    <2> QED
      BY <1>1, <1>3, <2>1, <2>2 DEF InCard
  <1> QED
    BY <1>1, <1>2, <1>3, <1>4, <1>5, GoesOn DEF Progress

LEMMA NextStepProgress ==
    ASSUME CallsInCard, NEW p \in Procs, NextStep(p)
    PROVE  Progress(p)
  <1>1. proc[p].pc = "step"
    BY DEF NextStep
  <1>2. CASE proc[p].step <= Len(Cards[proc[p].run])
    <2> DEFINE x == [proc[p] EXCEPT !.pc = "execute"]
    <2>1. ledger' \in [Runs -> Seq(Event)]
      <3>1. "step_started" \in EventTypes /\ "running" \in Statuses
        BY DEF EventTypes, Statuses
      <3> QED
        BY <1>1, <1>2, <3>1, CallFacts, WriteKeepsType DEF NextStep
    <2>2. /\ x \in Proc /\ x.pc = "execute" /\ x.run = proc[p].run /\ x.step = proc[p].step
      BY <1>1, CallFacts DEF Proc, PCs
    <2>3. proc' = [proc EXCEPT ![p] = x]
      BY <1>1, <1>2, CallFacts DEF NextStep, Goto
    <2> HIDE DEF x
    <2>4. InCard(x)
      BY <1>1, <1>2, <2>2, CallFacts DEF InCard
    <2> QED
      BY <1>1, <2>1, <2>2, <2>3, <2>4, GoesOn DEF Progress
  <1>3. CASE ~(proc[p].step <= Len(Cards[proc[p].run]))
    <2> DEFINE x == [proc[p] EXCEPT !.pc = "end", !.status = "completed"]
    <2>1. /\ x \in Proc /\ x.pc = "end" /\ x.run = proc[p].run /\ x.status = "completed"
      <3>1. "end" \in PCs /\ "completed" \in Statuses
        BY DEF PCs, Statuses, Terminal
      <3> QED
        BY <1>1, <3>1, CallFacts DEF Proc
    <2>2. proc' = [proc EXCEPT ![p] = x] /\ ledger' = ledger
      BY <1>1, <1>3, CallFacts DEF NextStep
    <2> HIDE DEF x
    <2>3. InCard(x)
      BY <1>1, <2>1, CallFacts DEF InCard, Terminal
    <2> QED
      BY <1>1, <2>1, <2>2, <2>3, GoesOut DEF Progress, CallsInCard
  <1> QED
    BY <1>2, <1>3

LEMMA ExecuteProgress ==
    ASSUME CallsInCard, NEW p \in Procs, Execute(p)
    PROVE  Progress(p)
  <1>1. proc[p].pc = "execute" /\ ledger' = ledger
    BY DEF Execute
  <1>2. Cards[proc[p].run][proc[p].step] \in StepKinds
    <2>1. Cards[proc[p].run] \in Seq(StepKinds) /\ proc[p].step \in 1..Len(Cards[proc[p].run])
      BY <1>1, CallFacts, CardAssumption DEF InCard
    <2> QED
      BY <2>1, ElementOfSeq
  <1>3. PICK outcome \in Outcomes :
          /\ outcome # None
          /\ proc' = [proc EXCEPT ![p].pc = "record", ![p].outcome = outcome]
    BY <1>2 DEF Execute, StepKinds, None
  <1> DEFINE x == [proc[p] EXCEPT !.pc = "record", !.outcome = outcome]
  <1>4. /\ x \in Proc /\ x.pc = "record" /\ x.run = proc[p].run /\ x.step = proc[p].step
        /\ x.outcome = outcome
    BY <1>1, CallFacts DEF Proc, PCs
  <1>5. proc' = [proc EXCEPT ![p] = x]
    BY <1>1, <1>3, CallFacts
  <1> HIDE DEF x
  <1>6. InCard(x)
    BY <1>1, <1>3, <1>4, CallFacts DEF InCard
  <1> QED
    BY <1>1, <1>4, <1>5, <1>6, GoesOn DEF Progress, CallsInCard

LEMMA RecordProgress ==
    ASSUME CallsInCard, NEW p \in Procs, Record(p)
    PROVE  Progress(p)
  <1> DEFINE out == proc[p].outcome
             status == IF out = "blocked" THEN "blocked" ELSE "failed"
  <1>1. proc[p].pc = "record" /\ out \in {"completed", "blocked", "failed", "denied"}
    BY CallFacts DEF Record, InCard, Outcomes
  <1>2. ledger' \in [Runs -> Seq(Event)]
    <2>1. /\ {"step_completed", "step_blocked", "step_failed", "security_violation"} \subseteq EventTypes
          /\ {"running", "blocked", "failed"} \subseteq Statuses
      BY DEF EventTypes, Statuses, Terminal
    <2>2. \/ Write(proc[p].run, "step_completed", "running", FALSE)
          \/ Write(proc[p].run, "step_blocked", "blocked", FALSE)
          \/ Write(proc[p].run, "step_failed", "failed", FALSE)
          \/ Write(proc[p].run, "security_violation", "failed", FALSE)
      BY <1>1 DEF Record
    <2> QED
      BY <1>1, <2>1, <2>2, CallFacts, WriteKeepsType
  <1>3. CASE out = "completed"
    <2> DEFINE x == [proc[p] EXCEPT !.pc = "step", !.step = proc[p].step + 1]
    <2>1. PICK n \in Nat, i \in Nat \ {0} : n = Len(Cards[proc[p].run]) /\ i = proc[p].step
      BY <1>1, CallFacts
    <2>2. i <= n
      BY <1>1, <2>1, CallFacts DEF InCard
    <2>3. i + 1 \in Nat \ {0} /\ i + 1 <= n + 1
      BY <2>2
    <2>4. /\ x \in Proc /\ x.pc = "step" /\ x.run = proc[p].run /\ x.step = i + 1
      BY <1>1, <2>1, <2>3, CallFacts DEF Proc, PCs
    <2>5. proc' = [proc EXCEPT ![p] = x]
      BY <1>1, <1>3, CallFacts DEF Record
    <2> HIDE DEF x
    <2>6. InCard(x)
      BY <1>1, <2>1, <2>3, <2>4, CallFacts DEF InCard
    <2> QED
      BY <1>1, <1>2, <2>1, <2>4, <2>5, <2>6, GoesOn DEF Progress
  <1>4. CASE out # "completed"
    <2> DEFINE x == [proc[p] EXCEPT !.pc = "end", !.status = status]
    <2>1. status \in Terminal /\ status \in Statuses
      BY DEF Terminal, Statuses
    <2>2. proc' = [proc EXCEPT ![p] = x]
      BY <1>1, <1>4, CallFacts DEF Record
    <2> HIDE DEF status
    <2>3. /\ x \in Proc /\ x.pc = "end" /\ x.run = proc[p].run /\ x.status = status
      BY <1>1, <2>1, CallFacts DEF Proc, PCs
    <2> HIDE DEF x
    <2>4. InCard(x)
      BY <1>1, <2>1, <2>3, CallFacts DEF InCard
    <2> QED
      BY <1>1, <1>2, <2>2, <2>3, <2>4, GoesOut DEF Progress
  <1> QED
    BY <1>3, <1>4

LEMMA EndProgress ==
    ASSUME CallsInCard, NEW p \in Procs, WriteEnd(p) \/ UpdateState(p)
    PROVE  Progress(p)
  <1>1. CASE WriteEnd(p)
    <2> DEFINE pc == IF proc[p].dry THEN "idle" ELSE "state"
               x == [proc[p] EXCEPT !.pc = pc]
    <2>1. /\ proc[p].pc = "end" /\ proc[p].status \in Statuses /\ pc \in {"idle", "state"}
      BY <1>1, CallFacts DEF WriteEnd, InCard, Statuses
    <2>2. ledger' \in [Runs -> Seq(Event)]
      <3>1. {"run_failed", "run_finished"} \subseteq EventTypes
        BY DEF EventTypes
      <3> QED
        BY <1>1, <2>1, <3>1, CallFacts, WriteKeepsType DEF WriteEnd
    <2>3. proc' = [proc EXCEPT ![p] = x]
      BY <1>1, <2>1, CallFacts DEF WriteEnd, Goto
    <2> HIDE DEF pc
    <2>4. x \in Proc /\ x.pc = pc /\ x.run = proc[p].run
      BY <2>1, CallFacts DEF Proc, PCs
    <2> HIDE DEF x
    <2>5. InCard(x)
      BY <2>1, <2>4, CallFacts DEF InCard
    <2> QED
      BY <2>1, <2>2, <2>3, <2>4, <2>5, GoesOut DEF Progress
  <1>2. CASE UpdateState(p)
    <2> DEFINE x == [proc[p] EXCEPT !.pc = "idle"]
    <2>1. proc[p].pc = "state" /\ ledger' = ledger
      BY <1>2 DEF UpdateState
    <2>2. x \in Proc /\ x.pc = "idle"
      BY <2>1, CallFacts DEF Proc, PCs
    <2>3. proc' = [proc EXCEPT ![p] = x]
      BY <1>2, <2>1, CallFacts DEF UpdateState, Goto
    <2> HIDE DEF x
    <2>4. InCard(x)
      BY <2>2 DEF InCard
    <2> QED
      BY <2>1, <2>2, <2>3, <2>4, GoesOut DEF Progress, CallsInCard
  <1> QED
    BY <1>1, <1>2

LEMMA DeathProgress ==
    ASSUME CallsInCard, NEW p \in Procs, Die(p)
    PROVE  Progress(p)
  <1>1. proc[p].pc # "idle" /\ proc' = [proc EXCEPT ![p] = Idle] /\ ledger' = ledger
    BY DEF Die
  <1>2. Idle \in Proc /\ Idle.pc = "idle" /\ InCard(Idle)
    BY DEF Idle, Proc, PCs, Outcomes, InCard
  <1> QED
    BY <1>1, <1>2, GoesOut DEF Progress, CallsInCard

\* Every step of a call, its death included, brings it nearer to its end.
LEMMA CallProgress ==
    ASSUME CallsInCard, NEW p \in Procs, RunCard(p) \/ Die(p)
    PROVE  Progress(p)
  BY FindProgress, BeginProgress, NextStepProgress, ExecuteProgress, RecordProgress, EndProgress,
     DeathProgress DEF RunCard

\* It leaves the other calls where they are.
LEMMA ProgressFacts ==
    ASSUME CallsInCard, NEW p \in Procs, Progress(p)
    PROVE  /\ CallsInCard'
           /\ StepsToGo(proc'[p]) < StepsToGo(proc[p])
           /\ \A q \in Procs \ {p} : proc'[q] = proc[q]
  <1>1. PICK x \in Proc : Advances(p, x)
    BY DEF Progress
  <1>2. proc'[p] = x /\ proc' \in [Procs -> Proc] /\ \A q \in Procs \ {p} : proc'[q] = proc[q]
    BY <1>1 DEF Advances, CallsInCard
  <1>3. InCard(x) /\ StepsToGo(x) < StepsToGo(proc[p])
    BY <1>1 DEF Advances
  <1>4. \A q \in Procs : InCard(proc'[q])
    BY <1>2, <1>3 DEF CallsInCard
  <1> QED
    BY <1>2, <1>3, <1>4 DEF CallsInCard, Progress

LEMMA CallInCard ==
    ASSUME CallsInCard, NEW p \in Procs, CallCard(p)
    PROVE  /\ CallsInCard'
           /\ proc[p].pc = "idle"
           /\ \A q \in Procs \ {p} : proc'[q] = proc[q]
  <1>1. PICK r \in RunsOf[p], dry \in BOOLEAN :
          proc' = [proc EXCEPT ![p] = [Idle EXCEPT !.pc = "find", !.run = r, !.dry = dry]]
    BY DEF CallCard
  <1>2. r \in Runs
    BY CardAssumption
  <1> DEFINE x == [Idle EXCEPT !.pc = "find", !.run = r, !.dry = dry]
  <1>3. x \in Proc /\ InCard(x)
    <2>1. Idle \in Proc /\ Idle.step = 1
      BY DEF Idle, Proc, PCs, Outcomes
    <2>2. x \in Proc /\ x.pc = "find" /\ x.run = r /\ x.step = 1
      BY <1>2, <2>1 DEF Proc, PCs
    <2> QED
      BY <1>2, <2>2 DEF InCard
  <1> HIDE DEF x
  <1> QED
    BY <1>1, <1>3 DEF CallsInCard, CallCard, x

\* run_card returns after at most three steps for every step of its card and six more:
\* every step of a call brings it nearer to its end, and nothing the other processes
\* do takes it back, not even when they have the same run.
THEOREM CardsRunOut ==
    CardSpec =>
        /\ [](\A p \in Procs :
                /\ StepsToGo(proc[p]) \in Nat
                /\ proc[p].pc # "idle" => StepsToGo(proc[p]) <= 3 * Len(Cards[proc[p].run]) + 6)
        /\ [][\A p \in Procs :
                /\ RunCard(p) => StepsToGo(proc'[p]) < StepsToGo(proc[p])
                /\ proc[p].pc # "idle" =>
                      proc'[p] = proc[p] \/ StepsToGo(proc'[p]) < StepsToGo(proc[p])]_cardVars
  <1> DEFINE Bounded == \A p \in Procs :
               /\ StepsToGo(proc[p]) \in Nat
               /\ proc[p].pc # "idle" => StepsToGo(proc[p]) <= 3 * Len(Cards[proc[p].run]) + 6
             Nearer == \A p \in Procs :
               /\ RunCard(p) => StepsToGo(proc'[p]) < StepsToGo(proc[p])
               /\ proc[p].pc # "idle" =>
                     proc'[p] = proc[p] \/ StepsToGo(proc'[p]) < StepsToGo(proc[p])
  <1>1. CardInit => CallsInCard
    <2>1. Idle \in Proc /\ InCard(Idle)
      BY DEF Idle, Proc, PCs, Outcomes, InCard
    <2> QED
      BY <2>1 DEF CardInit, CallsInCard
  <1>2. CallsInCard => Bounded
    BY ToGoFacts DEF CallsInCard
  <1>3. CallsInCard /\ [CardNext]_cardVars => CallsInCard' /\ [Nearer]_cardVars
    <2>1. CallsInCard /\ UNCHANGED cardVars => CallsInCard' /\ [Nearer]_cardVars
      BY DEF CallsInCard, cardVars
    <2>2. ASSUME CallsInCard, NEW p \in Procs, CallCard(p) \/ RunCard(p) \/ Die(p)
          PROVE  CallsInCard' /\ Nearer
      <3>1. /\ CallsInCard'
            /\ \A q \in Procs \ {p} : proc'[q] = proc[q]
            /\ proc[p].pc = "idle" \/ StepsToGo(proc'[p]) < StepsToGo(proc[p])
        BY <2>2, CallProgress, ProgressFacts, CallInCard
      <3>2. \A q \in Procs : RunCard(q) => StepsToGo(proc'[q]) < StepsToGo(proc[q])
        BY <2>2, CallProgress, ProgressFacts
      <3> QED
        BY <3>1, <3>2
    <2> QED
      BY <2>1, <2>2 DEF CardNext
  <1> QED
    BY <1>1, <1>2, <1>3, PTL DEF CardSpec
================================================================================
