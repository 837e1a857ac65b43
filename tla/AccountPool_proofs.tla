-------------------------- MODULE AccountPool_proofs --------------------------
(***************************************************************************)
(* Theorems about AccountPool, for any number of accounts and callers and  *)
(* any quota, cool-downs and bounds.                                       *)
(***************************************************************************)
EXTENDS AccountPool, TLAPS, FiniteSetTheorems, WellFoundedInduction

-----------------------------------------------------------------------------
(* The operators on one account.                                           *)

\* Midnights are times.
LEMMA MidnightType == \A t \in Nat : NextMidnight(t) \in Nat
  <1> SUFFICES ASSUME NEW t \in Nat PROVE NextMidnight(t) \in Nat
    OBVIOUS
  <1>1. t \div Day \in Nat
    BY PoolAssumption
  <1> DEFINE d == t \div Day + 1
  <1>2. d \in Nat
    BY <1>1
  <1> HIDE DEF d
  <1>3. d * Day \in Nat
    BY <1>2, PoolAssumption
  <1> QED
    BY <1>3 DEF NextMidnight, d

\* The refresh of pick never raises a count and only ends a cool-down that is over.
LEMMA RefreshFacts ==
    ASSUME now \in Nat, NEW r \in AccountState
    PROVE  /\ Refresh(r) \in AccountState
           /\ Refresh(r).used <= r.used
           /\ Refresh(r).cool = r.cool \/ (Refresh(r).cool = 0 /\ now >= r.cool)
  <1> DEFINE u == IF r.resetAt # 0 /\ now >= r.resetAt THEN 0 ELSE r.used
             m == IF now >= r.resetAt THEN NextMidnight(now) ELSE r.resetAt
             k == IF now >= r.cool THEN 0 ELSE r.cool
  <1>1. u \in Nat /\ u <= r.used
    BY DEF AccountState
  <1>2. m \in Nat
    BY MidnightType DEF AccountState
  <1>3. k \in Nat /\ (k = r.cool \/ (k = 0 /\ now >= r.cool))
    BY DEF AccountState
  <1>4. Refresh(r) = [r EXCEPT !.used = u, !.resetAt = m, !.cool = k]
    BY DEF Refresh
  <1> HIDE DEF u, m, k
  <1> QED
    BY <1>1, <1>2, <1>3, <1>4 DEF AccountState

\* What an answer does to an account.
LEMMA SuccessFacts ==
    ASSUME now \in Nat, NEW r \in AccountState
    PROVE  /\ AfterSuccess(r) \in AccountState
           /\ AfterSuccess(r).used = r.used + 1
           /\ AfterSuccess(r).cool = r.cool \/ (AfterSuccess(r).cool = 0 /\ now >= r.cool)
  <1> DEFINE u == r.used + 1
             k == IF now - r.cool > ErrorTTL THEN 0 ELSE r.cool
  <1>1. u \in Nat
    BY DEF AccountState
  <1>2. k \in Nat /\ (k = r.cool \/ (k = 0 /\ now >= r.cool))
    BY PoolAssumption DEF AccountState
  <1>3. AfterSuccess(r) = [r EXCEPT !.used = u, !.success = now, !.failures = 0, !.cool = k]
    BY DEF AfterSuccess
  <1>4. 0 \in 0..3
    OBVIOUS
  <1> HIDE DEF u, k
  <1>5. AfterSuccess(r).used = u /\ AfterSuccess(r).cool = k
    BY <1>3 DEF AccountState
  <1>6. AfterSuccess(r) \in AccountState
    BY <1>1, <1>2, <1>3, <1>4 DEF AccountState
  <1> QED
    BY <1>2, <1>5, <1>6 DEF u

\* The shortest cool-down is one, and none is shorter.
LEMMA MinCoolFacts ==
    /\ MinCool \in Nat \ {0}
    /\ \A k \in Causes : MinCool <= Cool[k]
  <1> DEFINE S == {Cool[k] : k \in Causes}
  <1>1. \A k \in Causes : Cool[k] \in Nat \ {0}
    BY PoolAssumption
  <1>2. \E d \in S : \A k \in Causes : d <= Cool[k]
    BY <1>1 DEF Causes
  <1>3. MinCool \in S /\ \A k \in Causes : MinCool <= Cool[k]
    BY <1>2 DEF MinCool
  <1> QED
    BY <1>1, <1>3

\* What an error does to an account.
LEMMA FailureFacts ==
    ASSUME now \in Nat, NEW r \in AccountState, NEW e \in AllErrors
    PROVE  /\ AfterFailure(r, e) \in AccountState
           /\ AfterFailure(r, e).used = r.used
           /\ Cause(r, e) = "none" => AfterFailure(r, e).cool = r.cool
           /\ Cause(r, e) # "none" => AfterFailure(r, e).cool >= now + MinCool
  <1> DEFINE f == Failures(r, e)
             k == IF Cause(r, e) = "none" THEN r.cool ELSE now + Cool[Cause(r, e)]
  <1>1. f \in 0..3
    BY DEF AccountState, Failures
  <1>2. Cause(r, e) = "none" \/ Cause(r, e) \in Causes
    BY DEF Cause, Causes
  <1>3. CASE Cause(r, e) = "none"
    <2>1. k \in Nat
      BY <1>3 DEF AccountState
    <2> HIDE DEF f
    <2> QED
      BY <1>1, <1>3, <2>1 DEF AfterFailure, AccountState, f
  <1>4. CASE Cause(r, e) # "none"
    <2>1. Cool[Cause(r, e)] \in Nat /\ MinCool <= Cool[Cause(r, e)]
      BY <1>2, <1>4, MinCoolFacts, PoolAssumption
    <2>2. k \in Nat /\ k >= now + MinCool
      BY <1>4, <2>1, MinCoolFacts
    <2>3. AfterFailure(r, e) = [r EXCEPT !.failures = f, !.cool = k]
      BY DEF AfterFailure
    <2> HIDE DEF f, k
    <2> QED
      BY <1>1, <1>4, <2>2, <2>3 DEF AccountState
  <1> QED
    BY <1>3, <1>4

-----------------------------------------------------------------------------
(* Type correctness.                                                       *)

\* A nonempty set of naturals has a least element.
LEMMA LeastNatural ==
    ASSUME NEW S, S \subseteq Nat, S # {}
    PROVE  \E x \in S : \A y \in S : x <= y
  <1> DEFINE R == {p \in Nat \X Nat : p[1] < p[2]}
  <1>1. IsWellFoundedOn(R, Nat)
    BY NatLessThanWellFounded DEF OpToRel
  <1>2. \E x \in S : \A y \in S : ~ (<<y, x>> \in R)
    <2> HIDE DEF R
    <2> QED BY <1>1, WFMin
  <1>3. \A x, y \in S : ~ (<<y, x>> \in R) => x <= y
    OBVIOUS
  <1> HIDE DEF R
  <1> QED
    BY <1>2, <1>3

\* A call that ends is idle, the others stay what they are.
LEMMA EndType ==
    ASSUME TypeOK, NEW c \in Callers, NEW r \in Results, End(c, r)
    PROVE  /\ call' \in [Callers -> Call]
           /\ \A d \in Callers : call'[d].pc = "open" =>
                 /\ d # c /\ call[d].pc = "open" /\ call'[d].acct = call[d].acct
           /\ call'[c].pc = "idle"
           /\ \A d \in Callers \ {c} : call'[d] = call[d]
  <1> DEFINE new == [IdleCall EXCEPT !.result = r, !.rotations = call[c].rotations,
                                     !.budget = call[c].budget]
  <1>1. call[c] \in Call
    BY DEF TypeOK
  <1>2. 0 \in 0..NAccounts
    BY PoolAssumption
  <1>3. new \in Call /\ new.pc = "idle"
    BY <1>1, <1>2 DEF Call, IdleCall
  <1>4. call' = [call EXCEPT ![c] = new]
    BY DEF End
  <1> HIDE DEF new
  <1> QED
    BY <1>3, <1>4 DEF TypeOK

\* The account chosen is an eligible one.
LEMMA ChooseType ==
    ASSUME TypeOK, NEW c \in Callers, call[c].pc = "picking",
           NEW s \in [Accounts -> AccountState], Choose(c, s)
    PROVE  /\ call' \in [Callers -> Call]
           /\ \A d \in Callers : call'[d].pc = "open" =>
                 \/ call[d].pc = "open" /\ call'[d].acct = call[d].acct
                 \/ d = c /\ call'[d].acct \in Eligible(s)
           /\ call'[c].pc = "open" =>
                 /\ call'[c].acct \in Accounts \ call[c].tried
                 /\ call'[c].tried = call[c].tried \cup {call'[c].acct}
           /\ call'[c].pc \in {"idle", "open"}
           /\ \A d \in Callers \ {c} : call'[d] = call[d]
  <1> DEFINE free == Eligible(s) \ call[c].tried
             a == LeastRecent(s, free)
  <1>1. CASE free = {}
    BY <1>1, EndType DEF Choose, Results
  <1>2. CASE free # {}
    <2>1. free \subseteq Accounts
      BY DEF Eligible
    <2>2. \E b \in free : \A d \in free :
             s[b].success < s[d].success \/ (s[b].success = s[d].success /\ b <= d)
      <3> DEFINE T == {s[b].success : b \in free}
      <3>1. T \subseteq Nat /\ T # {}
        BY <1>2, <2>1 DEF AccountState
      <3>2. PICK t \in T : \A u \in T : t <= u
        <4> HIDE DEF T
        <4> QED BY <3>1, LeastNatural
      <3> DEFINE R == {b \in free : s[b].success = t}
      <3>3. R \subseteq Nat /\ R # {}
        BY <2>1 DEF Accounts
      <3>4. PICK b \in R : \A d \in R : b <= d
        <4> HIDE DEF R
        <4> QED BY <3>3, LeastNatural
      <3>5. \A d \in free : t <= s[d].success /\ s[d].success \in Nat
        BY <2>1, <3>2 DEF AccountState
      <3> QED
        BY <3>1, <3>4, <3>5
    <2>3. a \in free
      BY <2>2 DEF LeastRecent
    <2>4. call[c] \in Call
      BY DEF TypeOK
    <2>5. a \in Accounts /\ a \in 0..NAccounts
      BY <2>1, <2>3, PoolAssumption DEF Accounts
    <2> DEFINE new == [call[c] EXCEPT !.pc = "open", !.acct = a,
                                      !.tried = call[c].tried \cup {a}]
    <2>6. /\ new \in Call /\ new.acct = a /\ new.pc = "open"
          /\ new.tried = call[c].tried \cup {a}
      <3> HIDE DEF a
      <3> QED BY <2>4, <2>5 DEF Call
    <2>7. call' = [call EXCEPT ![c] = new]
      BY <1>2, <2>4 DEF Choose, Call, TypeOK
    <2> HIDE DEF new, a
    <2> QED
      BY <2>1, <2>3, <2>6, <2>7 DEF TypeOK
  <1> QED
    BY <1>1, <1>2

-----------------------------------------------------------------------------
(* The inductive invariant.                                                *)

\* The counts in the state file obey the bound too: a restart brings them back.
DiskBounded == \A a \in Accounts : disk[a].used <= Quota + NCallers - 1

\* A cool-down stays in force until the shortest one is over.
CoolDownKept ==
    faults = 0 => \A a \in Accounts :
        past[a].cooledAt # 0 =>
            \/ rs[a].cool >= past[a].cooledAt + MinCool
            \/ now >= past[a].cooledAt + MinCool

IInv == TypeOK /\ UsageBounded /\ DiskBounded /\ RestartLosesNothing /\ CoolDownKept

\* Sets of callers are finite and no larger than all callers.
LEMMA CallerSets ==
    \A S, T : S \subseteq T /\ T \subseteq Callers =>
        /\ Cardinality(S) \in Nat /\ Cardinality(T) \in Nat /\ NCallers \in Nat
        /\ Cardinality(S) <= Cardinality(T)
        /\ Cardinality(T) <= NCallers
  BY PoolAssumption, FS_Subset, FS_CardinalityType DEF NCallers

\* The number of callers is a number.
LEMMA CallerCount == NCallers \in Nat
  BY PoolAssumption, FS_CardinalityType DEF NCallers

\* A set without one of its members is one smaller.
LEMMA OneCallerLess ==
    ASSUME NEW S, S \subseteq Callers, NEW c \in S, NEW T, T \subseteq S \ {c}
    PROVE  Cardinality(T) + 1 <= Cardinality(S)
  <1>1. IsFiniteSet(S)
    BY PoolAssumption, FS_Subset
  <1>2. Cardinality(S \ {c}) = Cardinality(S) - 1
    BY <1>1, FS_RemoveElement
  <1>3. Cardinality(T) <= Cardinality(S \ {c}) /\ Cardinality(T) \in Nat /\ Cardinality(S) \in Nat
    BY CallerSets
  <1> QED
    BY <1>2, <1>3

LEMMA InitInvariant == Init => IInv
  <1> SUFFICES ASSUME Init PROVE IInv
    OBVIOUS
  <1>1. ZeroState \in AccountState
    <2>1. 0 \in 0..3
      OBVIOUS
    <2> QED BY <2>1 DEF ZeroState, AccountState
  <1>2. IdleCall \in Call
    <2>1. 0 \in 0..NAccounts
      BY PoolAssumption
    <2> QED BY <2>1 DEF IdleCall, Call, Results
  <1>3. TypeOK
    <2>1. 0 \in 0..MaxDiskFaults /\ 0 \in 0..MaxRestarts /\ 0 \in 0..3
      BY PoolAssumption
    <2>2. \A c \in Callers : call[c].pc # "open"
      BY DEF Init, IdleCall
    <2> QED BY <1>1, <1>2, <2>1, <2>2 DEF Init, TypeOK, Past
  <1>4. \A a \in Accounts : Users(a) = {}
    BY DEF Init, Users, IdleCall
  <1>5. UsageBounded /\ DiskBounded
    <2>1. Cardinality({}) = 0
      BY FS_EmptySet
    <2>2. \A a \in Accounts : rs[a].used = 0 /\ disk[a].used = 0
      BY DEF Init, ZeroState
    <2>3. \A a \in Accounts : Cardinality(Users(a)) = 0
      BY <1>4, <2>1
    <2>4. NCallers \in Nat /\ Quota \in Nat \ {0}
      BY CallerCount, PoolAssumption
    <2> QED
      BY <2>2, <2>3, <2>4 DEF UsageBounded, DiskBounded
  <1>6. RestartLosesNothing /\ CoolDownKept
    BY DEF Init, RestartLosesNothing, CoolDownKept
  <1> QED
    BY <1>3, <1>5, <1>6 DEF IInv

-----------------------------------------------------------------------------
(* Each action keeps it.                                                   *)

\* The write of the state file, whether it succeeds or not.
LEMMA SaveFacts ==
    ASSUME TypeOK, NEW s \in [Accounts -> AccountState], s = rs',
           Untouched \/ Written(s) \/ WriteFails
    PROVE  /\ disk' \in [Accounts -> AccountState] /\ (disk' = disk \/ disk' = s)
           /\ faults' \in 0..MaxDiskFaults
           /\ faults' = 0 => faults = 0
  BY PoolAssumption DEF TypeOK, Untouched, Written, WriteFails

LEMMA StartInvariant ==
    ASSUME IInv, NEW c \in Callers, Start(c)
    PROVE  IInv'
  <1> USE DEF IInv
  <1> PICK b \in Budgets :
         call' = [call EXCEPT ![c] = [IdleCall EXCEPT !.pc = "picking", !.budget = b]]
    BY DEF Start
  <1> DEFINE new == [IdleCall EXCEPT !.pc = "picking", !.budget = b]
  <1>1. new \in Call /\ new.pc = "picking"
    <2>1. 0 \in 0..NAccounts
      BY PoolAssumption
    <2> QED BY <2>1, PoolAssumption DEF IdleCall, Call, Results
  <1> HIDE DEF new
  <1>2. TypeOK'
    BY <1>1 DEF Start, TypeOK, new
  <1>3. \A a \in Accounts : Users(a)' \subseteq Users(a)
    BY <1>1 DEF Users, TypeOK, new
  <1>4. UsageBounded'
    <2> SUFFICES ASSUME NEW a \in Accounts
                 PROVE  rs[a].used + Cardinality(Users(a)') <= Quota + NCallers - 1
      BY DEF Start, UsageBounded
    <2>1. Cardinality(Users(a)') <= Cardinality(Users(a)) /\ Cardinality(Users(a)') \in Nat
          /\ Cardinality(Users(a)) \in Nat
      BY <1>3, CallerSets DEF Users
    <2> QED
      BY <2>1, CallerCount, PoolAssumption DEF UsageBounded, TypeOK, AccountState
  <1> QED
    BY <1>2, <1>4 DEF Start, DiskBounded, RestartLosesNothing, CoolDownKept

LEMMA TickInvariant == IInv /\ Tick => IInv'
  <1> SUFFICES ASSUME IInv, Tick PROVE IInv'
    OBVIOUS
  <1> USE DEF IInv
  <1>1. \A a \in Accounts : past'[a] \in Past /\ past'[a].cooledAt = past[a].cooledAt
    BY DEF Tick, TypeOK, Past
  <1>2. past' \in [Accounts -> Past]
    BY <1>1 DEF Tick, TypeOK
  <1>3. TypeOK'
    BY <1>2 DEF Tick, TypeOK
  <1>4. UsageBounded' /\ DiskBounded' /\ RestartLosesNothing'
    BY DEF Tick, UsageBounded, DiskBounded, RestartLosesNothing, Users
  <1>5. CoolDownKept'
    BY <1>1, MinCoolFacts DEF Tick, TypeOK, Past, CoolDownKept
  <1> QED
    BY <1>3, <1>4, <1>5

LEMMA RestartInvariant == IInv /\ Restart => IInv'
  <1> SUFFICES ASSUME IInv, Restart PROVE IInv'
    OBVIOUS
  <1> USE DEF IInv
  <1>1. IdleCall \in Call /\ IdleCall.pc = "idle"
    <2>1. 0 \in 0..NAccounts
      BY PoolAssumption
    <2> QED BY <2>1 DEF IdleCall, Call, Results
  <1>2. TypeOK'
    BY <1>1, PoolAssumption DEF Restart, TypeOK
  <1>3. \A a \in Accounts : Users(a)' = {}
    BY <1>1 DEF Restart, Users
  <1>4. \A a \in Accounts : Cardinality(Users(a)') = 0
    BY <1>3, FS_EmptySet
  <1>5. DiskBounded' /\ rs' = disk
    BY DEF Restart, DiskBounded
  <1>6. UsageBounded'
    <2> SUFFICES ASSUME NEW a \in Accounts
                 PROVE  rs'[a].used + Cardinality(Users(a)') <= Quota + NCallers - 1
      BY DEF UsageBounded
    <2>1. disk[a].used \in Nat
      BY DEF TypeOK, AccountState
    <2> QED
      BY <1>4, <1>5, <2>1 DEF DiskBounded
  <1>7. RestartLosesNothing' /\ CoolDownKept'
    BY DEF Restart, RestartLosesNothing, CoolDownKept
  <1> QED
    BY <1>2, <1>5, <1>6, <1>7

\* Where the counts of the memory stay bounded, those of the file do.
LEMMA DiskStaysBounded ==
    ASSUME IInv, disk' = disk \/ disk' = rs',
           \A a \in Accounts : rs'[a].used \in Nat /\ rs'[a].used <= Quota + NCallers - 1
    PROVE  DiskBounded'
  BY DEF IInv, DiskBounded

LEMMA PickInvariant ==
    ASSUME IInv, NEW c \in Callers, Pick(c)
    PROVE  IInv'
  <1> USE DEF IInv
  <1> DEFINE fresh == [a \in Accounts |-> Refresh(rs[a])]
  <1>1. \A a \in Accounts :
          /\ fresh[a] \in AccountState /\ rs[a] \in AccountState
          /\ fresh[a].used <= rs[a].used
          /\ fresh[a].cool = rs[a].cool \/ (fresh[a].cool = 0 /\ now >= rs[a].cool)
    BY RefreshFacts DEF TypeOK
  <1>2. fresh \in [Accounts -> AccountState]
    BY <1>1
  <1>3. /\ rs' = fresh /\ call[c].pc = "picking" /\ UNCHANGED <<now, restarts, past>>
        /\ Choose(c, fresh) \/ End(c, "state_error")
        /\ \/ fresh = rs /\ Untouched
           \/ Written(fresh)
           \/ WriteFails
    BY DEF Pick
  <1> HIDE DEF fresh
  <1>4. /\ call' \in [Callers -> Call]
        /\ \A d \in Callers : call'[d].pc = "open" =>
             \/ call[d].pc = "open" /\ call'[d].acct = call[d].acct
             \/ d = c /\ call'[d].acct \in Eligible(fresh)
    BY <1>2, <1>3, ChooseType, EndType DEF Results
  <1>5. TypeOK'
    BY <1>2, <1>3, <1>4, SaveFacts DEF TypeOK, Eligible
  <1>6. UsageBounded'
    <2> SUFFICES ASSUME NEW a \in Accounts
                 PROVE  fresh[a].used + Cardinality(Users(a)') <= Quota + NCallers - 1
      BY <1>3 DEF UsageBounded
    <2>1. fresh[a].used \in Nat /\ rs[a].used \in Nat
      BY <1>1 DEF AccountState
    <2>2. CASE Users(a)' \subseteq Users(a)
      <3>1. /\ Cardinality(Users(a)') <= Cardinality(Users(a))
            /\ Cardinality(Users(a)') \in Nat /\ Cardinality(Users(a)) \in Nat
        BY <2>2, CallerSets DEF Users
      <3>2. rs[a].used + Cardinality(Users(a)) <= Quota + NCallers - 1
        BY DEF UsageBounded
      <3> QED
        BY <1>1, <2>1, <3>1, <3>2, CallerCount, PoolAssumption
    <2>3. CASE ~ (Users(a)' \subseteq Users(a))
      <3>1. a \in Eligible(fresh)
        BY <1>4, <2>3 DEF Users
      <3>2. fresh[a].used < Quota
        BY <3>1 DEF Eligible
      <3>3. Cardinality(Users(a)') <= NCallers /\ Cardinality(Users(a)') \in Nat
        BY CallerSets DEF Users
      <3> QED
        BY <2>1, <3>2, <3>3, CallerCount, PoolAssumption
    <2> QED
      BY <2>2, <2>3
  <1>7. DiskBounded'
    <2>1. \A a \in Accounts : fresh[a].used \in Nat /\ fresh[a].used <= Quota + NCallers - 1
      <3> SUFFICES ASSUME NEW a \in Accounts
                   PROVE  fresh[a].used \in Nat /\ fresh[a].used <= Quota + NCallers - 1
        OBVIOUS
      <3>1. fresh[a].used \in Nat /\ rs[a].used \in Nat
        BY <1>1 DEF AccountState
      <3>2. Cardinality(Users(a)) \in Nat
        BY CallerSets DEF Users
      <3> QED
        BY <1>1, <3>1, <3>2, CallerCount, PoolAssumption DEF UsageBounded
    <2> QED
      BY <1>2, <1>3, <2>1, SaveFacts, DiskStaysBounded
  <1>8. RestartLosesNothing'
    BY <1>3 DEF RestartLosesNothing, Untouched, Written, WriteFails, TypeOK
  <1>9. CoolDownKept'
    <2>1. faults' = 0 => faults = 0
      BY <1>2, <1>3, SaveFacts
    <2>2. \A a \in Accounts : past[a].cooledAt \in Nat /\ fresh[a].cool \in Nat /\ rs[a].cool \in Nat
      BY <1>1 DEF TypeOK, Past, AccountState
    <2> QED
      BY <1>1, <1>3, <2>1, <2>2, MinCoolFacts DEF CoolDownKept, TypeOK
  <1> QED
    BY <1>5, <1>6, <1>7, <1>8, <1>9

\* A call that stops using its account makes room for the unit it may have used.
LEMMA ReleaseFacts ==
    ASSUME IInv, NEW c \in Callers, call[c].pc = "open",
           \A d \in Callers : call'[d].pc = "open" =>
               d # c /\ call[d].pc = "open" /\ call'[d].acct = call[d].acct
    PROVE  \A a \in Accounts :
             /\ Cardinality(Users(a)') \in Nat
             /\ rs[a].used + Cardinality(Users(a)') <= Quota + NCallers - 1
             /\ a = call[c].acct =>
                   rs[a].used + 1 + Cardinality(Users(a)') <= Quota + NCallers - 1
  <1> SUFFICES ASSUME NEW a \in Accounts
               PROVE  /\ Cardinality(Users(a)') \in Nat
                      /\ rs[a].used + Cardinality(Users(a)') <= Quota + NCallers - 1
                      /\ a = call[c].acct =>
                           rs[a].used + 1 + Cardinality(Users(a)') <= Quota + NCallers - 1
    OBVIOUS
  <1>1. Users(a)' \subseteq Users(a) /\ Users(a) \subseteq Callers
    BY DEF Users
  <1>2. /\ Cardinality(Users(a)') \in Nat /\ Cardinality(Users(a)) \in Nat
        /\ Cardinality(Users(a)') <= Cardinality(Users(a))
    BY <1>1, CallerSets
  <1>3. ASSUME a = call[c].acct
        PROVE  Cardinality(Users(a)') + 1 <= Cardinality(Users(a))
    <2>1. c \in Users(a) /\ Users(a)' \subseteq Users(a) \ {c}
      BY <1>3 DEF Users
    <2> QED
      BY <1>1, <2>1, OneCallerLess
  <1>4. rs[a].used \in Nat /\ rs[a].used + Cardinality(Users(a)) <= Quota + NCallers - 1
    BY DEF IInv, TypeOK, AccountState, UsageBounded
  <1> QED
    BY <1>2, <1>3, <1>4, CallerCount, PoolAssumption

LEMMA SucceedInvariant ==
    ASSUME IInv, NEW c \in Callers, Succeed(c)
    PROVE  IInv'
  <1> USE DEF IInv
  <1> DEFINE a == call[c].acct
             r == AfterSuccess(rs[a])
             marked == [rs EXCEPT ![a] = r]
  <1>1. a \in Accounts /\ rs[a] \in AccountState /\ past[a] \in Past /\ call[c].pc = "open"
    BY DEF Succeed, TypeOK
  <1>2. /\ r \in AccountState
        /\ r.used = rs[a].used + 1
        /\ r.cool = rs[a].cool \/ (r.cool = 0 /\ now >= rs[a].cool)
    BY <1>1, SuccessFacts DEF TypeOK
  <1>3. /\ rs' = marked /\ UNCHANGED <<now, restarts>>
        /\ End(c, "ok") \/ End(c, "state_error")
        /\ Written(marked) \/ WriteFails
        /\ past' = [past EXCEPT ![a].spent = past[a].spent + 1]
    BY DEF Succeed
  <1> HIDE DEF a, r
  <1>4. marked \in [Accounts -> AccountState]
    BY <1>2 DEF TypeOK
  <1>5. \A b \in Accounts : marked[b] = IF b = a THEN r ELSE rs[b]
    BY DEF TypeOK
  <1> HIDE DEF marked
  <1>6. /\ call' \in [Callers -> Call]
        /\ \A d \in Callers : call'[d].pc = "open" =>
             d # c /\ call[d].pc = "open" /\ call'[d].acct = call[d].acct
    BY <1>3, EndType DEF Results
  <1>7. past' \in [Accounts -> Past] /\ \A b \in Accounts : past'[b].cooledAt = past[b].cooledAt
    <2>1. past[a].spent + 1 \in Nat
      BY <1>1 DEF Past
    <2> DEFINE q == [past[a] EXCEPT !.spent = past[a].spent + 1]
    <2>2. q \in Past /\ q.cooledAt = past[a].cooledAt
      BY <1>1, <2>1 DEF Past
    <2>3. past' = [past EXCEPT ![a] = q]
      BY <1>1, <1>3 DEF TypeOK
    <2> HIDE DEF q
    <2> QED
      BY <2>2, <2>3 DEF TypeOK
  <1>8. TypeOK'
    BY <1>3, <1>4, <1>6, <1>7, SaveFacts DEF TypeOK
  <1>9. UsageBounded'
    <2>1. \A b \in Accounts :
            /\ Cardinality(Users(b)') \in Nat
            /\ rs[b].used + Cardinality(Users(b)') <= Quota + NCallers - 1
            /\ b = a => rs[b].used + 1 + Cardinality(Users(b)') <= Quota + NCallers - 1
      BY <1>1, <1>6, ReleaseFacts DEF a
    <2> QED
      BY <1>2, <1>3, <1>5, <2>1 DEF UsageBounded
  <1>10. DiskBounded'
    <2>1. \A b \in Accounts : rs'[b].used \in Nat /\ Cardinality(Users(b)') \in Nat
                              /\ rs'[b].used + Cardinality(Users(b)') <= Quota + NCallers - 1
      BY <1>8, <1>9, CallerSets DEF UsageBounded, TypeOK, AccountState, Users
    <2>2. \A b \in Accounts : rs'[b].used \in Nat /\ rs'[b].used <= Quota + NCallers - 1
      BY <2>1, CallerCount, PoolAssumption
    <2> QED
      BY <1>3, <1>4, <2>2, SaveFacts, DiskStaysBounded
  <1>11. RestartLosesNothing'
    BY <1>3 DEF RestartLosesNothing, Written, WriteFails, TypeOK
  <1>12. CoolDownKept'
    <2>1. faults' = 0 => faults = 0
      BY <1>3, <1>4, SaveFacts
    <2>2. \A b \in Accounts : past[b].cooledAt \in Nat /\ rs[b].cool \in Nat
      BY DEF TypeOK, Past, AccountState
    <2> QED
      BY <1>2, <1>3, <1>5, <1>7, <2>1, <2>2, MinCoolFacts DEF CoolDownKept, TypeOK
  <1> QED
    BY <1>8, <1>9, <1>10, <1>11, <1>12

LEMMA FailInvariant ==
    ASSUME IInv, NEW c \in Callers, NEW e \in Errors, Fail(c, e)
    PROVE  IInv'
  <1> USE DEF IInv
  <1> DEFINE a == call[c].acct
             r == AfterFailure(rs[a], e)
             marked == [rs EXCEPT ![a] = r]
  <1>0. e \in AllErrors
    BY PoolAssumption
  <1>1. /\ a \in Accounts /\ rs[a] \in AccountState /\ past[a] \in Past
        /\ call[c] \in Call /\ call[c].pc = "open"
    BY DEF Fail, TypeOK
  <1>2. /\ r \in AccountState
        /\ r.used = rs[a].used
        /\ Cause(rs[a], e) = "none" => r.cool = rs[a].cool
        /\ Cause(rs[a], e) # "none" => r.cool >= now + MinCool
    BY <1>0, <1>1, FailureFacts DEF TypeOK
  <1>3. /\ rs' = marked /\ UNCHANGED <<now, restarts>>
        /\ GoOn(c) \/ End(c, e) \/ End(c, "state_error")
        /\ (e = "not_found" /\ Untouched) \/ Written(marked) \/ WriteFails
        /\ past' = [past EXCEPT
               ![a].cooledAt = IF Cause(rs[a], e) = "none" THEN past[a].cooledAt ELSE now]
    BY DEF Fail
  <1>4. e = "not_found" => marked = rs
    <2> SUFFICES ASSUME e = "not_found" PROVE marked = rs
      OBVIOUS
    <2>1. r = rs[a]
      BY <1>1 DEF AfterFailure, Failures, Cause, AccountState
    <2> QED
      BY <2>1 DEF TypeOK
  <1> HIDE DEF a, r
  <1>5. marked \in [Accounts -> AccountState]
    BY <1>2 DEF TypeOK
  <1>6. \A b \in Accounts : marked[b] = IF b = a THEN r ELSE rs[b]
    BY DEF TypeOK
  <1> HIDE DEF marked
  <1>7. /\ call' \in [Callers -> Call]
        /\ \A d \in Callers : call'[d].pc = "open" =>
             d # c /\ call[d].pc = "open" /\ call'[d].acct = call[d].acct
    <2>1. CASE GoOn(c)
      <3> DEFINE q == [call[c] EXCEPT !.pc = "picking", !.acct = 0,
                                      !.rotations = call[c].rotations + 1]
      <3>1. 0 \in 0..NAccounts /\ call[c].rotations + 1 \in Nat
        BY <1>1, PoolAssumption DEF Call
      <3>2. q \in Call /\ q.pc = "picking"
        BY <1>1, <3>1 DEF Call
      <3>3. call' = [call EXCEPT ![c] = q]
        BY <1>1, <2>1 DEF GoOn, TypeOK
      <3> HIDE DEF q
      <3> QED
        BY <3>2, <3>3 DEF TypeOK
    <2>2. CASE End(c, e) \/ End(c, "state_error")
      BY <1>0, <2>2, EndType DEF Results
    <2> QED
      BY <1>3, <2>1, <2>2
  <1>8. /\ past' \in [Accounts -> Past]
        /\ \A b \in Accounts : past'[b].cooledAt =
             IF b = a /\ Cause(rs[a], e) # "none" THEN now ELSE past[b].cooledAt
    <2> DEFINE at == IF Cause(rs[a], e) = "none" THEN past[a].cooledAt ELSE now
               q == [past[a] EXCEPT !.cooledAt = at]
    <2>1. at \in Nat
      BY <1>1 DEF Past, TypeOK
    <2>2. past' = [past EXCEPT ![a] = q]
      BY <1>1, <1>3 DEF TypeOK
    <2>3. q \in Past /\ q.cooledAt = at
      <3> HIDE DEF at
      <3> QED BY <1>1, <2>1 DEF Past
    <2> HIDE DEF q
    <2> QED
      BY <1>1, <2>2, <2>3 DEF TypeOK
  <1>9. TypeOK'
    BY <1>3, <1>5, <1>7, <1>8, SaveFacts DEF TypeOK
  <1>10. UsageBounded'
    <2>1. \A b \in Accounts :
            /\ Cardinality(Users(b)') \in Nat
            /\ rs[b].used + Cardinality(Users(b)') <= Quota + NCallers - 1
      BY <1>1, <1>7, ReleaseFacts
    <2>2. \A b \in Accounts : rs'[b].used = rs[b].used
      BY <1>2, <1>3, <1>6
    <2> QED
      BY <2>1, <2>2 DEF UsageBounded
  <1>11. DiskBounded'
    <2>1. \A b \in Accounts : rs'[b].used \in Nat /\ Cardinality(Users(b)') \in Nat
                              /\ rs'[b].used + Cardinality(Users(b)') <= Quota + NCallers - 1
      BY <1>9, <1>10, CallerSets DEF UsageBounded, TypeOK, AccountState, Users
    <2>2. \A b \in Accounts : rs'[b].used \in Nat /\ rs'[b].used <= Quota + NCallers - 1
      BY <2>1, CallerCount, PoolAssumption
    <2> QED
      BY <1>3, <1>5, <2>2, SaveFacts, DiskStaysBounded
  <1>12. RestartLosesNothing'
    BY <1>3, <1>4 DEF RestartLosesNothing, Untouched, Written, WriteFails, TypeOK
  <1>13. CoolDownKept'
    <2>1. faults' = 0 => faults = 0
      BY <1>3, <1>5, SaveFacts
    <2>2. \A b \in Accounts : past[b].cooledAt \in Nat /\ rs[b].cool \in Nat
      BY DEF TypeOK, Past, AccountState
    <2> QED
      BY <1>2, <1>3, <1>6, <1>8, <2>1, <2>2, MinCoolFacts DEF CoolDownKept, TypeOK
  <1> QED
    BY <1>9, <1>10, <1>11, <1>12, <1>13

LEMMA StutterInvariant == IInv /\ UNCHANGED vars => IInv'
  BY DEF IInv, TypeOK, UsageBounded, DiskBounded, RestartLosesNothing, CoolDownKept, Users, vars

-----------------------------------------------------------------------------
(* The theorems.                                                           *)

LEMMA Invariance == Spec => []IInv
  <1>1. IInv /\ [Next]_vars => IInv'
    BY StartInvariant, PickInvariant, SucceedInvariant, FailInvariant, TickInvariant,
       RestartInvariant, StutterInvariant DEF Next, Use
  <1> QED
    BY InitInvariant, <1>1, PTL DEF Spec

\* The pool's state in memory and on disk, and the callers' locals, keep their types.
THEOREM TypeCorrect == Spec => []TypeOK
  <1>1. IInv => TypeOK
    BY DEF IInv
  <1> QED
    BY Invariance, <1>1, PTL

\* However many callers pick at the same time, and over restarts and failed writes,
\* an account is used at most one call per caller beyond its daily quota, less one.
THEOREM QuotaOverrunBounded == Spec => []UsageBounded
  <1>1. IInv => UsageBounded
    BY DEF IInv
  <1> QED
    BY Invariance, <1>1, PTL

\* With no failed write the state file and the memory are the same at every step, so
\* that a restart changes nothing.
THEOREM StateFileIsCurrent == Spec => []RestartLosesNothing
  <1>1. IInv => RestartLosesNothing
    BY DEF IInv
  <1> QED
    BY Invariance, <1>1, PTL

\* Failures that other callers mark, and restarts, never bring an account back before
\* the shortest cool-down is over.
THEOREM CoolDownsAreHonoured == Spec => CoolDownHonoured
  <1> DEFINE A == \A c \in Callers :
                    /\ faults = 0
                    /\ call[c].pc = "picking" /\ call'[c].pc = "open"
                    /\ past[call'[c].acct].cooledAt # 0
                    => now >= past[call'[c].acct].cooledAt + MinCool
  <1>1. IInv /\ [Next]_vars => [A]_vars
    <2> SUFFICES ASSUME IInv, Next, NEW c \in Callers, faults = 0,
                        call[c].pc = "picking", call'[c].pc = "open",
                        past[call'[c].acct].cooledAt # 0
                 PROVE  now >= past[call'[c].acct].cooledAt + MinCool
      BY DEF vars
    <2> USE DEF IInv
    <2>1. Pick(c)
      <3>1. ~ Tick /\ ~ Restart
        BY DEF Tick, Restart, IdleCall
      <3>2. PICK d \in Callers : Use(d)
        BY <3>1 DEF Next
      <3>3. CASE Start(d)
        BY <3>3 DEF Start, IdleCall, TypeOK
      <3>4. CASE Succeed(d)
        BY <3>4, EndType DEF Succeed, Results
      <3>5. ASSUME NEW e \in Errors, Fail(d, e) PROVE FALSE
        <4>1. GoOn(d) \/ End(d, e) \/ End(d, "state_error")
          BY <3>5 DEF Fail
        <4>2. CASE GoOn(d)
          BY <4>2, <3>5 DEF GoOn, TypeOK, Call
        <4>3. CASE End(d, e) \/ End(d, "state_error")
          BY <4>3, EndType, PoolAssumption DEF Results
        <4> QED BY <4>1, <4>2, <4>3
      <3>6. CASE Pick(d)
        <4>1. call' = [call EXCEPT ![d] = call'[d]]
          BY <3>6 DEF Pick, Choose, End, TypeOK
        <4>2. c = d
          BY <4>1 DEF TypeOK
        <4> QED BY <3>6, <4>2
      <3> QED
        BY <3>2, <3>3, <3>4, <3>5, <3>6 DEF Use
    <2> DEFINE fresh == [a \in Accounts |-> Refresh(rs[a])]
    <2>2. \A a \in Accounts : fresh[a] \in AccountState
                            /\ (fresh[a].cool = rs[a].cool \/ now >= rs[a].cool)
      BY RefreshFacts DEF TypeOK
    <2>3. Choose(c, fresh) \/ End(c, "state_error")
      BY <2>1 DEF Pick
    <2> HIDE DEF fresh
    <2>4. fresh \in [Accounts -> AccountState]
      BY <2>2 DEF fresh
    <2>5. call'[c].acct \in Eligible(fresh)
      BY <2>3, <2>4, ChooseType, EndType DEF Results
    <2>6. PICK a \in Accounts : a = call'[c].acct /\ fresh[a].cool = 0
      BY <2>5 DEF Eligible
    <2>7. past[a].cooledAt \in Nat /\ rs[a].cool \in Nat /\ now \in Nat
      BY DEF TypeOK, Past, AccountState
    <2> QED
      BY <2>2, <2>6, <2>7, MinCoolFacts DEF CoolDownKept
  <1> QED
    BY Invariance, <1>1, PTL DEF Spec, CoolDownHonoured

-----------------------------------------------------------------------------
(* The count of the day.                                                   *)

\* Reset times are midnights, and so 0.
Midnight(t) == \E k \in Nat : t = k * Day

LEMMA MidnightFacts ==
    /\ \A t \in Nat : Midnight(t) => t % Day = 0
    /\ \A t \in Nat : Midnight(NextMidnight(t)) /\ t < NextMidnight(t)
    /\ Midnight(0)
  <1>1. Day \in Nat /\ Day > 0
    BY PoolAssumption
  <1>2. ASSUME NEW k \in Nat PROVE (k * Day) % Day = 0
    <2> DEFINE x == k * Day
               q == x \div Day
               r == x % Day
    <2>1. x \in Int
      BY <1>1
    <2>2. q \in Int /\ r \in 0..(Day - 1) /\ x = Day * q + r
      <3> HIDE DEF x
      <3> QED
        BY <1>1, <2>1
    <2>3. Day * (k - q) = r
      <3> HIDE DEF q, r
      <3>1. Day * (k - q) = k * Day - Day * q
        BY <1>1, <2>2
      <3> QED
        BY <1>1, <2>2, <3>1
    <2> DEFINE m == k - q
    <2>4. m \in Int
      BY <2>2
    <2> HIDE DEF q, r, x, m
    <2>5. Day * m = r
      BY <2>3 DEF m
    <2>6. m < 1
      <3> SUFFICES ASSUME m >= 1 PROVE FALSE
        BY <2>4
      <3>1. Day * m >= Day
        BY <1>1, <2>4
      <3> QED
        BY <1>1, <2>2, <2>5, <3>1
    <2>7. m > -1
      <3> SUFFICES ASSUME m <= -1 PROVE FALSE
        BY <2>4
      <3>1. Day * m <= -Day
        BY <1>1, <2>4
      <3> QED
        BY <1>1, <2>2, <2>5, <3>1
    <2>8. m = 0
      BY <2>4, <2>6, <2>7
    <2>9. r = 0
      BY <1>1, <2>5, <2>8
    <2> QED
      BY <2>9 DEF r, x
  <1>3. ASSUME NEW t \in Nat
        PROVE  Midnight(NextMidnight(t)) /\ t < NextMidnight(t)
    <2> DEFINE q == t \div Day
    <2>1. q \in Nat
      BY <1>1
    <2>a. t % Day \in 0..(Day - 1)
      BY <1>1
    <2>b. t = Day * (t \div Day) + (t % Day)
      BY <1>1
    <2> HIDE DEF q
    <2>2. NextMidnight(t) = (q + 1) * Day
      BY DEF NextMidnight, q
    <2>3. (q + 1) * Day = Day * q + Day /\ Day * q \in Nat
      BY <1>1, <2>1
    <2>4. t < (q + 1) * Day
      BY <1>1, <2>1, <2>3, <2>a, <2>b DEF q
    <2> QED
      BY <2>1, <2>2, <2>4 DEF Midnight
  <1>4. 0 = 0 * Day
    BY <1>1
  <1> QED
    BY <1>2, <1>3, <1>4 DEF Midnight

\* An account whose reset is due has not been given out since midnight: the answers of
\* this day are those of the callers that had it then.
DayCounted ==
    faults = 0 => \A a \in Accounts :
        /\ Midnight(rs[a].resetAt)
        /\ IF now >= rs[a].resetAt
           THEN past[a].spent + Cardinality(Users(a)) <= NCallers
           ELSE past[a].spent <= rs[a].used + NCallers

\* A step that gives no account away.
LEMMA CountedStays ==
    ASSUME IInv, IInv', DayCounted, faults' = 0 => faults = 0, now' = now,
           \A a \in Accounts :
              /\ rs'[a].resetAt = rs[a].resetAt
              /\ \/ past'[a].spent = past[a].spent /\ rs'[a].used = rs[a].used
                    /\ Users(a)' \subseteq Users(a)
                 \/ past'[a].spent = past[a].spent + 1 /\ rs'[a].used = rs[a].used + 1
                    /\ \E c \in Users(a) : Users(a)' \subseteq Users(a) \ {c}
    PROVE  DayCounted'
  <1> SUFFICES ASSUME faults' = 0, NEW a \in Accounts
               PROVE  /\ Midnight(rs'[a].resetAt)
                      /\ IF now' >= rs'[a].resetAt
                         THEN past'[a].spent + Cardinality(Users(a)') <= NCallers
                         ELSE past'[a].spent <= rs'[a].used + NCallers
    BY DEF DayCounted, Midnight
  <1>1. /\ Midnight(rs[a].resetAt)
        /\ IF now >= rs[a].resetAt
           THEN past[a].spent + Cardinality(Users(a)) <= NCallers
           ELSE past[a].spent <= rs[a].used + NCallers
    BY DEF DayCounted
  <1>2. past[a].spent \in Nat /\ rs[a].used \in Nat /\ NCallers \in Nat
    BY CallerCount DEF IInv, TypeOK, Past, AccountState
  <1>3. Users(a) \subseteq Callers
    BY DEF Users
  <1>4. CASE past'[a].spent = past[a].spent /\ rs'[a].used = rs[a].used
             /\ Users(a)' \subseteq Users(a)
    <2>1. /\ Cardinality(Users(a)') <= Cardinality(Users(a))
          /\ Cardinality(Users(a)') \in Nat /\ Cardinality(Users(a)) \in Nat
      BY <1>3, <1>4, CallerSets
    <2> QED
      BY <1>1, <1>2, <1>4, <2>1
  <1>5. CASE past'[a].spent = past[a].spent + 1 /\ rs'[a].used = rs[a].used + 1
             /\ \E c \in Users(a) : Users(a)' \subseteq Users(a) \ {c}
    <2>1. Cardinality(Users(a)') + 1 <= Cardinality(Users(a))
      BY <1>3, <1>5, OneCallerLess
    <2>2. Cardinality(Users(a)') \in Nat /\ Cardinality(Users(a)) \in Nat
      BY <1>3, <1>5, CallerSets
    <2> QED
      BY <1>1, <1>2, <1>5, <2>1, <2>2
  <1> QED
    BY <1>4, <1>5

\* After the refresh of pick no reset is due.
LEMMA CountedPick ==
    ASSUME IInv, IInv', DayCounted, NEW c \in Callers, Pick(c)
    PROVE  DayCounted'
  <1>1. faults' = 0 => faults = 0
    BY PoolAssumption DEF Pick, Untouched, Written, WriteFails, IInv, TypeOK
  <1> SUFFICES ASSUME faults' = 0, NEW a \in Accounts
               PROVE  /\ Midnight(rs'[a].resetAt)
                      /\ now' < rs'[a].resetAt
                      /\ past'[a].spent <= rs'[a].used + NCallers
    BY DEF DayCounted, Midnight, IInv, TypeOK, AccountState
  <1>2. now \in Nat /\ rs[a] \in AccountState /\ past[a].spent \in Nat /\ NCallers \in Nat
    BY CallerCount DEF IInv, TypeOK, Past
  <1>3. rs'[a] = Refresh(rs[a]) /\ now' = now /\ past' = past
    BY DEF Pick
  <1>4. /\ rs'[a].used = IF rs[a].resetAt # 0 /\ now >= rs[a].resetAt THEN 0 ELSE rs[a].used
        /\ rs'[a].resetAt = IF now >= rs[a].resetAt THEN NextMidnight(now) ELSE rs[a].resetAt
    <2> DEFINE u == IF rs[a].resetAt # 0 /\ now >= rs[a].resetAt THEN 0 ELSE rs[a].used
               m == IF now >= rs[a].resetAt THEN NextMidnight(now) ELSE rs[a].resetAt
               k == IF now >= rs[a].cool THEN 0 ELSE rs[a].cool
    <2>1. rs'[a] = [rs[a] EXCEPT !.used = u, !.resetAt = m, !.cool = k]
      BY <1>3 DEF Refresh
    <2> HIDE DEF u, m, k
    <2>2. rs'[a].used = u /\ rs'[a].resetAt = m
      BY <1>2, <2>1 DEF AccountState
    <2> QED
      BY <2>2 DEF u, m
  <1>5. /\ Midnight(rs[a].resetAt)
        /\ IF now >= rs[a].resetAt
           THEN past[a].spent + Cardinality(Users(a)) <= NCallers
           ELSE past[a].spent <= rs[a].used + NCallers
    BY <1>1 DEF DayCounted
  <1>6. Cardinality(Users(a)) \in Nat
    BY CallerSets DEF Users
  <1>7. rs[a].used \in Nat /\ rs[a].resetAt \in Nat
    BY <1>2 DEF AccountState
  <1>8. CASE now >= rs[a].resetAt
    BY <1>2, <1>3, <1>4, <1>5, <1>6, <1>7, <1>8, MidnightFacts
  <1>9. CASE ~ (now >= rs[a].resetAt)
    BY <1>2, <1>3, <1>4, <1>5, <1>7, <1>9
  <1> QED
    BY <1>8, <1>9

\* A reset becomes due at a midnight only, when the count of the day starts anew.
LEMMA CountedTick ==
    ASSUME IInv, IInv', DayCounted, Tick
    PROVE  DayCounted'
  <1> SUFFICES ASSUME faults = 0, NEW a \in Accounts
               PROVE  /\ Midnight(rs[a].resetAt)
                      /\ IF now' >= rs[a].resetAt
                         THEN past'[a].spent + Cardinality(Users(a)) <= NCallers
                         ELSE past'[a].spent <= rs[a].used + NCallers
    BY DEF DayCounted, Tick, Users
  <1>1. /\ now \in Nat /\ now' = now + 1 /\ rs[a].resetAt \in Nat /\ rs[a].used \in Nat
        /\ past[a] \in Past /\ past[a].spent \in Nat /\ NCallers \in Nat
    BY CallerCount DEF IInv, TypeOK, Past, AccountState, Tick
  <1>2. Cardinality(Users(a)) \in Nat /\ Cardinality(Users(a)) <= NCallers
    BY CallerSets DEF Users
  <1>3. /\ Midnight(rs[a].resetAt)
        /\ IF now >= rs[a].resetAt
           THEN past[a].spent + Cardinality(Users(a)) <= NCallers
           ELSE past[a].spent <= rs[a].used + NCallers
    BY DEF DayCounted
  <1>4. CASE now' % Day = 0
    <2>1. past'[a].spent = 0
      BY <1>1, <1>4 DEF Tick, Past
    <2> QED
      BY <1>1, <1>2, <1>3, <2>1
  <1>5. CASE now' % Day # 0
    <2>1. past'[a].spent = past[a].spent
      BY <1>5 DEF Tick
    <2>2. now' # rs[a].resetAt
      BY <1>1, <1>3, <1>5, MidnightFacts
    <2> QED
      BY <1>1, <1>2, <1>3, <2>1, <2>2
  <1> QED
    BY <1>4, <1>5

\* An answer that comes late is one of a caller that then has the account no more.
LEMMA CountedUse ==
    ASSUME IInv, IInv', DayCounted, NEW c \in Callers,
           Start(c) \/ Succeed(c) \/ \E e \in Errors : Fail(c, e)
    PROVE  DayCounted'
  <1>1. faults' = 0 => faults = 0
    <2>1. UNCHANGED faults \/ faults' = faults + 1
      BY DEF Start, Succeed, Fail, Untouched, Written, WriteFails
    <2> QED
      BY <2>1, PoolAssumption DEF IInv, TypeOK
  <1> DEFINE b == call[c].acct
  <1>2. CASE Start(c)
    <2>1. UNCHANGED <<rs, now, past>>
      BY <1>2 DEF Start
    <2>2. \A a \in Accounts : Users(a)' \subseteq Users(a)
      <3>1. \A d \in Callers : call'[d].pc = "open" => call'[d] = call[d]
        BY <1>2 DEF Start, IdleCall, IInv, TypeOK
      <3> QED
        BY <3>1 DEF Users
    <2> QED
      BY <1>1, <2>1, <2>2, CountedStays
  <1>3. CASE Succeed(c)
    <2>1. b \in Accounts /\ rs[b] \in AccountState /\ past[b] \in Past /\ call[c].pc = "open"
      BY <1>3 DEF Succeed, IInv, TypeOK
    <2>2. \A d \in Callers : call'[d].pc = "open" =>
             d # c /\ call[d].pc = "open" /\ call'[d].acct = call[d].acct
      BY <1>3, EndType DEF Succeed, Results, IInv
    <2>3. \A a \in Accounts : Users(a)' \subseteq Users(a) \ {c}
      BY <2>2 DEF Users
    <2>4. c \in Users(b)
      BY <2>1 DEF Users
    <2>5. /\ AfterSuccess(rs[b]).used = rs[b].used + 1
          /\ AfterSuccess(rs[b]).resetAt = rs[b].resetAt
      BY <2>1 DEF AfterSuccess, AccountState
    <2>6. \A a \in Accounts : rs'[a] = IF a = b THEN AfterSuccess(rs[b]) ELSE rs[a]
      BY <1>3, <2>1 DEF Succeed, IInv, TypeOK
    <2>7. \A a \in Accounts :
            past'[a].spent = IF a = b THEN past[b].spent + 1 ELSE past[a].spent
      BY <1>3, <2>1 DEF Succeed, IInv, TypeOK, Past
    <2>8. now' = now
      BY <1>3 DEF Succeed
    <2> HIDE DEF b
    <2> QED
      BY <1>1, <2>3, <2>4, <2>5, <2>6, <2>7, <2>8, CountedStays
  <1>4. ASSUME NEW e \in Errors, Fail(c, e)
        PROVE  DayCounted'
    <2>1. b \in Accounts /\ rs[b] \in AccountState /\ past[b] \in Past /\ call[c].pc = "open"
      BY <1>4 DEF Fail, IInv, TypeOK
    <2>2. \A d \in Callers : call'[d].pc = "open" => call'[d] = call[d]
      <3>1. GoOn(c) \/ End(c, e) \/ End(c, "state_error")
        BY <1>4 DEF Fail
      <3>2. CASE GoOn(c)
        BY <3>2 DEF GoOn, IInv, TypeOK, Call
      <3>3. CASE End(c, e) \/ End(c, "state_error")
        BY <3>3 DEF End, IdleCall, IInv, TypeOK
      <3> QED
        BY <3>1, <3>2, <3>3
    <2>3. \A a \in Accounts : Users(a)' \subseteq Users(a)
      BY <2>2 DEF Users
    <2>4. /\ AfterFailure(rs[b], e).used = rs[b].used
          /\ AfterFailure(rs[b], e).resetAt = rs[b].resetAt
      BY <2>1 DEF AfterFailure, AccountState
    <2>5. \A a \in Accounts : rs'[a] = IF a = b THEN AfterFailure(rs[b], e) ELSE rs[a]
      BY <1>4, <2>1 DEF Fail, IInv, TypeOK
    <2>6. \A a \in Accounts : past'[a].spent = past[a].spent
      BY <1>4, <2>1 DEF Fail, IInv, TypeOK, Past
    <2>7. now' = now
      BY <1>4 DEF Fail
    <2> HIDE DEF b
    <2> QED
      BY <1>1, <2>3, <2>4, <2>5, <2>6, <2>7, CountedStays
  <1> QED
    BY <1>2, <1>3, <1>4

LEMMA CountedRestart ==
    ASSUME IInv, IInv', DayCounted, Restart
    PROVE  DayCounted'
  <1>1. faults' = faults /\ now' = now /\ past' = past /\ rs' = disk
    BY DEF Restart
  <1>2. \A a \in Accounts : Users(a)' \subseteq Users(a)
    BY DEF Restart, Users, IdleCall
  <1>3. CASE faults = 0
    BY <1>1, <1>2, <1>3, CountedStays DEF IInv, RestartLosesNothing
  <1>4. CASE faults # 0
    BY <1>1, <1>4 DEF DayCounted
  <1> QED
    BY <1>3, <1>4

LEMMA CountedInit == Init => DayCounted
  <1> SUFFICES ASSUME Init, NEW a \in Accounts
               PROVE  /\ Midnight(rs[a].resetAt)
                      /\ now >= rs[a].resetAt
                      /\ past[a].spent + Cardinality(Users(a)) <= NCallers
    BY DEF DayCounted
  <1>1. rs[a].resetAt = 0 /\ now = 1 /\ past[a].spent = 0
    BY DEF Init, ZeroState
  <1>2. Users(a) = {} /\ Cardinality(Users(a)) = 0
    BY FS_EmptySet DEF Init, Users, IdleCall
  <1> QED
    BY <1>1, <1>2, MidnightFacts, CallerCount

\* With no failed write, the count a day shows is short of the answers of that day by
\* at most one for each caller.
THEOREM DayCountsLagByCallers == Spec => []DayCountLag
  <1>1. IInv /\ DayCounted => DayCountLag
    <2> SUFFICES ASSUME IInv, DayCounted, faults = 0, NEW a \in Accounts
                 PROVE  past[a].spent <= rs[a].used + NCallers
      BY DEF DayCountLag
    <2>1. past[a].spent \in Nat /\ rs[a].used \in Nat /\ NCallers \in Nat
      BY CallerCount DEF IInv, TypeOK, Past, AccountState
    <2>2. Cardinality(Users(a)) \in Nat
      BY CallerSets DEF Users
    <2> QED
      BY <2>1, <2>2 DEF DayCounted
  <1>2. IInv /\ IInv' /\ DayCounted /\ [Next]_vars => DayCounted'
    <2>1. IInv /\ IInv' /\ DayCounted /\ UNCHANGED vars => DayCounted'
      BY DEF vars, DayCounted, Users
    <2> QED
      BY <2>1, CountedPick, CountedTick, CountedUse, CountedRestart DEF Next, Use
  <1> QED
    BY <1>1, <1>2, CountedInit, Invariance, PTL DEF Spec

-----------------------------------------------------------------------------
(* The length of a call.                                                   *)

Untried(c) == Accounts \ call[c].tried

\* What a call may still do: a pick and an answer of the service for every account
\* it has not tried, and the answer it waits for.
StepsLeft(c) ==
    CASE call[c].pc = "idle" -> 0
      [] call[c].pc = "picking" -> 2 * Cardinality(Untried(c)) + 1
      [] call[c].pc = "open" -> 2 * Cardinality(Untried(c)) + 2

\* The steps of a call, after the one that starts it.
OwnStep(c) == Pick(c) \/ Succeed(c) \/ \E e \in Errors : Fail(c, e)

\* There are no more accounts to try than there are accounts.
LEMMA UntriedFacts ==
    ASSUME TypeOK, NEW c \in Callers
    PROVE  IsFiniteSet(Untried(c)) /\ Cardinality(Untried(c)) \in 0..NAccounts
  <1>1. IsFiniteSet(Accounts) /\ Cardinality(Accounts) = NAccounts
    BY PoolAssumption, FS_Interval DEF Accounts
  <1>2. /\ IsFiniteSet(Untried(c)) /\ Cardinality(Untried(c)) <= NAccounts
        /\ Cardinality(Untried(c)) \in Nat
    BY <1>1, FS_Subset, FS_CardinalityType DEF Untried
  <1> QED
    BY <1>2, PoolAssumption

\* An idle call has nothing left to do, any other something.
LEMMA LeftFacts ==
    ASSUME TypeOK, NEW c \in Callers
    PROVE  /\ StepsLeft(c) \in Nat
           /\ StepsLeft(c) <= 2 * NAccounts + 2
           /\ StepsLeft(c) = 0 <=> call[c].pc = "idle"
  <1>1. call[c].pc \in {"idle", "picking", "open"}
    BY DEF TypeOK, Call
  <1>2. PICK n \in 0..NAccounts : n = Cardinality(Untried(c))
    BY UntriedFacts
  <1>3. n \in Nat /\ n <= NAccounts /\ NAccounts \in Nat
    BY <1>2, PoolAssumption
  <1>4. \/ call[c].pc = "idle" /\ StepsLeft(c) = 0
        \/ call[c].pc = "picking" /\ StepsLeft(c) = 2 * n + 1
        \/ call[c].pc = "open" /\ StepsLeft(c) = 2 * n + 2
    BY <1>1, <1>2 DEF StepsLeft
  <1> QED
    BY <1>3, <1>4

\* An account picked was not tried before.
LEMMA PickProgress ==
    ASSUME TypeOK, TypeOK', NEW c \in Callers, Pick(c)
    PROVE  /\ StepsLeft(c)' < StepsLeft(c)
           /\ \A d \in Callers \ {c} : call'[d] = call[d]
  <1> DEFINE fresh == [a \in Accounts |-> Refresh(rs[a])]
  <1>1. fresh \in [Accounts -> AccountState]
    BY RefreshFacts DEF TypeOK
  <1>2. call[c].pc = "picking" /\ (Choose(c, fresh) \/ End(c, "state_error"))
    BY DEF Pick
  <1> HIDE DEF fresh
  <1>3. /\ call'[c].pc \in {"idle", "open"}
        /\ \A d \in Callers \ {c} : call'[d] = call[d]
        /\ call'[c].pc = "open" =>
              /\ call'[c].acct \in Accounts \ call[c].tried
              /\ call'[c].tried = call[c].tried \cup {call'[c].acct}
    BY <1>1, <1>2, ChooseType, EndType DEF Results
  <1>4. PICK n \in Nat : n = Cardinality(Untried(c))
    BY UntriedFacts
  <1>5. StepsLeft(c) = 2 * n + 1
    BY <1>2, <1>4 DEF StepsLeft
  <1>6. CASE call'[c].pc = "idle"
    <2>1. StepsLeft(c)' = 0
      BY <1>6 DEF StepsLeft
    <2> QED
      BY <1>3, <1>5, <2>1
  <1>7. CASE call'[c].pc = "open"
    <2>1. PICK a \in Untried(c) : a = call'[c].acct
      BY <1>3, <1>7 DEF Untried
    <2>2. Untried(c)' = Untried(c) \ {a}
      BY <1>3, <1>7, <2>1 DEF Untried
    <2>3. Cardinality(Untried(c)') = n - 1
      <3>1. IsFiniteSet(Untried(c))
        BY UntriedFacts
      <3>2. Cardinality(Untried(c) \ {a}) = Cardinality(Untried(c)) - 1
        BY <2>1, <3>1, FS_RemoveElement
      <3> QED
        BY <1>4, <2>2, <3>2
    <2>4. StepsLeft(c)' = 2 * Cardinality(Untried(c)') + 2
      BY <1>7 DEF StepsLeft
    <2> QED
      BY <1>3, <1>5, <2>3, <2>4
  <1> QED
    BY <1>3, <1>6, <1>7

\* An answer of the service ends the call or makes it pick again.
LEMMA AnswerProgress ==
    ASSUME TypeOK, NEW c \in Callers, Succeed(c) \/ \E e \in Errors : Fail(c, e)
    PROVE  /\ StepsLeft(c)' < StepsLeft(c)
           /\ \A d \in Callers \ {c} : call'[d] = call[d]
  <1>1. /\ call[c].pc = "open"
        /\ GoOn(c) \/ \E r \in Results : End(c, r)
    BY PoolAssumption DEF Succeed, Fail, Results
  <1>2. PICK n \in Nat : n = Cardinality(Untried(c))
    BY UntriedFacts
  <1>3. StepsLeft(c) = 2 * n + 2
    BY <1>1, <1>2 DEF StepsLeft
  <1>4. CASE GoOn(c)
    <2>1. /\ call'[c].pc = "picking" /\ call'[c].tried = call[c].tried
          /\ \A d \in Callers \ {c} : call'[d] = call[d]
      BY <1>4 DEF GoOn, TypeOK, Call
    <2>2. StepsLeft(c)' = 2 * n + 1
      BY <1>2, <2>1 DEF StepsLeft, Untried
    <2> QED
      BY <1>3, <2>1, <2>2
  <1>5. ASSUME NEW r \in Results, End(c, r)
        PROVE  /\ StepsLeft(c)' < StepsLeft(c)
               /\ \A d \in Callers \ {c} : call'[d] = call[d]
    <2>1. call'[c].pc = "idle" /\ \A d \in Callers \ {c} : call'[d] = call[d]
      BY <1>5, EndType
    <2>2. StepsLeft(c)' = 0
      BY <2>1 DEF StepsLeft
    <2> QED
      BY <1>3, <2>1, <2>2
  <1> QED
    BY <1>1, <1>4, <1>5

\* run_with_pool comes to an end because every step of a call, and no step but
\* its own or a restart, leaves it with less to do: over n accounts it is answered at
\* most n times and picks at most once more, whatever its budget of rotations.
THEOREM RotationsRunOut ==
    Spec => /\ [](\A c \in Callers : StepsLeft(c) \in Nat /\ StepsLeft(c) <= 2 * NAccounts + 2)
            /\ [][\A c \in Callers :
                     /\ OwnStep(c) => StepsLeft(c)' < StepsLeft(c)
                     /\ call[c].pc # "idle" =>
                           call'[c] = call[c] \/ StepsLeft(c)' < StepsLeft(c)]_vars
  <1> DEFINE Bounded ==
               \A c \in Callers : StepsLeft(c) \in Nat /\ StepsLeft(c) <= 2 * NAccounts + 2
             Shrinks == \A c \in Callers :
                          /\ OwnStep(c) => StepsLeft(c)' < StepsLeft(c)
                          /\ call[c].pc # "idle" =>
                                call'[c] = call[c] \/ StepsLeft(c)' < StepsLeft(c)
  <1>1. TypeOK => Bounded
    BY LeftFacts
  <1>2. TypeOK /\ TypeOK' /\ [Next]_vars => [Shrinks]_vars
    <2> SUFFICES ASSUME TypeOK, TypeOK', Next, NEW c \in Callers
                 PROVE  /\ OwnStep(c) => StepsLeft(c)' < StepsLeft(c)
                        /\ call[c].pc # "idle" =>
                              call'[c] = call[c] \/ StepsLeft(c)' < StepsLeft(c)
      BY DEF vars
    <2>1. OwnStep(c) => StepsLeft(c)' < StepsLeft(c)
      BY PickProgress, AnswerProgress DEF OwnStep
    <2>2. ASSUME call[c].pc # "idle", call'[c] # call[c]
          PROVE  StepsLeft(c)' < StepsLeft(c)
      <3>1. ~ Tick
        BY <2>2 DEF Tick
      <3>2. CASE Restart
        <4>1. StepsLeft(c)' = 0
          BY <3>2 DEF Restart, IdleCall, StepsLeft
        <4>2. StepsLeft(c) \in Nat /\ StepsLeft(c) # 0
          BY <2>2, LeftFacts
        <4> QED BY <4>1, <4>2
      <3>3. ASSUME NEW d \in Callers, Use(d) PROVE c = d /\ OwnStep(d)
        <4>1. CASE Start(d)
          BY <2>2, <4>1 DEF Start, TypeOK
        <4>2. CASE OwnStep(d)
          BY <2>2, <4>2, PickProgress, AnswerProgress DEF OwnStep
        <4> QED BY <3>3, <4>1, <4>2 DEF Use, OwnStep
      <3> QED
        BY <2>1, <3>1, <3>2, <3>3 DEF Next
    <2> QED
      BY <2>1, <2>2
  <1> QED
    BY <1>1, <1>2, TypeCorrect, PTL DEF Spec
=============================================================================
