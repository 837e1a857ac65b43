-------------------------- MODULE AccountQuota_proofs --------------------------
(***************************************************************************)
(* Theorems of AccountQuota for any accounts, threads, limits and inputs.  *)
(* The inductive invariant is IInv: a thread between load and write holds  *)
(* the lock and its copy is the file, so the limit it checks is current;   *)
(* a selection was within the limit at the usage it saw, and usage only    *)
(* grows.                                                                  *)
(***************************************************************************)
EXTENDS AccountQuota, FiniteSetTheorems, TLAPS

\* The locals of a call fit its operation.
Formed(c) ==
    \/ c = IdleThread
    \/ /\ c.alias \in Aliases
       /\ c.op = "signal" => c.input \in Signals
       /\ c.op = "health" => c.input \in Checks
       /\ c.pc \in {"update", "loaded", "event"} => c.op # "none"
       /\ c.pc = "chosen" => c.op = "none"
       /\ c.op \in {"none", "usage"} => c.inc \in Nat \ {0}

\* What select_account saw, and what a refusal after it means.
Warranted(c) ==
    c.saw # -1 =>
        /\ c.alias \in Aliases
        /\ Limit[c.alias] # Unlimited => c.saw + c.inc <= Limit[c.alias]
        /\ c.saw <= state[c.alias].used
        /\ c.refused => c.saw < state[c.alias].used

LockedCopy(t) == thread[t].pc = "loaded" => lock = t /\ thread[t].copy = state

Calls == \A t \in Threads : Formed(thread[t]) /\ Warranted(thread[t]) /\ LockedCopy(t)

IInv == TypeOK /\ Calls /\ UsageWithinLimit

-----------------------------------------------------------------------------
(* What the updaters return.                                               *)

LEMMA UsageFacts ==
    ASSUME NEW a \in Aliases, NEW r \in Account, NEW c \in Thread
    PROVE  /\ AfterUsage(a, r, c) \in Account
           /\ AfterUsage(a, r, c).used = r.used + c.inc
           /\ r.status \in Bars => AfterUsage(a, r, c).status = r.status
  <1> DEFINE used == r.used + c.inc
             estimate == EstimateAfterUsage(a, used, r.estimate)
             status == StatusAfterUsage(r.status, estimate)
  <1>1. used \in Nat /\ c.at \in Nat /\ r.status \in Statuses /\ r.estimate \in Estimates
    BY DEF Account, Thread
  <1>2. estimate \in Estimates
    BY <1>1 DEF EstimateAfterUsage, Estimates
  <1>3. status \in Statuses /\ (r.status \in Bars => status = r.status)
    BY <1>1 DEF StatusAfterUsage, Statuses, Bars
  <1>4. AfterUsage(a, r, c) = [r EXCEPT !.used = used, !.estimate = estimate,
                                        !.status = status, !.lastUsed = c.at]
    BY DEF AfterUsage
  <1> HIDE DEF used, estimate, status
  <1>5. AfterUsage(a, r, c).used = used /\ AfterUsage(a, r, c).status = status
    BY <1>4 DEF Account
  <1>6. AfterUsage(a, r, c) \in Account
    BY <1>1, <1>2, <1>3, <1>4 DEF Account
  <1> QED
    BY <1>3, <1>5, <1>6 DEF used

LEMMA CoolFacts ==
    ASSUME NEW r \in Account, NEW c \in Thread, c.input.wait \in Nat
    PROVE  CoolUntil(r, c) \in Nat
  BY DEF CoolUntil, Account, Thread

LEMMA SignalFacts ==
    ASSUME NEW r \in Account, NEW c \in Thread, c.input \in Signals
    PROVE  AfterSignal(r, c) \in Account /\ AfterSignal(r, c).used = r.used
  <1> DEFINE class == Class(c.input.kind, c.input.wait, r.estimate)
             until == CoolUntil(r, c)
  <1>1. c.input.kind \in Kinds /\ c.input.wait \in Nat /\ r.estimate \in Estimates
    BY QuotaAssumption DEF Account
  <1>2. class[1] \in Statuses /\ class[2] \in Estimates
    BY <1>1 DEF Class, Kinds, Statuses, Estimates
  <1>3. until \in Nat
    BY <1>1, CoolFacts
  <1>4. AfterSignal(r, c) = [r EXCEPT !.status = class[1], !.estimate = class[2], !.cool = until]
    BY DEF AfterSignal
  <1> HIDE DEF class, until
  <1> QED
    BY <1>2, <1>3, <1>4 DEF Account

LEMMA CheckFacts ==
    ASSUME NEW r \in Account, NEW c \in Thread, c.input \in Checks
    PROVE  AfterCheck(r, c) \in Account /\ AfterCheck(r, c).used = r.used
  <1> DEFINE estimate == HealthEstimate(c.input, r.estimate)
             until == CoolUntil(r, c)
             status == c.input.status
  <1>1. status \in Statuses /\ c.input.wait \in Nat /\ r.estimate \in Estimates
    BY QuotaAssumption DEF Account
  <1>2. estimate \in Estimates
    BY <1>1 DEF HealthEstimate, Estimates
  <1>3. until \in Nat
    BY <1>1, CoolFacts
  <1>4. AfterCheck(r, c) = [r EXCEPT !.status = status, !.cool = until, !.estimate = estimate]
    BY DEF AfterCheck
  <1> HIDE DEF estimate, until, status
  <1> QED
    BY <1>1, <1>2, <1>3, <1>4 DEF Account

\* An update keeps the type, moves the usage by the increment of a usage call only,
\* and lifts a bar only for a signal or a health record.
LEMMA UpdateFacts ==
    ASSUME NEW a \in Aliases, NEW r \in Account, NEW c \in Thread,
           Formed(c), c.pc = "loaded"
    PROVE  /\ Updated(a, r, c) \in Account
           /\ Updated(a, r, c).used = IF c.op = "usage" THEN r.used + c.inc ELSE r.used
           /\ c.op = "usage" /\ r.status \in Bars => Updated(a, r, c).status = r.status
  <1>1. /\ c.op \in {"usage", "signal", "health"}
        /\ c.op = "signal" => c.input \in Signals
        /\ c.op = "health" => c.input \in Checks
    BY DEF Formed, IdleThread, Thread
  <1>2. CASE c.op = "usage"
    BY <1>2, UsageFacts DEF Updated
  <1>3. CASE c.op = "signal"
    BY <1>1, <1>3, SignalFacts DEF Updated
  <1>4. CASE c.op = "health"
    BY <1>1, <1>4, CheckFacts DEF Updated
  <1> QED
    BY <1>1, <1>2, <1>3, <1>4

-----------------------------------------------------------------------------
(* The invariant holds initially and is preserved.                         *)

LEMMA FreshFacts == Fresh \in Account /\ AllFresh \in Files
  BY DEF Fresh, Account, Statuses, Estimates, AllFresh, Files

LEMMA IdleFacts == IdleThread \in Thread
  BY FreshFacts DEF IdleThread, Thread

LEMMA InitInvariant == Init => IInv
  <1> SUFFICES ASSUME Init PROVE IInv
    OBVIOUS
  <1>1. 1 \in 1..MaxTime /\ 0 \in 0..MaxCalls /\ 0 \in 0..MaxFaults
    BY QuotaAssumption
  <1>2. TypeOK
    BY <1>1, FreshFacts, IdleFacts DEF Init, TypeOK
  <1>3. Calls
    BY DEF Init, Calls, Formed, Warranted, LockedCopy, IdleThread
  <1>4. UsageWithinLimit
    <2> SUFFICES ASSUME NEW a \in Aliases, Limit[a] # Unlimited
                 PROVE  state[a].used <= Limit[a]
      BY DEF UsageWithinLimit
    <2>1. Limit[a] \in Nat
      BY QuotaAssumption
    <2>2. state[a].used = 0
      BY DEF Init, AllFresh, Fresh
    <2> QED
      BY <2>1, <2>2
  <1> QED
    BY <1>2, <1>3, <1>4 DEF IInv

\* A step of one thread outside the lock, or that gives the lock back, without a
\* change to the state file.
LEMMA LocalStep ==
    ASSUME IInv, NEW t \in Threads, NEW q \in Thread, Set(t, q),
           Formed(q), Warranted(q), q.pc # "loaded",
           state' = state, events' \in [Aliases -> Nat],
           lock' = lock \/ (lock' = NoOne /\ lock \in {t, NoOne}),
           now' \in 1..MaxTime, calls' \in 0..MaxCalls, faults' \in 0..MaxFaults
    PROVE  IInv'
  <1>1. \A u \in Threads : thread'[u] = IF u = t THEN q ELSE thread[u]
    BY DEF Set, IInv, TypeOK
  <1>2. thread' \in [Threads -> Thread]
    BY DEF Set, IInv, TypeOK
  <1>3. TypeOK'
    BY <1>2 DEF IInv, TypeOK
  <1>4. Calls'
    <2> SUFFICES ASSUME NEW u \in Threads
                 PROVE  /\ Formed(thread[u])' /\ Warranted(thread[u])' /\ LockedCopy(u)'
      BY DEF Calls
    <2>1. CASE u = t
      BY <1>1, <2>1 DEF Formed, Warranted, LockedCopy
    <2>2. CASE u # t
      <3>1. thread'[u] = thread[u] /\ Formed(thread[u]) /\ Warranted(thread[u]) /\ LockedCopy(u)
        BY <1>1, <2>2 DEF IInv, Calls
      <3>2. thread[u].pc = "loaded" => lock' = lock
        BY <3>1, <2>2, QuotaAssumption DEF LockedCopy
      <3> QED
        BY <3>1, <3>2 DEF Formed, Warranted, LockedCopy
    <2> QED
      BY <2>1, <2>2
  <1>5. UsageWithinLimit'
    BY DEF IInv, UsageWithinLimit
  <1> QED
    BY <1>3, <1>4, <1>5 DEF IInv

LEMMA BeginFacts ==
    ASSUME IInv, NEW t \in Threads, Begin(t)
    PROVE  calls' \in 0..MaxCalls /\ thread[t] \in Thread
  BY QuotaAssumption DEF Begin, IInv, TypeOK

LEMMA SelectInvariant ==
    ASSUME IInv, NEW t \in Threads, NEW able \in Needs, NEW inc \in Increments,
           Select(t, able, inc)
    PROVE  IInv'
  <1>1. PICK a \in Aliases :
          /\ Candidate(a, inc)
          /\ Set(t, [IdleThread EXCEPT !.pc = "chosen", !.alias = a, !.inc = inc,
                                        !.saw = state[a].used])
    BY QuotaAssumption DEF Select
  <1> DEFINE saw == state[a].used
             q == [IdleThread EXCEPT !.pc = "chosen", !.alias = a, !.inc = inc, !.saw = saw]
  <1>2. state[a].used \in Nat /\ inc \in Nat \ {0}
    BY QuotaAssumption DEF IInv, TypeOK, Files, Account
  <1>3. Limit[a] # Unlimited => saw + inc <= Limit[a]
    BY <1>1, <1>2, QuotaAssumption DEF Candidate, WouldLimit
  <1>4. saw <= state[a].used
    BY <1>2
  <1>5. saw \in Nat
    BY <1>2
  <1> HIDE DEF saw
  <1>6. /\ q \in Thread
        /\ q.pc = "chosen" /\ q.alias = a /\ q.inc = inc /\ q.saw = saw /\ q.op = "none"
        /\ q.refused = FALSE
    BY <1>2, <1>5, IdleFacts DEF IdleThread, Thread
  <1>7. Set(t, q)
    BY <1>1 DEF saw
  <1> HIDE DEF q
  <1>8. Formed(q) /\ Warranted(q)
    BY <1>2, <1>3, <1>4, <1>6 DEF Formed, Warranted
  <1>9. /\ Begin(t) /\ UNCHANGED <<state, events, lock, now, faults>>
    BY DEF Select
  <1> QED
    BY <1>6, <1>7, <1>8, <1>9, BeginFacts, LocalStep DEF IInv, TypeOK

LEMMA UseInvariant ==
    ASSUME IInv, NEW t \in Threads, NEW a \in Aliases, NEW inc \in Increments, Use(t, a, inc)
    PROVE  IInv'
  <1> DEFINE q == [IdleThread EXCEPT !.pc = "update", !.op = "usage", !.alias = a, !.inc = inc,
                                     !.at = now]
  <1>1. now \in Nat /\ inc \in Nat \ {0}
    BY QuotaAssumption DEF IInv, TypeOK
  <1>2. /\ q \in Thread
        /\ q.pc = "update" /\ q.op = "usage" /\ q.alias = a /\ q.saw = -1
        /\ q.inc = inc
    BY <1>1, IdleFacts DEF IdleThread, Thread
  <1>3. Set(t, q) /\ Begin(t) /\ UNCHANGED <<state, events, lock, now, faults>>
    BY DEF Use
  <1> HIDE DEF q
  <1>4. Formed(q) /\ Warranted(q)
    BY <1>1, <1>2 DEF Formed, Warranted
  <1> QED
    BY <1>2, <1>3, <1>4, BeginFacts, LocalStep DEF IInv, TypeOK

LEMMA SignalInvariant ==
    ASSUME IInv, NEW t \in Threads, NEW a \in Aliases, NEW s \in Signals, Signal(t, a, s)
    PROVE  IInv'
  <1> DEFINE q == [IdleThread EXCEPT !.pc = "update", !.op = "signal", !.alias = a, !.input = s,
                                     !.at = now]
  <1>1. now \in Nat
    BY QuotaAssumption DEF IInv, TypeOK
  <1>2. /\ q \in Thread
        /\ q.pc = "update" /\ q.op = "signal" /\ q.alias = a /\ q.saw = -1 /\ q.input = s
    BY <1>1, IdleFacts DEF IdleThread, Thread
  <1>3. Set(t, q) /\ Begin(t) /\ UNCHANGED <<state, events, lock, now, faults>>
    BY DEF Signal
  <1> HIDE DEF q
  <1>4. Formed(q) /\ Warranted(q)
    BY <1>2 DEF Formed, Warranted
  <1> QED
    BY <1>2, <1>3, <1>4, BeginFacts, LocalStep DEF IInv, TypeOK

LEMMA CheckInvariant ==
    ASSUME IInv, NEW t \in Threads, NEW a \in Aliases, NEW h \in Checks, Check(t, a, h)
    PROVE  IInv'
  <1> DEFINE q == [IdleThread EXCEPT !.pc = "update", !.op = "health", !.alias = a, !.input = h,
                                     !.at = now]
  <1>1. now \in Nat
    BY QuotaAssumption DEF IInv, TypeOK
  <1>2. /\ q \in Thread
        /\ q.pc = "update" /\ q.op = "health" /\ q.alias = a /\ q.saw = -1 /\ q.input = h
    BY <1>1, IdleFacts DEF IdleThread, Thread
  <1>3. Set(t, q) /\ Begin(t) /\ UNCHANGED <<state, events, lock, now, faults>>
    BY DEF Check
  <1> HIDE DEF q
  <1>4. Formed(q) /\ Warranted(q)
    BY <1>2 DEF Formed, Warranted
  <1> QED
    BY <1>2, <1>3, <1>4, BeginFacts, LocalStep DEF IInv, TypeOK

LEMMA UseSelectedInvariant == ASSUME IInv, NEW t \in Threads, UseSelected(t) PROVE IInv'
  <1> DEFINE q == [thread[t] EXCEPT !.pc = "update", !.op = "usage", !.at = now]
  <1>1. now \in Nat /\ thread[t] \in Thread /\ thread[t].pc = "chosen"
    BY DEF UseSelected, IInv, TypeOK
  <1>2. /\ q \in Thread
        /\ q.pc = "update" /\ q.op = "usage" /\ q.alias = thread[t].alias
        /\ q.inc = thread[t].inc /\ q.saw = thread[t].saw /\ q.refused = thread[t].refused
    BY <1>1 DEF Thread
  <1>3. Set(t, q) /\ UNCHANGED <<state, events, lock, now, calls, faults>>
    BY DEF UseSelected
  <1>4. Formed(thread[t]) /\ Warranted(thread[t])
    BY DEF IInv, Calls
  <1> HIDE DEF q
  <1>5. Formed(q)
    BY <1>1, <1>2, <1>4 DEF Formed, IdleThread
  <1>6. Warranted(q)
    BY <1>2, <1>4 DEF Warranted
  <1> QED
    BY <1>2, <1>3, <1>5, <1>6, LocalStep DEF IInv, TypeOK

\* Under the lock the copy is the file: no other thread is between load and write.
LEMMA LoadInvariant == ASSUME IInv, NEW t \in Threads, Load(t) PROVE IInv'
  <1> DEFINE q == [thread[t] EXCEPT !.pc = "loaded", !.copy = state]
  <1>1. /\ state \in Files /\ thread[t] \in Thread /\ thread[t].pc = "update"
        /\ lock = NoOne /\ lock' = t
        /\ UNCHANGED <<state, events, now, calls, faults>>
    BY DEF Load, IInv, TypeOK
  <1>2. /\ q \in Thread
        /\ q.pc = "loaded" /\ q.op = thread[t].op /\ q.alias = thread[t].alias
        /\ q.input = thread[t].input /\ q.copy = state
        /\ q.inc = thread[t].inc /\ q.saw = thread[t].saw /\ q.refused = thread[t].refused
    BY <1>1 DEF Thread
  <1>3. thread' = [thread EXCEPT ![t] = q]
    BY DEF Load, Set
  <1>4. Formed(thread[t]) /\ Warranted(thread[t])
    BY DEF IInv, Calls
  <1> HIDE DEF q
  <1>5. Formed(q)
    BY <1>1, <1>2, <1>4 DEF Formed, IdleThread
  <1>6. Warranted(q)
    BY <1>2, <1>4 DEF Warranted
  <1>7. \A u \in Threads : thread'[u] = IF u = t THEN q ELSE thread[u]
    BY <1>3 DEF IInv, TypeOK
  <1>8. TypeOK'
    BY <1>1, <1>2, <1>3 DEF IInv, TypeOK
  <1>9. Calls'
    <2> SUFFICES ASSUME NEW u \in Threads
                 PROVE  Formed(thread[u])' /\ Warranted(thread[u])' /\ LockedCopy(u)'
      BY DEF Calls
    <2>1. CASE u = t
      BY <1>1, <1>2, <1>5, <1>6, <1>7, <2>1 DEF Formed, Warranted, LockedCopy
    <2>2. CASE u # t
      <3>1. thread'[u] = thread[u] /\ Formed(thread[u]) /\ Warranted(thread[u]) /\ LockedCopy(u)
        BY <1>7, <2>2 DEF IInv, Calls
      <3>2. thread[u].pc # "loaded"
        BY <1>1, <3>1, QuotaAssumption DEF LockedCopy
      <3> QED
        BY <1>1, <3>1, <3>2 DEF Formed, Warranted, LockedCopy
    <2> QED
      BY <2>1, <2>2
  <1>10. UsageWithinLimit'
    BY <1>1 DEF IInv, UsageWithinLimit
  <1> QED
    BY <1>8, <1>9, <1>10 DEF IInv

\* A refusal after a selection: the file holds more usage than the selection saw.
LEMMA RefuseInvariant == ASSUME IInv, NEW t \in Threads, Refuse(t) PROVE IInv'
  <1> DEFINE q == [thread[t] EXCEPT !.pc = "idle", !.copy = AllFresh, !.refused = TRUE]
             a == thread[t].alias
  <1>1. /\ thread[t] \in Thread /\ thread[t].pc = "loaded" /\ lock' = NoOne
        /\ UNCHANGED <<state, events, now, calls, faults>>
        /\ Set(t, q) /\ Exceeds(t)
    BY DEF Refuse, IInv, TypeOK
  <1>2. /\ q \in Thread
        /\ q.pc = "idle" /\ q.op = thread[t].op /\ q.alias = a /\ q.input = thread[t].input
        /\ q.inc = thread[t].inc /\ q.saw = thread[t].saw
    BY <1>1, FreshFacts DEF Thread
  <1>3. Formed(thread[t]) /\ Warranted(thread[t]) /\ lock = t /\ thread[t].copy = state
    BY <1>1 DEF IInv, Calls, LockedCopy
  <1> HIDE DEF q
  <1>4. Formed(q) /\ a \in Aliases
    BY <1>1, <1>2, <1>3 DEF Formed, IdleThread
  <1>5. thread[t].saw # -1 => thread[t].saw < state[a].used
    <2>1. Limit[a] # Unlimited /\ state[a].used + thread[t].inc > Limit[a]
      BY <1>1, <1>3 DEF Exceeds, WouldLimit
    <2>2. state[a].used \in Nat /\ thread[t].inc \in Nat /\ Limit[a] \in Nat
          /\ thread[t].saw \in Nat \cup {-1}
      BY <1>1, <1>4, <2>1, QuotaAssumption DEF IInv, TypeOK, Files, Account, Thread
    <2>3. thread[t].saw # -1 => thread[t].saw + thread[t].inc <= Limit[a]
      BY <1>3, <2>1 DEF Warranted
    <2> HIDE DEF a
    <2> QED
      BY <2>1, <2>2, <2>3
  <1>6. Warranted(q)
    BY <1>2, <1>3, <1>4, <1>5 DEF Warranted
  <1> QED
    BY <1>1, <1>2, <1>3, <1>4, <1>6, LocalStep DEF IInv, TypeOK

\* The write installs the copy, which is the file, with one record updated.
LEMMA WriteFacts ==
    ASSUME IInv, NEW t \in Threads, Write(t)
    PROVE  /\ thread[t].alias \in Aliases /\ thread[t].pc = "loaded"
           /\ Formed(thread[t])
           /\ state' = [state EXCEPT ![thread[t].alias] =
                                Updated(thread[t].alias, state[thread[t].alias], thread[t])]
           /\ Updated(thread[t].alias, state[thread[t].alias], thread[t]) \in Account
           /\ state'[thread[t].alias].used =
                 IF thread[t].op = "usage" THEN state[thread[t].alias].used + thread[t].inc
                                           ELSE state[thread[t].alias].used
           /\ thread[t].op = "usage" /\ state[thread[t].alias].status \in Bars =>
                 state'[thread[t].alias].status = state[thread[t].alias].status
  <1> DEFINE a == thread[t].alias
  <1>1. /\ thread[t] \in Thread /\ thread[t].pc = "loaded" /\ state \in [Aliases -> Account]
        /\ Formed(thread[t]) /\ thread[t].copy = state
    BY DEF Write, IInv, TypeOK, Calls, LockedCopy, Files
  <1>2. a \in Aliases
    BY <1>1 DEF Formed, IdleThread
  <1> DEFINE r == Updated(a, state[a], thread[t])
  <1>3. state' = [state EXCEPT ![a] = r]
    BY <1>1 DEF Write, Store
  <1>4. state'[a] = r
    BY <1>1, <1>2, <1>3
  <1>5. state[a] \in Account
    BY <1>1, <1>2
  <1> HIDE DEF a, r
  <1>6. /\ r \in Account
        /\ r.used = IF thread[t].op = "usage" THEN state[a].used + thread[t].inc
                                              ELSE state[a].used
        /\ thread[t].op = "usage" /\ state[a].status \in Bars => r.status = state[a].status
    BY <1>1, <1>2, <1>5, UpdateFacts DEF r
  <1> QED
    BY <1>1, <1>2, <1>3, <1>4, <1>6 DEF a, r

LEMMA WriteInvariant == ASSUME IInv, NEW t \in Threads, Write(t) PROVE IInv'
  <1> DEFINE q == [thread[t] EXCEPT !.pc = "event", !.copy = AllFresh]
             a == thread[t].alias
             r == Updated(a, state[a], thread[t])
  <1>1. /\ thread[t] \in Thread /\ lock' = NoOne /\ ~Exceeds(t)
        /\ UNCHANGED <<events, now, calls, faults>> /\ thread' = [thread EXCEPT ![t] = q]
    BY DEF Write, Set, IInv, TypeOK
  <1>2. /\ a \in Aliases /\ thread[t].pc = "loaded" /\ Formed(thread[t])
        /\ state' = [state EXCEPT ![a] = r] /\ r \in Account
        /\ state'[a].used = IF thread[t].op = "usage" THEN state[a].used + thread[t].inc
                                                      ELSE state[a].used
    BY WriteFacts
  <1>3. /\ q \in Thread
        /\ q.pc = "event" /\ q.op = thread[t].op /\ q.alias = a /\ q.input = thread[t].input
        /\ q.inc = thread[t].inc /\ q.saw = thread[t].saw /\ q.refused = thread[t].refused
    BY <1>1, FreshFacts DEF Thread
  <1>4. Warranted(thread[t]) /\ lock = t /\ thread[t].copy = state /\ state \in [Aliases -> Account]
    BY <1>2 DEF IInv, TypeOK, Calls, LockedCopy, Files
  <1> HIDE DEF q, a, r
  <1>5. Formed(q)
    BY <1>2, <1>3 DEF Formed, IdleThread, a
  <1>6. \A b \in Aliases : state'[b].used \in Nat /\ state[b].used \in Nat /\ state'[b].used >= state[b].used
    <2>1. \A b \in Aliases : state[b].used \in Nat /\ (b # a => state'[b] = state[b])
      BY <1>2, <1>4 DEF Account
    <2>2. thread[t].inc \in Nat
      BY <1>1 DEF Thread
    <2> QED
      BY <1>2, <2>1, <2>2
  <1>7. \A c \in Thread : Warranted(c) => Warranted(c)'
    <2> SUFFICES ASSUME NEW c \in Thread, Warranted(c), c.saw # -1
                 PROVE  /\ c.alias \in Aliases
                        /\ Limit[c.alias] # Unlimited => c.saw + c.inc <= Limit[c.alias]
                        /\ c.saw <= state'[c.alias].used
                        /\ c.refused => c.saw < state'[c.alias].used
      BY DEF Warranted
    <2>1. c.saw \in Nat
      BY DEF Thread
    <2>2. c.alias \in Aliases /\ c.saw <= state[c.alias].used
          /\ (c.refused => c.saw < state[c.alias].used)
      BY DEF Warranted
    <2> QED
      BY <1>6, <2>1, <2>2 DEF Warranted
  <1>8. \A u \in Threads : thread'[u] = (IF u = t THEN q ELSE thread[u]) /\ thread'[u] \in Thread
                           /\ thread[u] \in Thread
    BY <1>1, <1>3 DEF IInv, TypeOK
  <1>9. TypeOK'
    <2>1. state' \in Files
      BY <1>2, <1>4 DEF Files
    <2>2. thread' \in [Threads -> Thread]
      BY <1>1, <1>3 DEF IInv, TypeOK
    <2> QED
      BY <1>1, <2>1, <2>2 DEF IInv, TypeOK
  <1>10. Calls'
    <2> SUFFICES ASSUME NEW u \in Threads
                 PROVE  Formed(thread[u])' /\ Warranted(thread[u])' /\ LockedCopy(u)'
      BY DEF Calls
    <2>1. CASE u = t
      <3>1. Warranted(q)
        BY <1>3, <1>4 DEF Warranted, a
      <3> QED
        BY <1>3, <1>5, <1>7, <1>8, <2>1, <3>1 DEF Formed, Warranted, LockedCopy
    <2>2. CASE u # t
      <3>1. thread'[u] = thread[u] /\ Formed(thread[u]) /\ Warranted(thread[u]) /\ LockedCopy(u)
        BY <1>8, <2>2 DEF IInv, Calls
      <3>2. thread[u].pc # "loaded"
        BY <1>4, <2>2, <3>1 DEF LockedCopy
      <3>3. Warranted(thread[u])'
        BY <1>7, <1>8, <3>1 DEF Warranted
      <3> QED
        BY <3>1, <3>2, <3>3 DEF Formed, LockedCopy
    <2> QED
      BY <2>1, <2>2
  <1>11. UsageWithinLimit'
    <2> SUFFICES ASSUME NEW b \in Aliases, Limit[b] # Unlimited
                 PROVE  state'[b].used <= Limit[b]
      BY DEF UsageWithinLimit
    <2>1. state[b].used <= Limit[b] /\ Limit[b] \in Nat
      BY QuotaAssumption DEF IInv, UsageWithinLimit
    <2>2. b # a => state'[b] = state[b]
      BY <1>2, <1>4
    <2>3. CASE b = a /\ thread[t].op = "usage"
      <3>1. ~(state[a].used + thread[t].inc > Limit[a])
        BY <1>1, <1>4, <2>3 DEF Exceeds, WouldLimit, a
      <3>2. state[a].used \in Nat /\ thread[t].inc \in Nat
        BY <1>1, <1>2, <1>6 DEF Thread
      <3> QED
        BY <1>2, <2>1, <2>3, <3>1, <3>2
    <2> QED
      BY <1>2, <2>1, <2>2, <2>3
  <1> QED
    BY <1>9, <1>10, <1>11 DEF IInv

LEMMA IdleIsGood == Formed(IdleThread) /\ Warranted(IdleThread) /\ IdleThread.pc = "idle"
  BY DEF Formed, Warranted, IdleThread

LEMMA AppendInvariant == ASSUME IInv, NEW t \in Threads, AppendEvent(t) PROVE IInv'
  <1>1. Set(t, IdleThread) /\ UNCHANGED <<state, lock, now, calls, faults>>
    BY DEF AppendEvent
  <1>2. events' \in [Aliases -> Nat]
    <2>1. events \in [Aliases -> Nat] /\ thread[t].alias \in Aliases
      BY DEF AppendEvent, IInv, TypeOK, Calls, Formed, IdleThread
    <2>2. events[thread[t].alias] + 1 \in Nat
      BY <2>1
    <2> QED
      BY <2>1, <2>2 DEF AppendEvent
  <1> QED
    BY <1>1, <1>2, IdleFacts, IdleIsGood, LocalStep DEF IInv, TypeOK

LEMMA WriteFailsInvariant == ASSUME IInv, NEW t \in Threads, WriteFails(t) PROVE IInv'
  <1>1. /\ Set(t, IdleThread) /\ lock' = NoOne /\ faults' \in 0..MaxFaults
        /\ UNCHANGED <<state, events, now, calls>>
    BY QuotaAssumption DEF WriteFails, IInv, TypeOK
  <1>2. lock \in {t, NoOne}
    BY DEF WriteFails, IInv, Calls, LockedCopy
  <1> QED
    BY <1>1, <1>2, IdleFacts, IdleIsGood, LocalStep DEF IInv, TypeOK

LEMMA DieInvariant == ASSUME IInv, Die PROVE IInv'
  <1>1. /\ thread' = [t \in Threads |-> IdleThread] /\ lock' = NoOne
        /\ faults' \in 0..MaxFaults /\ UNCHANGED <<state, events, now, calls>>
    BY QuotaAssumption DEF Die, IInv, TypeOK
  <1>2. TypeOK'
    BY <1>1, IdleFacts DEF IInv, TypeOK
  <1>3. Calls'
    BY <1>1, IdleIsGood DEF Calls, Formed, Warranted, LockedCopy, IdleThread
  <1> QED
    BY <1>1, <1>2, <1>3 DEF IInv, UsageWithinLimit

LEMMA TickInvariant == ASSUME IInv, Tick PROVE IInv'
  <1>1. now' \in 1..MaxTime /\ UNCHANGED <<state, events, lock, thread, calls, faults>>
    BY QuotaAssumption DEF Tick, IInv, TypeOK
  <1> QED
    BY <1>1 DEF IInv, TypeOK, Calls, Formed, Warranted, LockedCopy, UsageWithinLimit

LEMMA StutterInvariant == ASSUME IInv, UNCHANGED vars PROVE IInv'
  BY DEF vars, IInv, TypeOK, Calls, Formed, Warranted, LockedCopy, UsageWithinLimit

LEMMA NextInvariant == IInv /\ [Next]_vars => IInv'
  <1> SUFFICES ASSUME IInv, [Next]_vars PROVE IInv'
    OBVIOUS
  <1>1. ASSUME NEW t \in Threads, Call(t) PROVE IInv'
    BY <1>1, SelectInvariant, UseInvariant, SignalInvariant, CheckInvariant DEF Call
  <1>2. ASSUME NEW t \in Threads, UseSelected(t) PROVE IInv'
    BY <1>2, UseSelectedInvariant
  <1>3. ASSUME NEW t \in Threads, Update(t) PROVE IInv'
    BY <1>3, LoadInvariant, RefuseInvariant, WriteInvariant, AppendInvariant DEF Update
  <1>4. ASSUME NEW t \in Threads, WriteFails(t) PROVE IInv'
    BY <1>4, WriteFailsInvariant
  <1> QED
    BY <1>1, <1>2, <1>3, <1>4, DieInvariant, TickInvariant, StutterInvariant DEF Next

\* The inductive invariant holds in every behaviour.
THEOREM Invariance == Spec => []IInv
  BY InitInvariant, NextInvariant, PTL DEF Spec

-----------------------------------------------------------------------------
(* The theorems.                                                           *)

\* Registry state, events, lock and calls keep their types for any accounts,
\* threads and inputs of the callers.
THEOREM TypeCorrect == Spec => []TypeOK
  <1>1. IInv => TypeOK
    BY DEF IInv
  <1> QED
    BY <1>1, Invariance, PTL

\* The check that record_usage repeats under the lock keeps every account within its
\* limit, however many threads selected it before.
THEOREM LimitsHold == Spec => []UsageWithinLimit
  <1>1. IInv => UsageWithinLimit
    BY DEF IInv
  <1> QED
    BY <1>1, Invariance, PTL

\* A selection and the recording of its usage disagree only because of usage that
\* was recorded between them.
THEOREM SelectionsAreRefusedForCause == Spec => []RefusalsHaveCause
  <1>1. IInv => RefusalsHaveCause
    <2> SUFFICES ASSUME IInv, NEW t \in Threads, thread[t].refused, thread[t].saw # -1
                 PROVE  state[thread[t].alias].used > thread[t].saw
      BY DEF RefusalsHaveCause
    <2>1. /\ thread[t].alias \in Aliases /\ thread[t].saw < state[thread[t].alias].used
          /\ thread[t] \in Thread
      BY DEF IInv, TypeOK, Calls, Warranted
    <2>2. thread[t].saw \in Nat /\ state[thread[t].alias].used \in Nat
      BY <2>1 DEF IInv, TypeOK, Files, Account, Thread
    <2> QED
      BY <2>1, <2>2
  <1> QED
    BY <1>1, Invariance, PTL

\* Only the write of a signal or health record on an account lifts its bar; the
\* writes of usage racing with it do not.
THEOREM BarsAreNotLost == Spec => BarsOutlastUsage
  <1> DEFINE Lifted(a) == state[a].status \in Bars /\ state'[a].status # state[a].status
             Lifter(a) == \E t \in Threads : /\ thread[t].pc = "loaded" /\ thread'[t].pc # "loaded"
                                             /\ thread[t].alias = a /\ thread[t].op # "usage"
  <1>1. ASSUME IInv, [Next]_vars, NEW a \in Aliases, Lifted(a) PROVE Lifter(a)
    <2>1. ASSUME NEW t \in Threads, Write(t) PROVE Lifter(a)
      <3>1. /\ thread[t].pc = "loaded" /\ thread[t].alias \in Aliases
            /\ state' = [state EXCEPT ![thread[t].alias] =
                                 Updated(thread[t].alias, state[thread[t].alias], thread[t])]
            /\ thread[t].op = "usage" /\ state[thread[t].alias].status \in Bars =>
                  state'[thread[t].alias].status = state[thread[t].alias].status
        BY <1>1, <2>1, WriteFacts
      <3>2. thread'[t].pc = "event"
        <4>1. /\ thread' = [thread EXCEPT ![t] = [thread[t] EXCEPT !.pc = "event", !.copy = AllFresh]]
              /\ thread \in [Threads -> Thread]
          BY <1>1, <2>1 DEF Write, Set, IInv, TypeOK
        <4> QED
          BY <4>1 DEF Thread
      <3>3. thread[t].alias = a
        BY <1>1, <3>1 DEF IInv, TypeOK, Files
      <3>4. thread[t].op # "usage"
        BY <1>1, <3>1, <3>3
      <3> QED
        BY <3>1, <3>2, <3>3, <3>4
    <2>2. CASE state' = state
      BY <1>1, <2>2
    <2> QED
      BY <1>1, <2>1, <2>2
      DEF Next, vars, Call, Update, Select, UseSelected, Use, Signal, Check, Load, Refuse,
          AppendEvent, WriteFails, Die, Tick
  <1>2. IInv /\ [Next]_vars => [\A a \in Aliases : Lifted(a) => Lifter(a)]_vars
    BY <1>1
  <1>3. Spec => [][\A a \in Aliases : Lifted(a) => Lifter(a)]_vars
    BY <1>2, Invariance, PTL DEF Spec
  <1> QED
    BY <1>3 DEF BarsOutlastUsage

-----------------------------------------------------------------------------
(* Usage against events.                                                   *)

LEMMA PendingFacts ==
    ASSUME NEW S \in SUBSET Threads, NEW T \in SUBSET Threads
    PROVE  /\ Cardinality(S) \in Nat
           /\ T \subseteq S => Cardinality(T) <= Cardinality(S)
           /\ \A t \in Threads : T \subseteq S \cup {t} => Cardinality(T) <= Cardinality(S) + 1
           /\ \A t \in S : T \subseteq S \ {t} => Cardinality(T) + 1 <= Cardinality(S)
  <1>1. IsFiniteSet(S) /\ IsFiniteSet(T)
    BY QuotaAssumption, FS_Subset
  <1>2. Cardinality(S) \in Nat /\ Cardinality(T) \in Nat
    BY <1>1, FS_CardinalityType
  <1>3. T \subseteq S => Cardinality(T) <= Cardinality(S)
    BY <1>1, FS_Subset
  <1>4. ASSUME NEW t \in Threads, T \subseteq S \cup {t}
        PROVE  Cardinality(T) <= Cardinality(S) + 1
    <2>1. /\ IsFiniteSet(S \cup {t})
          /\ Cardinality(S \cup {t}) = IF t \in S THEN Cardinality(S) ELSE Cardinality(S) + 1
      BY <1>1, FS_AddElement
    <2>2. Cardinality(T) <= Cardinality(S \cup {t})
      BY <1>4, <2>1, FS_Subset
    <2> QED
      BY <1>2, <2>1, <2>2
  <1>5. ASSUME NEW t \in S, T \subseteq S \ {t}
        PROVE  Cardinality(T) + 1 <= Cardinality(S)
    <2>1. IsFiniteSet(S \ {t}) /\ Cardinality(S \ {t}) = Cardinality(S) - 1
      BY <1>1, FS_RemoveElement
    <2>2. Cardinality(T) <= Cardinality(S \ {t})
      BY <1>5, <2>1, FS_Subset
    <2> QED
      BY <1>2, <2>1, <2>2
  <1> QED
    BY <1>2, <1>3, <1>4, <1>5

\* A step that adds no pending usage and keeps the usage and the events.
LEMMA FewerPending ==
    ASSUME UsageCoversEvents, TypeOK, events' = events, state' = state,
           \A a \in Aliases : Pending(a)' \subseteq Pending(a)
    PROVE  UsageCoversEvents'
  <1> SUFFICES ASSUME NEW a \in Aliases
               PROVE  events[a] + Cardinality(Pending(a)') <= state[a].used
    BY DEF UsageCoversEvents
  <1>1. Pending(a) \in SUBSET Threads /\ Pending(a)' \in SUBSET Threads
    BY DEF Pending
  <1>2. /\ Cardinality(Pending(a)') <= Cardinality(Pending(a))
        /\ Cardinality(Pending(a)) \in Nat /\ Cardinality(Pending(a)') \in Nat
    BY <1>1, PendingFacts
  <1>3. events[a] \in Nat /\ state[a].used \in Nat
    BY DEF TypeOK, Files, Account
  <1> QED
    BY <1>2, <1>3 DEF UsageCoversEvents

LEMMA WriteCovers ==
    ASSUME IInv, UsageCoversEvents, NEW t \in Threads, Write(t) PROVE UsageCoversEvents'
  <1> SUFFICES ASSUME NEW a \in Aliases
               PROVE  events'[a] + Cardinality(Pending(a)') <= state'[a].used
    BY DEF UsageCoversEvents
  <1> DEFINE b == thread[t].alias
             r == Updated(b, state[b], thread[t])
             q == [thread[t] EXCEPT !.pc = "event", !.copy = AllFresh]
  <1>1. /\ b \in Aliases /\ Formed(thread[t]) /\ thread[t].pc = "loaded"
        /\ state' = [state EXCEPT ![b] = r]
        /\ state'[b].used = IF thread[t].op = "usage" THEN state[b].used + thread[t].inc
                                                      ELSE state[b].used
    BY WriteFacts
  <1>2. thread' = [thread EXCEPT ![t] = q] /\ events' = events /\ thread[t] \in Thread
        /\ thread \in [Threads -> Thread]
    BY DEF Write, Set, IInv, TypeOK
  <1>3. q.op = thread[t].op /\ q.alias = b
    BY <1>2 DEF Thread
  <1> HIDE DEF b, r, q
  <1>4. \A u \in Threads : thread'[u] = IF u = t THEN q ELSE thread[u]
    BY <1>2
  <1>5. Pending(a) \in SUBSET Threads /\ Pending(a)' \in SUBSET Threads
    BY DEF Pending
  <1>6. /\ Cardinality(Pending(a)) \in Nat /\ Cardinality(Pending(a)') \in Nat
        /\ events[a] \in Nat /\ state[a].used \in Nat
    BY <1>5, PendingFacts DEF IInv, TypeOK, Files, Account
  <1>7. events[a] + Cardinality(Pending(a)) <= state[a].used
    BY DEF UsageCoversEvents
  <1>8. CASE a = b /\ thread[t].op = "usage"
    <2>1. Pending(a)' \subseteq Pending(a) \cup {t}
      BY <1>4 DEF Pending
    <2>2. Cardinality(Pending(a)') <= Cardinality(Pending(a)) + 1
      BY <1>5, <2>1, PendingFacts
    <2>3. thread[t].inc \in Nat \ {0}
      BY <1>1, <1>8 DEF Formed, IdleThread
    <2>4. state'[a].used = state[a].used + thread[t].inc
      BY <1>1, <1>8
    <2> QED
      BY <1>2, <1>6, <1>7, <2>2, <2>3, <2>4
  <1>9. CASE ~(a = b /\ thread[t].op = "usage")
    <2>1. Pending(a)' \subseteq Pending(a)
      BY <1>3, <1>4, <1>9 DEF Pending
    <2>2. Cardinality(Pending(a)') <= Cardinality(Pending(a))
      BY <1>5, <2>1, PendingFacts
    <2>3. state'[a].used = state[a].used
      BY <1>1, <1>9 DEF IInv, TypeOK, Files
    <2> QED
      BY <1>2, <1>6, <1>7, <2>2, <2>3
  <1> QED
    BY <1>8, <1>9

LEMMA AppendCovers ==
    ASSUME IInv, UsageCoversEvents, NEW t \in Threads, AppendEvent(t) PROVE UsageCoversEvents'
  <1> SUFFICES ASSUME NEW a \in Aliases
               PROVE  events'[a] + Cardinality(Pending(a)') <= state'[a].used
    BY DEF UsageCoversEvents
  <1>1. /\ thread' = [thread EXCEPT ![t] = IdleThread] /\ state' = state
        /\ thread[t].pc = "event"
        /\ thread \in [Threads -> Thread] /\ events \in [Aliases -> Nat]
        /\ events' = IF thread[t].op = "usage"
                     THEN [events EXCEPT ![thread[t].alias] = events[thread[t].alias] + 1]
                     ELSE events
    BY DEF AppendEvent, Set, IInv, TypeOK
  <1>2. \A u \in Threads : thread'[u] = IF u = t THEN IdleThread ELSE thread[u]
    BY <1>1
  <1>3. Pending(a) \in SUBSET Threads /\ Pending(a)' \in SUBSET Threads
    BY DEF Pending
  <1>4. Pending(a)' \subseteq Pending(a) \ {t}
    BY <1>2 DEF Pending, IdleThread
  <1>5. /\ Cardinality(Pending(a)) \in Nat /\ Cardinality(Pending(a)') \in Nat
        /\ events[a] \in Nat /\ state[a].used \in Nat
        /\ events[a] + Cardinality(Pending(a)) <= state[a].used
    BY <1>3, PendingFacts DEF IInv, TypeOK, Files, Account, UsageCoversEvents
  <1>6. CASE t \in Pending(a)
    <2>1. Cardinality(Pending(a)') + 1 <= Cardinality(Pending(a))
      BY <1>3, <1>4, <1>6, PendingFacts
    <2>2. events'[a] = events[a] + 1
      BY <1>1, <1>6 DEF Pending
    <2> QED
      BY <1>1, <1>5, <2>1, <2>2
  <1>7. CASE t \notin Pending(a)
    <2>1. Cardinality(Pending(a)') <= Cardinality(Pending(a))
      BY <1>3, <1>4, PendingFacts
    <2>2. events'[a] = events[a]
      BY <1>1, <1>7 DEF Pending
    <2> QED
      BY <1>1, <1>5, <2>1, <2>2
  <1> QED
    BY <1>6, <1>7

\* No usage is lost to the write of another thread: the state file accounts for every
\* event and for every usage whose event is still to be appended.
THEOREM NoUsageIsLost == Spec => []UsageCoversEvents
  <1>1. Init => UsageCoversEvents
    <2> SUFFICES ASSUME Init, NEW a \in Aliases
                 PROVE  events[a] + Cardinality(Pending(a)) <= state[a].used
      BY DEF UsageCoversEvents
    <2>1. Pending(a) = {}
      BY DEF Init, Pending, IdleThread
    <2>2. Cardinality({}) = 0
      BY FS_EmptySet
    <2>3. events[a] = 0 /\ state[a].used = 0
      BY DEF Init, AllFresh, Fresh
    <2> QED
      BY <2>1, <2>2, <2>3
  <1>2. IInv /\ UsageCoversEvents /\ [Next]_vars => UsageCoversEvents'
    <2> SUFFICES ASSUME IInv, UsageCoversEvents, [Next]_vars PROVE UsageCoversEvents'
      OBVIOUS
    <2>1. TypeOK /\ thread \in [Threads -> Thread]
      BY DEF IInv, TypeOK
    <2>2. ASSUME NEW t \in Threads, NEW q, q.pc # "event", Set(t, q),
                 events' = events, state' = state
          PROVE  UsageCoversEvents'
      <3>1. \A u \in Threads : thread'[u] = IF u = t THEN q ELSE thread[u]
        BY <2>1, <2>2 DEF Set
      <3>2. \A a \in Aliases : Pending(a)' \subseteq Pending(a)
        BY <2>2, <3>1 DEF Pending
      <3> QED
        BY <2>1, <2>2, <3>2, FewerPending
    <2>3. ASSUME NEW t \in Threads, Call(t) PROVE UsageCoversEvents'
      <3>1. ASSUME NEW able \in Needs, NEW inc \in Increments, Select(t, able, inc)
            PROVE  UsageCoversEvents'
        <4>1. PICK a \in Aliases :
                Set(t, [IdleThread EXCEPT !.pc = "chosen", !.alias = a, !.inc = inc,
                                          !.saw = state[a].used])
          BY <3>1, QuotaAssumption DEF Select
        <4> QED
          BY <2>2, <3>1, <4>1 DEF Select, IdleThread
      <3>2. ASSUME NEW a \in Aliases, NEW inc \in Increments, Use(t, a, inc)
            PROVE  UsageCoversEvents'
        BY <2>2, <3>2 DEF Use, IdleThread
      <3>3. ASSUME NEW a \in Aliases, NEW s \in Signals, Signal(t, a, s)
            PROVE  UsageCoversEvents'
        BY <2>2, <3>3 DEF Signal, IdleThread
      <3>4. ASSUME NEW a \in Aliases, NEW h \in Checks, Check(t, a, h)
            PROVE  UsageCoversEvents'
        BY <2>2, <3>4 DEF Check, IdleThread
      <3> QED
        BY <2>3, <3>1, <3>2, <3>3, <3>4 DEF Call
    <2>4. ASSUME NEW t \in Threads, UseSelected(t) \/ Load(t) \/ Refuse(t)
          PROVE  UsageCoversEvents'
      BY <2>1, <2>2, <2>4 DEF UseSelected, Load, Refuse, Thread
    <2>5. ASSUME NEW t \in Threads, WriteFails(t) PROVE UsageCoversEvents'
      BY <2>2, <2>5 DEF WriteFails, IdleThread
    <2>6. CASE Die
      <3>1. \A a \in Aliases : Pending(a)' \subseteq Pending(a)
        BY <2>6 DEF Die, Pending, IdleThread
      <3> QED
        BY <2>1, <2>6, <3>1, FewerPending DEF Die
    <2>7. CASE Tick \/ UNCHANGED vars
      BY <2>7 DEF Tick, vars, UsageCoversEvents, Pending
    <2> QED
      BY <2>3, <2>4, <2>5, <2>6, <2>7, WriteCovers, AppendCovers DEF Next, Update
  <1> QED
    BY <1>1, <1>2, Invariance, PTL DEF Spec

-----------------------------------------------------------------------------
(* The lock comes back.                                                    *)

\* Only a thread that is about to write, or to refuse, has the store's lock.
HolderIsAtWork == \A t \in Threads : lock = t => thread[t].pc = "loaded"

\* The steps of a call of thread t that are left when nothing fails.
StepsLeft(t) ==
    CASE thread[t].pc = "chosen" -> 4
      [] thread[t].pc = "update" -> 3
      [] thread[t].pc = "loaded" -> 2
      [] thread[t].pc = "event" -> 1
      [] thread[t].pc = "idle" -> 0

\* Whoever waits for the lock waits for a thread that can go on.
NobodyIsStuck ==
    \A t \in Threads :
        thread[t].pc \in {"update", "event"} =>
            \/ lock = NoOne
            \/ \E u \in Threads \ {t} : lock = u /\ thread[u].pc = "loaded"

\* Thread t alone moves, and the lock is free, as it was, or t's, who then has the copy.
Moves(t) ==
    /\ \A u \in Threads \ {t} : thread'[u] = thread[u]
    /\ \/ lock' = NoOne
       \/ lock' = lock /\ lock # t
       \/ lock' = t /\ thread'[t].pc = "loaded"

\* A call that begins.
LEMMA BeginMoves ==
    ASSUME TypeOK, HolderIsAtWork, NEW t \in Threads, Call(t)
    PROVE  Moves(t) /\ thread[t].pc = "idle"
  <1>1. thread[t].pc = "idle" /\ lock' = lock /\ lock # t
    BY DEF Call, Select, Use, Signal, Check, Begin, HolderIsAtWork
  <1>2. \A u \in Threads \ {t} : thread'[u] = thread[u]
    BY DEF Call, Select, Use, Signal, Check, Set, TypeOK
  <1> QED
    BY <1>1, <1>2 DEF Moves

\* A call that goes on, fails or is refused.
LEMMA StepMoves ==
    ASSUME TypeOK, HolderIsAtWork, NEW t \in Threads,
           UseSelected(t) \/ Update(t) \/ WriteFails(t)
    PROVE  Moves(t) /\ StepsLeft(t)' < StepsLeft(t)
  <1>1. thread[t] \in Thread /\ DOMAIN thread = Threads
    BY DEF TypeOK
  <1>2. IdleThread.pc = "idle"
    BY DEF IdleThread
  <1>3. /\ \A u \in Threads \ {t} : thread'[u] = thread[u]
        /\ \/ thread[t].pc = "chosen" /\ thread'[t].pc = "update"
           \/ thread[t].pc = "update" /\ thread'[t].pc = "loaded"
           \/ thread[t].pc = "loaded" /\ thread'[t].pc \in {"event", "idle"}
           \/ thread[t].pc = "event" /\ thread'[t].pc = "idle"
    <2>1. CASE UseSelected(t)
      BY <1>1, <2>1 DEF UseSelected, Set, Thread
    <2>2. CASE Load(t)
      BY <1>1, <2>2 DEF Load, Set, Thread
    <2>3. CASE Refuse(t)
      BY <1>1, <2>3 DEF Refuse, Set, Thread
    <2>4. CASE Write(t)
      BY <1>1, <2>4 DEF Write, Set, Thread
    <2>5. CASE AppendEvent(t) \/ WriteFails(t)
      BY <1>1, <1>2, <2>5 DEF AppendEvent, WriteFails, Set
    <2> QED
      BY <2>1, <2>2, <2>3, <2>4, <2>5 DEF Update
  <1>4. \/ lock' = NoOne
        \/ lock' = lock /\ lock # t
        \/ lock' = t /\ thread'[t].pc = "loaded"
    <2>1. CASE UseSelected(t)
      BY <2>1 DEF UseSelected, HolderIsAtWork
    <2>2. CASE Load(t)
      BY <1>1, <2>2 DEF Load, Set, Thread
    <2>3. CASE Refuse(t) \/ Write(t) \/ AppendEvent(t) \/ WriteFails(t)
      BY <2>3 DEF Refuse, Write, AppendEvent, WriteFails
    <2> QED
      BY <2>1, <2>2, <2>3 DEF Update
  <1>5. StepsLeft(t)' < StepsLeft(t)
    <2>1. CASE thread[t].pc = "chosen"
      BY <1>3, <2>1 DEF StepsLeft
    <2>2. CASE thread[t].pc = "update"
      BY <1>3, <2>2 DEF StepsLeft
    <2>3. CASE thread[t].pc = "loaded"
      BY <1>3, <2>3 DEF StepsLeft
    <2>4. CASE thread[t].pc = "event"
      BY <1>3, <2>4 DEF StepsLeft
    <2> QED
      BY <1>3, <2>1, <2>2, <2>3, <2>4
  <1> QED
    BY <1>3, <1>4, <1>5 DEF Moves

LEMMA MovesKeep ==
    ASSUME HolderIsAtWork, NEW t \in Threads, Moves(t)
    PROVE  HolderIsAtWork'
  <1> SUFFICES ASSUME NEW u \in Threads, lock' = u
               PROVE  thread'[u].pc = "loaded"
    BY DEF HolderIsAtWork
  <1>1. u # NoOne
    BY QuotaAssumption
  <1> QED
    BY <1>1 DEF Moves, HolderIsAtWork

\* The lock comes back from every call, refused and failed ones included: its holder is
\* always at a step it can take by itself, whoever waits does so for that thread, and
\* every step of a call (four at most after its choice) brings it nearer to its end,
\* which no other thread can put off but by the lock.
THEOREM LockComesBack ==
    Spec => /\ []NobodyIsStuck
            /\ [][\A t \in Threads :
                    /\ UseSelected(t) \/ Update(t) => StepsLeft(t)' < StepsLeft(t)
                    /\ thread[t].pc # "idle" =>
                          thread'[t] = thread[t] \/ StepsLeft(t)' < StepsLeft(t)]_vars
  <1> DEFINE Nearer == \A t \in Threads :
               /\ UseSelected(t) \/ Update(t) => StepsLeft(t)' < StepsLeft(t)
               /\ thread[t].pc # "idle" =>
                     thread'[t] = thread[t] \/ StepsLeft(t)' < StepsLeft(t)
  <1>1. Init => HolderIsAtWork
    BY QuotaAssumption DEF Init, HolderIsAtWork
  <1>2. TypeOK /\ HolderIsAtWork => NobodyIsStuck
    BY DEF TypeOK, HolderIsAtWork, NobodyIsStuck
  <1>3. TypeOK /\ HolderIsAtWork /\ [Next]_vars => HolderIsAtWork' /\ [Nearer]_vars
    <2> SUFFICES ASSUME TypeOK, HolderIsAtWork, [Next]_vars
                 PROVE  HolderIsAtWork' /\ [Nearer]_vars
      OBVIOUS
    <2>1. CASE UNCHANGED vars
      BY <2>1 DEF vars, HolderIsAtWork
    <2>2. \A t \in Threads : UseSelected(t) \/ Update(t) => StepsLeft(t)' < StepsLeft(t)
      BY StepMoves
    <2>3. ASSUME NEW t \in Threads, Call(t) \/ UseSelected(t) \/ Update(t) \/ WriteFails(t)
          PROVE  HolderIsAtWork' /\ Nearer
      <3>1. Moves(t) /\ (thread[t].pc = "idle" \/ StepsLeft(t)' < StepsLeft(t))
        BY <2>3, BeginMoves, StepMoves
      <3>2. HolderIsAtWork'
        BY <3>1, MovesKeep
      <3>3. \A u \in Threads \ {t} : thread'[u] = thread[u]
        BY <3>1 DEF Moves
      <3> QED
        BY <2>2, <3>1, <3>2, <3>3
    <2>4. CASE Die
      <3>1. HolderIsAtWork'
        BY <2>4, QuotaAssumption DEF Die, HolderIsAtWork
      <3>2. \A t \in Threads : StepsLeft(t)' = 0
        BY <2>4 DEF Die, IdleThread, StepsLeft
      <3>3. \A t \in Threads : thread[t].pc # "idle" => 0 < StepsLeft(t)
        BY DEF TypeOK, Thread, StepsLeft
      <3> QED
        BY <2>2, <3>1, <3>2, <3>3
    <2>5. CASE Tick
      BY <2>2, <2>5 DEF Tick, HolderIsAtWork
    <2> QED
      BY <2>1, <2>3, <2>4, <2>5 DEF Next
  <1> QED
    BY <1>1, <1>2, <1>3, TypeCorrect, PTL DEF Spec
=============================================================================
