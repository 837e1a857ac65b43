------------------------------ MODULE AccountQuota ------------------------------
(***************************************************************************)
(* The account registry of noeticbraid_core.account: threads of one        *)
(* process select an account, record usage, quota signals and session      *)
(* health, through quota_state.json (read and replaced as a whole under    *)
(* the store's lock) and quota_events.jsonl (appended under the same lock, *)
(* taken a second time).                                                   *)
(*                                                                         *)
(* Aliases are numbered in the order of their names.  A time of 0 stands   *)
(* for an absent timestamp; last_checked_at, usage_window_started_at and   *)
(* last_signal, which nothing reads back, are left out.                    *)
(***************************************************************************)
EXTENDS Integers, FiniteSets

CONSTANTS
    NAliases,   \* accounts in accounts.private.json
    Enabled,    \* those with enabled = true
    Priority,   \* their priority
    Limit,      \* usage_limit_estimate in their state records, or Unlimited
    Threads,    \* the threads (or tasks) of the process
    NoOne,      \* no thread
    Needs,      \* what callers require: the sets of accounts with the capabilities
    Increments, \* planned_increment of the callers
    Signals,    \* quota signals: a kind and the ticks until cooldown_until (0: none)
    Checks,     \* session health records: status, exhausted or not, ticks as above
    MaxCalls,   \* bound on the calls
    MaxTime,    \* bound on the clock
    MaxFaults   \* bound on failed writes and deaths of the process

Aliases == 1..NAliases

Unlimited == -1

Statuses == {"available", "quota_low", "cooldown", "login_required", "disabled", "unknown"}

Estimates == {"high", "medium", "low", "exhausted", "unknown"}

Kinds == {"login", "cooldown", "exhausted", "rate", "available", "other"}

ASSUME QuotaAssumption ==
    /\ NAliases \in Nat /\ Enabled \subseteq Aliases
    /\ Priority \in [Aliases -> Nat] /\ Limit \in [Aliases -> Nat \cup {Unlimited}]
    /\ IsFiniteSet(Threads) /\ NoOne \notin Threads
    /\ Needs \subseteq SUBSET Aliases /\ Increments \subseteq Nat \ {0}
    /\ Signals \subseteq [kind : Kinds, wait : Nat]
    /\ Checks \subseteq [status : Statuses, exhausted : BOOLEAN, wait : Nat]
    /\ MaxCalls \in Nat /\ MaxTime \in Nat \ {0} /\ MaxFaults \in Nat

VARIABLES
    state,   \* quota_state.json
    events,  \* events[a]: usage_recorded lines about a in quota_events.jsonl
    lock,    \* the holder of the store's lock, or NoOne
    thread,  \* thread[t]: the locals of its call
    now, calls, faults

vars == <<state, events, lock, thread, now, calls, faults>>

\* QuotaStateRecord.
Account == [status : Statuses, estimate : Estimates, cool : Nat, used : Nat, lastUsed : Nat]

Files == [Aliases -> Account]

Fresh == [status |-> "unknown", estimate |-> "unknown", cool |-> 0, used |-> 0, lastUsed |-> 0]

AllFresh == [a \in Aliases |-> Fresh]

NoInput == [wait |-> 0]

\* saw: the usage when select_account chose the alias (-1: it did not).
Thread == [pc : {"idle", "chosen", "update", "loaded", "event"},
           op : {"none", "usage", "signal", "health"}, alias : Aliases \cup {0},
           inc : Nat, input : Signals \cup Checks \cup {NoInput}, at : Nat,
           copy : Files, saw : Nat \cup {-1}, refused : BOOLEAN]

IdleThread == [pc |-> "idle", op |-> "none", alias |-> 0, inc |-> 0, input |-> NoInput,
               at |-> 0, copy |-> AllFresh, saw |-> -1, refused |-> FALSE]

Init ==
    /\ state = AllFresh
    /\ events = [a \in Aliases |-> 0]
    /\ lock = NoOne
    /\ thread = [t \in Threads |-> IdleThread]
    /\ now = 1 /\ calls = 0 /\ faults = 0

-----------------------------------------------------------------------------
(* Selection.                                                              *)

\* _would_limit_state.
WouldLimit(a, r, inc) == Limit[a] # Unlimited /\ r.used + inc > Limit[a]

\* _active_cooldown: a cool-down without an end lasts.
CoolingDown(r) == r.status = "cooldown" /\ (r.cool = 0 \/ r.cool > now)

Usable(a, r) ==
    /\ a \in Enabled
    /\ r.status \notin {"disabled", "login_required"}
    /\ ~CoolingDown(r)
    /\ r.estimate # "exhausted"

\* Faulty variant: the planned increment is not looked at.
CandidateNow(a, inc) == Usable(a, state[a])

Candidate(a, inc) == Usable(a, state[a]) /\ ~WouldLimit(a, state[a], inc)

HealthRank == [available |-> 0, quota_low |-> 1, unknown |-> 2, cooldown |-> 3,
               login_required |-> 9, disabled |-> 9]

EstimateRank == [high |-> 0, medium |-> 1, low |-> 2, unknown |-> 3, exhausted |-> 4]

\* _selection_key; all candidates match every required capability.
Key(a) == <<HealthRank[state[a].status], -Priority[a], EstimateRank[state[a].estimate],
            state[a].lastUsed, a>>

Before(k, l) == \E i \in 1..5 : k[i] < l[i] /\ \A j \in 1..(i - 1) : k[j] = l[j]

-----------------------------------------------------------------------------
(* What the updaters make of a record.                                     *)

EstimateAfterUsage(a, used, current) ==
    CASE Limit[a] \in {Unlimited, 0} -> current
      [] used >= Limit[a] -> "exhausted"
      [] used < Limit[a] /\ 5 * (Limit[a] - used) <= Limit[a] -> "low"
      [] 5 * (Limit[a] - used) > Limit[a] /\ 2 * (Limit[a] - used) <= Limit[a] -> "medium"
      [] OTHER -> "high"

Bars == {"disabled", "login_required", "cooldown"}

StatusAfterUsage(status, estimate) ==
    CASE status \in Bars -> status
      [] status \notin Bars /\ estimate \in {"low", "exhausted"} -> "quota_low"
      [] OTHER -> "available"

AfterUsage(a, r, c) ==
    LET used == r.used + c.inc
        estimate == EstimateAfterUsage(a, used, r.estimate)
    IN  [r EXCEPT !.used = used, !.estimate = estimate,
                  !.status = StatusAfterUsage(r.status, estimate), !.lastUsed = c.at]

CoolUntil(r, c) == IF c.input.wait = 0 THEN r.cool ELSE c.at + c.input.wait

\* _classify_signal, in the order of its tests.
Class(kind, wait, estimate) ==
    CASE kind = "login" -> <<"login_required", estimate>>
      [] kind # "login" /\ (wait # 0 \/ kind = "cooldown") -> <<"cooldown", "low">>
      [] kind = "exhausted" /\ wait = 0 -> <<"quota_low", "exhausted">>
      [] kind = "rate" /\ wait = 0 -> <<"quota_low", "low">>
      [] kind = "available" /\ wait = 0 -> <<"available", estimate>>
      [] kind = "other" /\ wait = 0 -> <<"unknown", estimate>>

AfterSignal(r, c) ==
    LET class == Class(c.input.kind, c.input.wait, r.estimate)
    IN  [r EXCEPT !.status = class[1], !.estimate = class[2], !.cool = CoolUntil(r, c)]

\* _estimate_for_health.
HealthEstimate(check, estimate) ==
    CASE check.status = "available" -> IF estimate = "unknown" THEN "high" ELSE estimate
      [] check.status = "quota_low" -> IF check.exhausted THEN "exhausted" ELSE "low"
      [] check.status = "cooldown" -> "low"
      [] OTHER -> estimate

AfterCheck(r, c) ==
    [r EXCEPT !.status = c.input.status, !.cool = CoolUntil(r, c),
              !.estimate = HealthEstimate(c.input, r.estimate)]

Updated(a, r, c) ==
    CASE c.op = "usage" -> AfterUsage(a, r, c)
      [] c.op = "signal" -> AfterSignal(r, c)
      [] c.op = "health" -> AfterCheck(r, c)

-----------------------------------------------------------------------------
(* The calls.                                                              *)

Set(t, local) == thread' = [thread EXCEPT ![t] = local]

Begin(t) ==
    /\ thread[t].pc = "idle"
    /\ calls < MaxCalls
    /\ calls' = calls + 1

\* select_account reads the files without the lock.
Select(t, able, inc) ==
    /\ Begin(t)
    /\ LET open == {a \in able : Candidate(a, inc)}
           best == {a \in open : \A b \in open \ {a} : Before(Key(a), Key(b))}
       IN  \E a \in best :
             Set(t, [IdleThread EXCEPT !.pc = "chosen", !.alias = a, !.inc = inc,
                                       !.saw = state[a].used])
    /\ UNCHANGED <<state, events, lock, now, faults>>

\* record_usage after the selected account's work is done.
UseSelected(t) ==
    /\ thread[t].pc = "chosen"
    /\ Set(t, [thread[t] EXCEPT !.pc = "update", !.op = "usage", !.at = now])
    /\ UNCHANGED <<state, events, lock, now, calls, faults>>

\* record_usage of an alias the caller knows.
Use(t, a, inc) ==
    /\ Begin(t)
    /\ Set(t, [IdleThread EXCEPT !.pc = "update", !.op = "usage", !.alias = a, !.inc = inc,
                                 !.at = now])
    /\ UNCHANGED <<state, events, lock, now, faults>>

\* record_quota_signal.
Signal(t, a, s) ==
    /\ Begin(t)
    /\ Set(t, [IdleThread EXCEPT !.pc = "update", !.op = "signal", !.alias = a, !.input = s,
                                 !.at = now])
    /\ UNCHANGED <<state, events, lock, now, faults>>

\* record_session_health.
Check(t, a, h) ==
    /\ Begin(t)
    /\ Set(t, [IdleThread EXCEPT !.pc = "update", !.op = "health", !.alias = a, !.input = h,
                                 !.at = now])
    /\ UNCHANGED <<state, events, lock, now, faults>>

\* Faulty variant: the store without its lock.
LoadUnlocked(t) ==
    /\ thread[t].pc = "update"
    /\ Set(t, [thread[t] EXCEPT !.pc = "loaded", !.copy = state])
    /\ UNCHANGED <<state, events, lock, now, calls, faults>>

\* update_state takes the lock and loads the file.
Load(t) ==
    /\ thread[t].pc = "update"
    /\ lock = NoOne
    /\ lock' = t
    /\ Set(t, [thread[t] EXCEPT !.pc = "loaded", !.copy = state])
    /\ UNCHANGED <<state, events, now, calls, faults>>

Exceeds(t) ==
    /\ thread[t].op = "usage"
    /\ WouldLimit(thread[t].alias, thread[t].copy[thread[t].alias], thread[t].inc)

\* Faulty variant: the exception leaves the lock taken.
RefuseLocked(t) ==
    /\ thread[t].pc = "loaded"
    /\ Exceeds(t)
    /\ Set(t, [thread[t] EXCEPT !.pc = "idle", !.copy = AllFresh, !.refused = TRUE])
    /\ UNCHANGED <<state, events, lock, now, calls, faults>>

\* The updater raises QuotaLimitExceeded under the lock.
Refuse(t) ==
    /\ thread[t].pc = "loaded"
    /\ Exceeds(t)
    /\ lock' = NoOne
    /\ Set(t, [thread[t] EXCEPT !.pc = "idle", !.copy = AllFresh, !.refused = TRUE])
    /\ UNCHANGED <<state, events, now, calls, faults>>

Store(t) ==
    LET a == thread[t].alias
    IN  state' = [thread[t].copy EXCEPT ![a] = Updated(a, thread[t].copy[a], thread[t])]

\* Faulty variant: the limit is not checked again under the lock.
WriteUnchecked(t) ==
    /\ thread[t].pc = "loaded"
    /\ Store(t)
    /\ lock' = NoOne
    /\ Set(t, [thread[t] EXCEPT !.pc = "event", !.copy = AllFresh])
    /\ UNCHANGED <<events, now, calls, faults>>

\* The updated copy replaces the file.
Write(t) ==
    /\ thread[t].pc = "loaded"
    /\ ~Exceeds(t)
    /\ Store(t)
    /\ lock' = NoOne
    /\ Set(t, [thread[t] EXCEPT !.pc = "event", !.copy = AllFresh])
    /\ UNCHANGED <<events, now, calls, faults>>

\* append_event takes the lock again; only usage events are counted.
AppendEvent(t) ==
    /\ thread[t].pc = "event"
    /\ lock = NoOne
    /\ events' = IF thread[t].op = "usage"
                 THEN [events EXCEPT ![thread[t].alias] = events[thread[t].alias] + 1]
                 ELSE events
    /\ Set(t, IdleThread)
    /\ UNCHANGED <<state, lock, now, calls, faults>>

\* A write raises OSError: of the state file (the lock is released) or of the event.
WriteFails(t) ==
    /\ \/ thread[t].pc = "loaded" /\ ~Exceeds(t)
       \/ thread[t].pc = "event" /\ lock = NoOne
    /\ faults < MaxFaults
    /\ faults' = faults + 1
    /\ lock' = NoOne
    /\ Set(t, IdleThread)
    /\ UNCHANGED <<state, events, now, calls>>

\* The process dies; os.replace keeps the old or the new state file whole.
Die ==
    /\ faults < MaxFaults
    /\ faults' = faults + 1
    /\ lock' = NoOne
    /\ thread' = [t \in Threads |-> IdleThread]
    /\ UNCHANGED <<state, events, now, calls>>

Tick ==
    /\ now < MaxTime
    /\ now' = now + 1
    /\ UNCHANGED <<state, events, lock, thread, calls, faults>>

Call(t) ==
    \/ \E able \in Needs, inc \in Increments : Select(t, able, inc)
    \/ \E a \in Aliases, inc \in Increments : Use(t, a, inc)
    \/ \E a \in Aliases, s \in Signals : Signal(t, a, s)
    \/ \E a \in Aliases, h \in Checks : Check(t, a, h)

Update(t) == Load(t) \/ Refuse(t) \/ Write(t) \/ AppendEvent(t)

Next ==
    \/ \E t \in Threads : Call(t) \/ UseSelected(t) \/ Update(t) \/ WriteFails(t)
    \/ Die
    \/ Tick

Spec == Init /\ [][Next]_vars

\* A thread that can take the lock or go on under it does so.
FairSpec == Spec /\ \A t \in Threads : WF_vars(Update(t))

-----------------------------------------------------------------------------
(* Properties.                                                             *)

\* Every variable has its type.
TypeOK ==
    /\ state \in Files
    /\ events \in [Aliases -> Nat]
    /\ lock \in Threads \cup {NoOne}
    /\ thread \in [Threads -> Thread]
    /\ now \in 1..MaxTime /\ calls \in 0..MaxCalls /\ faults \in 0..MaxFaults

\* record_usage never takes an account over its limit, whatever was read before.
UsageWithinLimit == \A a \in Aliases : Limit[a] # Unlimited => state[a].used <= Limit[a]

Pending(a) == {t \in Threads : /\ thread[t].pc = "event" /\ thread[t].op = "usage"
                               /\ thread[t].alias = a}

\* No usage is lost to another thread's write: what the events and the calls about
\* to append one account for is in the state file.
UsageCoversEvents ==
    \A a \in Aliases : events[a] + Cardinality(Pending(a)) <= state[a].used

\* Usage recorded concurrently never lifts a login_required, a cool-down or a
\* disabled mark: only a later signal or health record on the account does.
BarsOutlastUsage ==
    [][\A a \in Aliases :
         state[a].status \in Bars /\ state'[a].status # state[a].status =>
           \E t \in Threads : /\ thread[t].pc = "loaded" /\ thread'[t].pc # "loaded"
                              /\ thread[t].alias = a /\ thread[t].op # "usage"]_vars

\* record_usage refuses the account select_account chose only when usage of it was
\* recorded in between.
RefusalsHaveCause ==
    \A t \in Threads :
        thread[t].refused /\ thread[t].saw # -1 => state[thread[t].alias].used > thread[t].saw

\* The lock comes back from every call, the refused and failed ones too.
EveryCallReturns ==
    \A t \in Threads : thread[t].pc \in {"update", "loaded", "event"} ~> thread[t].pc = "idle"
=============================================================================
