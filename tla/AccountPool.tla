------------------------------ MODULE AccountPool ------------------------------
(***************************************************************************)
(* The NotebookLM account pool (notebooklm_rpc/_pool.py) and the           *)
(* operations that run over it (notebooklm_rpc/_client.py): callers pick   *)
(* an account, call the service and mark what came of it, at the same      *)
(* time, while days pass, writes of the state file fail and the process    *)
(* restarts.                                                               *)
(*                                                                         *)
(* pick and mark_* hold the pool's lock from end to end, so each is one    *)
(* step; the call of the service between them holds nothing.  A time of 0  *)
(* stands for an absent timestamp.  The timestamps kept only to word the   *)
(* reason of an unavailable pool are left out.                             *)
(***************************************************************************)
EXTENDS Integers, FiniteSets

CONSTANTS
    NAccounts,      \* account_count; accounts are numbered in the order of their ids
    Callers,        \* tasks or threads that share the pool
    Quota,          \* daily_quota of every account
    Cool,           \* cool_down_seconds
    ErrorTTL,       \* _ERROR_TTL
    Day,            \* ticks from one quota midnight to the next
    Budgets,        \* max_rotations of the callers (0 is account_op)
    Errors,         \* the errors the service may answer with
    MaxTime,        \* bound on the clock
    MaxDiskFaults,  \* bound on failed writes of the state file
    MaxRestarts     \* bound on restarts

Accounts == 1..NAccounts

Causes == {"login_required", "rate_limited", "captcha", "server_error_streak"}

AllErrors == {"not_found", "auth", "rate_limit", "http_429", "server", "captcha", "other"}

ASSUME PoolAssumption ==
    /\ NAccounts \in Nat \ {0} /\ Quota \in Nat \ {0} /\ Day \in Nat \ {0}
    /\ Cool \in [Causes -> Nat \ {0}] /\ ErrorTTL \in Nat
    /\ Budgets \subseteq Nat /\ Errors \subseteq AllErrors
    /\ MaxTime \in Nat /\ MaxDiskFaults \in Nat /\ MaxRestarts \in Nat
    /\ IsFiniteSet(Callers)

VARIABLES
    rs,        \* rs[a]: AccountRuntimeState in memory
    disk,      \* what the state file holds of it
    call,      \* call[c]: the locals of one account_op or run_with_pool
    now,       \* the clock
    faults,    \* failed writes so far
    restarts,  \* restarts so far
    past       \* past[a]: what happened to account a, for the properties

vars == <<rs, disk, call, now, faults, restarts, past>>

AccountState == [used : Nat, resetAt : Nat, cool : Nat, success : Nat, failures : 0..3]

ZeroState == [used |-> 0, resetAt |-> 0, cool |-> 0, success |-> 0, failures |-> 0]

Results == AllErrors \cup {"none", "ok", "unavailable", "state_error"}

Call == [pc : {"idle", "picking", "open"}, acct : 0..NAccounts, tried : SUBSET Accounts,
         rotations : Nat, budget : Nat, result : Results]

IdleCall == [pc |-> "idle", acct |-> 0, tried |-> {}, rotations |-> 0, budget |-> 0,
             result |-> "none"]

\* spent: answers of this day; cooledAt: the last failure that called for a
\* cool-down.
Past == [spent : Nat, cooledAt : Nat]

Init ==
    /\ rs = [a \in Accounts |-> ZeroState]
    /\ disk = rs
    /\ call = [c \in Callers |-> IdleCall]
    /\ now = 1
    /\ faults = 0 /\ restarts = 0
    /\ past = [a \in Accounts |-> [spent |-> 0, cooledAt |-> 0]]

-----------------------------------------------------------------------------
(* Selection.                                                              *)

NextMidnight(t) == (t \div Day + 1) * Day

\* Faulty variant of Refresh: the next reset is not scheduled.
RefreshForever(r) ==
    [r EXCEPT !.used = IF r.resetAt # 0 /\ now >= r.resetAt THEN 0 ELSE r.used,
              !.resetAt = IF r.resetAt = 0 THEN NextMidnight(now) ELSE r.resetAt,
              !.cool = IF now >= r.cool THEN 0 ELSE r.cool]

\* What pick first does to every account: a due quota reset, an expired cool-down.
Refresh(r) ==
    [r EXCEPT !.used = IF r.resetAt # 0 /\ now >= r.resetAt THEN 0 ELSE r.used,
              !.resetAt = IF now >= r.resetAt THEN NextMidnight(now) ELSE r.resetAt,
              !.cool = IF now >= r.cool THEN 0 ELSE r.cool]

\* Faulty variant of Eligible: one call too many.
EligibleAtQuota(s) == {a \in Accounts : s[a].cool = 0 /\ s[a].used <= Quota}

Eligible(s) == {a \in Accounts : s[a].cool = 0 /\ s[a].used < Quota}

\* The least recent success, then the smallest id.
LeastRecent(s, S) ==
    CHOOSE a \in S : \A b \in S :
        s[a].success < s[b].success \/ (s[a].success = s[b].success /\ a <= b)

-----------------------------------------------------------------------------
(* The state file.  A failed write leaves the old file; memory has already *)
(* changed and the caller gets a NotebookLMPoolStateError.                 *)

Written(s) == disk' = s /\ UNCHANGED faults

WriteFails == faults < MaxDiskFaults /\ faults' = faults + 1 /\ UNCHANGED disk

Untouched == UNCHANGED <<disk, faults>>

\* The caller's function returns or raises.
End(c, r) ==
    call' = [call EXCEPT ![c] = [IdleCall EXCEPT !.result = r,
                                 !.rotations = call[c].rotations, !.budget = call[c].budget]]

-----------------------------------------------------------------------------
(* The callers.                                                            *)

Start(c) ==
    /\ call[c].pc = "idle"
    /\ \E b \in Budgets :
        call' = [call EXCEPT ![c] = [IdleCall EXCEPT !.pc = "picking", !.budget = b]]
    /\ UNCHANGED <<rs, disk, now, faults, restarts, past>>

\* Faulty variant of Choose: wait for an account instead of giving up.
ChooseOrWait(c, s) ==
    LET free == Eligible(s) \ call[c].tried
    IN  IF free = {}
        THEN UNCHANGED call
        ELSE call' = [call EXCEPT ![c].pc = "open",
                                  ![c].acct = LeastRecent(s, free),
                                  ![c].tried = call[c].tried \cup {LeastRecent(s, free)}]

\* The least recently successful account not yet tried, or
\* NotebookLMAccountUnavailableError.
Choose(c, s) ==
    LET free == Eligible(s) \ call[c].tried
    IN  IF free = {}
        THEN End(c, "unavailable")
        ELSE call' = [call EXCEPT ![c].pc = "open",
                                  ![c].acct = LeastRecent(s, free),
                                  ![c].tried = call[c].tried \cup {LeastRecent(s, free)}]

\* Faulty variant of Pick: the state is written for an ended cool-down only.
PickSometimesSaved(c) ==
    LET fresh == [a \in Accounts |-> Refresh(rs[a])]
        dirty == \E a \in Accounts : fresh[a].cool # rs[a].cool
    IN  /\ call[c].pc = "picking"
        /\ rs' = fresh
        /\ IF dirty THEN Written(fresh) ELSE Untouched
        /\ Choose(c, fresh)
        /\ UNCHANGED <<now, restarts, past>>

\* pick: the state is written only when the refresh changed it.
Pick(c) ==
    LET fresh == [a \in Accounts |-> Refresh(rs[a])] IN
    /\ call[c].pc = "picking"
    /\ rs' = fresh
    /\ \/ fresh = rs /\ Untouched /\ Choose(c, fresh)
       \/ fresh # rs /\ Written(fresh) /\ Choose(c, fresh)
       \/ fresh # rs /\ WriteFails /\ End(c, "state_error")
    /\ UNCHANGED <<now, restarts, past>>

\* Faulty variant of AfterSuccess: success lifts a cool-down.
LiftingSuccess(r) ==
    [r EXCEPT !.used = r.used + 1, !.success = now, !.failures = 0, !.cool = 0]

\* mark_success: a cool-down that ended long ago is forgotten.
AfterSuccess(r) ==
    [r EXCEPT !.used = r.used + 1, !.success = now, !.failures = 0,
              !.cool = IF now - r.cool > ErrorTTL THEN 0 ELSE r.cool]

Succeed(c) ==
    LET a == call[c].acct
        marked == [rs EXCEPT ![a] = AfterSuccess(rs[a])]
    IN  /\ call[c].pc = "open"
        /\ rs' = marked
        /\ \/ Written(marked) /\ End(c, "ok")
           \/ WriteFails /\ End(c, "state_error")
        /\ past' = [past EXCEPT ![a].spent = past[a].spent + 1]
        /\ UNCHANGED <<now, restarts>>

\* The failure count after error e; only a third failure matters.
Failures(r, e) ==
    IF e \in {"server", "other"} /\ r.failures < 3 THEN r.failures + 1 ELSE r.failures

\* The cool-down that error e calls for, "none" when it calls for none.
Cause(r, e) ==
    CASE e = "auth" -> "login_required"
      [] e \in {"rate_limit", "http_429"} -> "rate_limited"
      [] e = "captcha" -> "captcha"
      [] e = "server" /\ Failures(r, e) >= 3 -> "server_error_streak"
      [] OTHER -> "none"

\* mark_failure: a new cool-down replaces whatever there was.
AfterFailure(r, e) ==
    [r EXCEPT !.failures = Failures(r, e),
              !.cool = IF Cause(r, e) = "none" THEN r.cool ELSE now + Cool[Cause(r, e)]]

\* The value mark_failure returns: this call took the account out of service.
CoolDownApplied(r, e) == r.cool = 0 /\ Cause(r, e) # "none"

\* _is_rotation_trigger.
Rotates(r, e) ==
    e # "not_found"
    /\ (e \in {"auth", "rate_limit", "server", "captcha"} \/ CoolDownApplied(r, e))

\* The next round of run_with_pool.
GoOn(c) ==
    call' = [call EXCEPT ![c].pc = "picking", ![c].acct = 0,
                         ![c].rotations = call[c].rotations + 1]

Fail(c, e) ==
    LET a == call[c].acct
        marked == [rs EXCEPT ![a] = AfterFailure(rs[a], e)]
    IN  /\ call[c].pc = "open"
        /\ rs' = marked
        /\ \/ /\ IF e = "not_found" THEN Untouched ELSE Written(marked)
              /\ IF Rotates(rs[a], e) /\ call[c].rotations < call[c].budget
                 THEN GoOn(c)
                 ELSE End(c, e)
           \/ e # "not_found" /\ WriteFails /\ End(c, "state_error")
        /\ past' = [past EXCEPT
               ![a].cooledAt = IF Cause(rs[a], e) = "none" THEN past[a].cooledAt ELSE now]
        /\ UNCHANGED <<now, restarts>>

-----------------------------------------------------------------------------
(* The world.                                                              *)

Tick ==
    /\ now < MaxTime
    /\ now' = now + 1
    /\ past' = IF now' % Day = 0
               THEN [a \in Accounts |-> [past[a] EXCEPT !.spent = 0]] ELSE past
    /\ UNCHANGED <<rs, disk, call, faults, restarts>>

\* The process dies and from_config reads the state file.
Restart ==
    /\ restarts < MaxRestarts
    /\ restarts' = restarts + 1
    /\ rs' = disk
    /\ call' = [c \in Callers |-> IdleCall]
    /\ UNCHANGED <<disk, now, faults, past>>

Use(c) == Start(c) \/ Pick(c) \/ Succeed(c) \/ \E e \in Errors : Fail(c, e)

Next == Tick \/ Restart \/ \E c \in Callers : Use(c)

Spec == Init /\ [][Next]_vars

\* A call of the service ends (its HTTP timeout) and the lock is never kept.
CallFairness ==
    /\ \A c \in Callers : WF_vars(Pick(c))
    /\ \A c \in Callers : WF_vars(Succeed(c) \/ \E e \in Errors : Fail(c, e))

-----------------------------------------------------------------------------
(* Properties.                                                             *)

NCallers == Cardinality(Callers)

\* The callers that use account a at this moment.
Users(a) == {c \in Callers : call[c].pc = "open" /\ call[c].acct = a}

\* Every variable has its type.
TypeOK ==
    /\ rs \in [Accounts -> AccountState]
    /\ disk \in [Accounts -> AccountState]
    /\ call \in [Callers -> Call]
    /\ \A c \in Callers : call[c].pc = "open" => call[c].acct \in Accounts
    /\ now \in Nat \ {0} /\ faults \in 0..MaxDiskFaults /\ restarts \in 0..MaxRestarts
    /\ past \in [Accounts -> Past]

\* pick does not reserve what mark_success will count, so callers that picked the
\* last unit together overrun the quota; never by more than all callers but one.
UsageBounded ==
    \A a \in Accounts : rs[a].used + Cardinality(Users(a)) <= Quota + NCallers - 1

\* mark_success does not look at the clock: answers that come after midnight and
\* before the next pick are counted on the old day and wiped with it.  The count
\* of the day is short by at most one answer per caller.
DayCountLag ==
    faults = 0 => \A a \in Accounts : past[a].spent <= rs[a].used + NCallers

\* The shortest cool-down.
MinCool == CHOOSE d \in {Cool[k] : k \in Causes} : \A k \in Causes : d <= Cool[k]

\* No caller is given an account sooner than the shortest cool-down after the last
\* failure that called for one, whatever the other callers marked in between and
\* also after a restart.
CoolDownHonoured ==
    [][\A c \in Callers :
         /\ faults = 0
         /\ call[c].pc = "picking" /\ call'[c].pc = "open"
         /\ past[call'[c].acct].cooledAt # 0
         => now >= past[call'[c].acct].cooledAt + MinCool]_vars

\* A restart loses nothing as long as no write of the state file failed: pick and
\* mark_* write every change they make.
RestartLosesNothing == faults = 0 => disk = rs

\* run_with_pool comes to an end: every rotation leaves one account fewer to try.
EveryCallEnds == \A c \in Callers : call[c].pc # "idle" ~> call[c].pc = "idle"

\* README: run_with_pool rotates on rate-limit failures, an HTTP 429 included.
RateLimitsRotate ==
    \A c \in Callers : call[c].result = "http_429" => call[c].rotations >= call[c].budget
=============================================================================
