\* Two processes of the scheduler, each with its run id, three calls, two deaths; two
\* callers on two accounts with a quota of one over a midnight, typed errors that rotate
\* and that do not, untyped ones, one failed write and one restart.
SPECIFICATION ToolSpec
CONSTANTS
    p1 = p1
    p2 = p2
    r1 = r1
    r2 = r2
    Procs = {p1, p2}
    Runs = {r1, r2}
    RunsOf <- OwnRuns
    Cards <- Gates
    MaxCalls = 3
    MaxDeaths = 2
    c1 = c1
    c2 = c2
    Callers = {c1, c2}
    NAccounts = 2
    Quota = 1
    Cool <- CoolDowns
    ErrorTTL = 2
    Day = 2
    Budgets = {1}
    Errors = {"rate_limit", "http_429", "not_found"}
    MaxTime = 2
    MaxDiskFaults = 1
    MaxRestarts = 1
INVARIANTS CommandsRunOnce StateFollowsLedger UsageBounded DayCountLag RestartLosesNothing
PROPERTIES CachedEndIsFinal CoolDownHonoured EveryCallReturns EveryCallEnds
CHECK_DEADLOCK FALSE
