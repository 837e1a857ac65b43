SPECIFICATION Spec
CONSTANTS
  c1 = c1
  c2 = c2
  Callers = {c1, c2}
  NAccounts = 2
  Quota = 2
  Cool <- CoolDowns
  ErrorTTL = 2
  Day = 9
  Budgets = {1}
  Errors = {"http_429"}
  MaxTime = 2
  MaxDiskFaults = 0
  MaxRestarts = 0
CHECK_DEADLOCK FALSE
INVARIANT RateLimitsRotate
