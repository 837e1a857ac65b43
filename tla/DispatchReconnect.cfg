SPECIFICATION Spec
CONSTANTS
  t1 = t1
  t2 = t2
  t3 = t3
  t4 = t4
  s1 = s1
  s2 = s2
  Tasks = {t1}
  Targets <- OneTask
  Sessions = {s1}
  MaxSteps = 2
  MaxMessages = 2
  PollBudget = 1
  MaxLocalFailures = 0
  MaxCrashes = 0
  Faults <- OnlyDisconnect
INVARIANTS LedgerReplays
