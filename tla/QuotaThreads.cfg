SPECIFICATION FairSpec
CONSTANTS
  h1 = h1
  h2 = h2
  Threads = {h1, h2}
  NoOne = NoOne
  NAliases = 2
  Enabled = {1, 2}
  Priority <- Priorities
  Limit <- Limits
  Needs <- AnyAccount
  Increments = {1, 2}
  Signals <- SomeSignals
  Checks <- SomeChecks
  MaxCalls = 3
  MaxTime = 2
  MaxFaults = 1
CHECK_DEADLOCK FALSE
INVARIANTS UsageWithinLimit UsageCoversEvents RefusalsHaveCause
PROPERTIES BarsOutlastUsage EveryCallReturns
