SPECIFICATION FairSpec
CONSTANTS
  NReqs = 2
  MaxRounds = 2
  MaxRuns = 2
INVARIANTS FinalsHold
PROPERTIES RunEnds
