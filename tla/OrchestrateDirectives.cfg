SPECIFICATION WholeRuns
CONSTANTS
  NReqs = 2
  MaxRounds = 3
  MaxRuns = 1
INVARIANTS DirectivesKeepTheirRows
