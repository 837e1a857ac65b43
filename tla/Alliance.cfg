\* Pools of up to three models of seven kinds, and the package's own, over 35 cards; two
\* processes of the loop, two runs, two faults; up to three rounds with two objections, of
\* which two are used at most and one at least; the server and one command line, two
\* submissions, two adoptions, one death.
SPECIFICATION AllianceSpec
SYMMETRY Alike
CONSTANTS
    server = server
    cli = cli
    left = left
    right = right
    o1 = o1
    o2 = o2
    Pools <- SomePools
    Tasks <- Cards
    Loopers <- TwoLoopers
    Providers <- Plans
    Backoffs = 1
    LastStamp = 2
    MaxLoops = 2
    MaxLoopFaults = 2
    Ids <- TwoObjections
    MaxRounds = 2
    MinRounds = 1
    Severities = {"critical", "high", "low", "absent"}
    Statuses = {"raised", "needs_user_decision", "accepted", "rejected", "absent"}
    MaxInput = 3
    MaxObjections = 2
    Server <- server
    Clis <- OneCli
    MaxEvidence = 1
    MaxClock = 2
    MaxSubmits = 2
    MaxAdopts = 2
    MaxDeaths = 1
INVARIANTS RoutesAreIndependent LessonsAreBacked DebateHolds StoreHolds
PROPERTIES NothingForgotten
CHECK_DEADLOCK FALSE
