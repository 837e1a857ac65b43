\* The routing alone.
SPECIFICATION RoutingSpec
CONSTANTS
    server = server
    cli = cli
    left = left
    right = right
    o1 = o1
    o2 = o2
    Pools <- SomePools
    Tasks <- Cards
    Loopers <- TwoLoopers
    Providers <- Plans
    Backoffs = 1
    LastStamp = 2
    MaxLoops = 2
    MaxLoopFaults = 1
    Ids <- TwoObjections
    MaxRounds = 2
    MinRounds = 1
    Severities = {"critical", "high", "low", "absent"}
    Statuses = {"raised", "needs_user_decision", "accepted", "rejected", "absent"}
    MaxInput = 3
    MaxObjections = 2
    Server <- server
    Clis <- OneCli
    MaxEvidence = 2
    MaxClock = 2
    MaxSubmits = 3
    MaxAdopts = 2
    MaxDeaths = 1
INVARIANTS DualReviewHasTwoReviewers
CHECK_DEADLOCK FALSE
