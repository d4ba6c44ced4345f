SPECIFICATION Spec
CONSTANTS
    p1 = p1
    p2 = p2
    r1 = r1
    r2 = r2
    server = server
    script = script
    Nobody = Nobody
    Runs <- TwoRuns
    Hosts <- TwoHosts
    Placements <- BothPlacements
    Products <- TwoProducts
    Listings <- ManyListings
    MaxRetries = 2
    MaxTokens = 2
    MaxWasted = 1
INVARIANTS
    IssuedOnceUnlessWasted
    OnlyCollectedIsIssued
    LinkedUnlessReported
    AttemptsBounded
    RefusedTokenIsReplaced
    WaitsForWorkers
CHECK_DEADLOCK FALSE
