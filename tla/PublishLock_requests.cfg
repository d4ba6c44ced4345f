SPECIFICATION FairSpec
CONSTANTS
    b1 = b1
    b2 = b2
    c1 = c1
    c2 = c2
    c3 = c3
    NoClient = NoClient
    NoBatch = NoBatch
    Clients <- ThreeClients
    Batches <- TwoBatches
    MaxAttempts = 3
INVARIANTS
    FailsClosedWithRow
    CheckedResultIsCurrent
PROPERTIES
    EveryRequestEnds
CHECK_DEADLOCK FALSE
