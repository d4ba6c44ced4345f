SPECIFICATION Spec
CONSTANTS
    b1 = b1
    b2 = b2
    c1 = c1
    c2 = c2
    c3 = c3
    NoClient = NoClient
    NoBatch = NoBatch
    Clients <- TwoClients
    Batches <- TwoBatches
    MaxAttempts = 1
SYMMETRY Symmetry
INVARIANTS
    FailsClosed
CHECK_DEADLOCK FALSE
