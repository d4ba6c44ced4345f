SPECIFICATION Spec
CONSTANTS
    b1 = b1
    b2 = b2
    NoBatch = NoBatch
    Batches <- TwoBatches
    MaxTaps = 3
INVARIANTS
    FirstTapDecides
    LastControlWins
PROPERTIES
    DecisionStands
CHECK_DEADLOCK FALSE
