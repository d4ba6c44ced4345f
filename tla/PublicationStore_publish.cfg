SPECIFICATION Spec
CONSTANTS
    b1 = b1
    b2 = b2
    b3 = b3
    p1 = p1
    p2 = p2
    NoBatch = NoBatch
    Products <- TwoProducts
    Batches <- ThreeBatches
    LastDay = 2
    MaxSequence = 2
    MaxAttempts = 2
    Requested = {"single", "preflight", "master"}
    RecordedStatuses = {"FAILED", "PUBLISHED"}
SYMMETRY Symmetry
CONSTRAINT SmallInstance
INVARIANTS
    TypeOK
    ReleaseTracesToApproval
    RowAgreesWithBatch
    AtMostOneLiveAttempt
    LiveAttemptBlocksProduct
    ArchiveAgreesWithBatch
PROPERTIES
    OutcomeIsFinal
    PublishedIsKept
    ImplementsPublishOnce
CHECK_DEADLOCK FALSE
