SPECIFICATION ExtensionSpec
CONSTANTS
    b1 = b1
    b2 = b2
    b3 = b3
    p1 = p1
    p2 = p2
    t1 = t1
    t2 = t2
    w1 = w1
    w2 = w2
    NoBatch = NoBatch
    NoTab = NoTab
    ManualDraft = ManualDraft
    Products <- OneProduct
    Batches <- OneBatch
    Polls <- OnePoll
    Tabs <- TwoTabs
    LastDay = 1
    MaxSequence = 2
    MaxAttempts = 2
    Requested = {"single"}
    RecordedStatuses = {}
    Lossy = FALSE
    Crashes = FALSE
    UserActs = FALSE
    HiddenClicks = TRUE
    Retries = TRUE
    FullWindows = TRUE
    SerialReleases = FALSE
    DraftsFail = FALSE
SYMMETRY Symmetry
INVARIANTS
    FailedIsNotPublic
CHECK_DEADLOCK FALSE
