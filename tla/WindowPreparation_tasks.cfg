SPECIFICATION DaySpec
CONSTANTS
    i1 = i1
    i2 = i2
    m1 = m1
    m2 = m2
    m3 = m3
    r1 = r1
    r2 = r2
    s1 = s1
    s2 = s2
    k1 = k1
    Nobody = Nobody
    Recorder = Recorder
    NoMaster = NoMaster
    Releasers <- TwoReleasers
    Items <- TwoItems
    Masters <- ThreeMasters
    Scripts <- TwoScripts
    Keys <- OneKey
    MaxSequence = 2
    MaxBusy = 2
CONSTRAINT SmallInstance
SYMMETRY Symmetry
INVARIANTS
    WindowIsWhole
    ReleasedWasApproved
    ReleasedOnce
    OneTaskPerMaster
    PauseStopsFollowing
PROPERTIES
    ApprovedKeepsRows
CHECK_DEADLOCK FALSE
