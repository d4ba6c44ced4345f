SPECIFICATION Spec
CONSTANTS
    i1 = i1
    i2 = i2
    m1 = m1
    m2 = m2
    r1 = r1
    r2 = r2
    Nobody = Nobody
    Recorder = Recorder
    NoMaster = NoMaster
    Releasers <- TwoReleasers
    Items <- TwoItems
    Masters <- TwoMasters
    MaxSequence = 2
SYMMETRY Symmetry
INVARIANTS
    OneReleased
CHECK_DEADLOCK FALSE
