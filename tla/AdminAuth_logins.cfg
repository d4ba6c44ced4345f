SPECIFICATION Spec
CONSTANTS
    a1 = a1
    p1 = p1
    p2 = p2
    k1 = k1
    k2 = k2
    t1 = t1
    t2 = t2
    t3 = t3
    NoPassword = NoPassword
    NoSession = NoSession
    Addresses <- OneAddress
    Passwords <- TwoPasswords
    Tokens <- TwoTokens
    Threads <- ThreeThreads
    MaxAttempts = 2
    Window = 2
    LockTime = 3
    SessionTime = 2
INVARIANTS
    FailuresBounded
    OldSessionsWereOvertaken
PROPERTIES
    LockoutsEnd
CHECK_DEADLOCK FALSE
