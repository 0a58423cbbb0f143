CONSTANTS
    f1 = f1
    f2 = f2
    a1 = a1
    a2 = a2
    Forkers <- TwoForkers
    Answerers <- TwoAnswerers
    FreeThreaded = FALSE
    MaxRequests = 3
    MaxForks = 3
SPECIFICATION FairSpec
INVARIANTS
    RequestsKept
    OwnThreadsKeepOff
PROPERTIES
    NothingHangs
CHECK_DEADLOCK FALSE
