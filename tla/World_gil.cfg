CONSTANTS
    t1 = t1
    t2 = t2
    t3 = t3
    p1 = p1
    Threads <- ThreeThreads
    Pausers <- OnePauser
    LocalLines <- ThreeThreads
    FreeThreaded = FALSE
    MaxAsks = 1
    Restarts = TRUE
    Fails = TRUE
SPECIFICATION FairSpec
INVARIANTS
    NoLostWakeup
    WorldIsReleased
    WorldIsKept
    NoneIsPassedBy
PROPERTIES
    ParkedRunsAgain
CHECK_DEADLOCK FALSE
