CONSTANTS
    t1 = t1
    t2 = t2
    Threads <- TwoThreads
    Main = t1
    Capacity = 1
    FreeThreaded = FALSE
    MaxRecords = 4
    MaxStops = 2
    MaxForks = 2
SPECIFICATION FairSpec
INVARIANTS
    GapsAreSaid
    StopFollowsQueue
    EndAccounts
    WriterIsOff
PROPERTIES
    FlushReturns
CHECK_DEADLOCK FALSE
