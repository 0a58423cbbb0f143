CONSTANTS
    t1 = t1
    t2 = t2
    Threads <- TwoThreads
    Main = t1
    Asks <- EveryAsk
    MaxStops = 3
    MaxRequests = 3
    MaxRebinds = 1
    MaxInterrupts = 1
    Finishes = TRUE
    Kills = TRUE
SPECIFICATION BothSpec
INVARIANTS
    OwnAnswer
    ViewsAgree
    NothingIsLost
PROPERTIES
    KeepsPromise
    AskIsAnswered
CHECK_DEADLOCK FALSE
