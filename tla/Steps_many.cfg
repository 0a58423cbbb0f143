CONSTANTS
    t1 = t1
    t2 = t2
    main = main
    fn = fn
    lib = lib
    Threads <- TwoThreads
    Codes <- ThreeCodes
    Library <- JustLib
    Launcher <- NoCodes
    Lines = {1}
    Calls = {1, 2}
    Breaks <- BreakInFn
    Entry <- AllMain
    Depth <- Deep
    MaxAsks = 1
    MaxPauses = 1
    Stopping = TRUE
SPECIFICATION Spec
INVARIANTS
    OperationIsKept
    StepIsNotMissed
CHECK_DEADLOCK FALSE
