CONSTANTS
    Fasts <- TwoSlots
    Params <- OneParam
    Cells <- OneCell
    Globals <- OneGlobal
    Alphabet <- ShortOrPlain
    MaxCode = 5
    ShortCode = 3
    Lines = {1, 2}
    MaxOdd = 1
    Rewrites = FALSE
    Deletes = FALSE
    Threads = {t1}
    Firsts = {1, 300}
    Deltas <- JumpsAndSteps
    Spans = {2, 8}
    MaxEntries = 2
    Gil = TRUE
    Warns = FALSE
SPECIFICATION BothSpec
INVARIANTS
    CallIsMadeAgain
    MovedWithoutTrace
    LandsWhereSent
CHECK_DEADLOCK FALSE
