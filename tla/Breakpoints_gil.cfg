SPECIFICATION PartsSpec
CONSTANTS
    t1 = t1
    t2 = t2
    app = app
    fn = fn
    app2 = app2
    fn2 = fn2
    lib = lib
    g = g
    Runners = {t1, t2}
    Codes <- MCCodes
    Shape <- MCShape
    Trees <- MCTrees
    Sets <- MCSets
    MaxSets = 2
    MaxHits = 2
    MaxReplaced = 1
    edited = edited
    plain = plain
    Sources = {edited, plain}
    Staged = {edited}
    Tree <- MCTree
    Broken = "broken"
    Missing = "missing"
    Texts <- MCTexts
    Original <- MCOriginal
    MaxHeld = 1
    MaxFrames = 1
    MaxCompiled = 4
    MaxEdits = 2
    Reimports = FALSE
    Forgives = TRUE
SYMMETRY ThreadSym
INVARIANTS ArmedIsReached ActsAsAsked RunsWhatIsOnDisk
CHECK_DEADLOCK FALSE
