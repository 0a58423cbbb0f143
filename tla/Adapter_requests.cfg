SPECIFICATION FairSpec
CONSTANTS
  Ids = {r1}
  main = main
  other = other
  app = app
  lib = lib
  Threads = {main, other}
  Main = main
  Files = {app}
  After <- NoLinks
  MaxStops = 3
  MaxMints = 1
  Commands <- Inspection
  Overtaking <- None
  StopOnEntry = FALSE
  Patient = TRUE
  Fails = FALSE
INVARIANTS ClientIsCurrent
PROPERTIES NothingIsOwed
