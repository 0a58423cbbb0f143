SPECIFICATION Spec
CONSTANTS
  Ids = {r1, r2}
  main = main
  other = other
  app = app
  lib = lib
  Threads = {main, other}
  Main = main
  Files = {app}
  After <- NoLinks
  MaxStops = 2
  MaxMints = 1
  Commands <- Lifecycle
  Overtaking <- Busy
  StopOnEntry = TRUE
  Patient = TRUE
  Fails = FALSE
INVARIANTS OneAnswer ArmedIsAsked
SYMMETRY IdSymmetry
