SPECIFICATION ChildSpec
CONSTANTS
  root = root
  kid = kid
  grandkid = grandkid
  t1 = t1
  t2 = t2
  None = None
  Root = root
  Kids = {kid, grandkid}
  Threads = {t1, t2}
  Worlds = TRUE
  SpawnFails = FALSE
SYMMETRY ThreadSymmetry
INVARIANTS ChildIsItsOwn
CHECK_DEADLOCK FALSE
