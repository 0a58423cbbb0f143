SPECIFICATION PartsSpec
CONSTANTS
  old = old
  new = new
  dev = dev
  l1 = l1
  l2 = l2
  c1 = c1
  c2 = c2
  Digests = {old, dev}
  Hook = old
  Tags <- MCTags
  Tag <- AllDev
  Roots <- MCRoots
  Launches = {l1, l2}
  Clearers = {c1}
  Windows = {TRUE, FALSE}
  Threads = {t1, t2}
  Mine = t1
  Scripts <- Trees
  MaxSteps = 5
  MaxBytes = 4
  MaxStops = 5
INVARIANTS LaunchStands TranscriptIsTrue OwnIsTakenOff
PROPERTIES OnlyWhatWasDescribed ScriptEnds
CHECK_DEADLOCK FALSE
