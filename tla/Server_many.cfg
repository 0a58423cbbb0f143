SPECIFICATION FairSpec
CONSTANTS
  main = main
  kid = kid
  None = None
  Mains = {main}
  Kids = {kid}
  Tools <- EveryTool
  MaxStops = 2
  MaxNews = 1
  MaxCalls = 6
  Chatty = FALSE
  Resyncs = TRUE
INVARIANTS ActsAsMeant JoinedAreTold
PROPERTIES ReturnedIsTold CallReturns
CHECK_DEADLOCK FALSE
