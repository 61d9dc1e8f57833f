SPECIFICATION BothSpec
CONSTANTS
  p1 = p1
  p2 = p2
  r1 = r1
  r2 = r2
  Pools <- TwoPools
  Requests <- TwoRequests
  Configs <- EightConfigs
  Capacity = 1
  MaxConcurrency = 1
  None = None
  Ids = {1}
  MaxVersions = 2
  MaxUpsets = 2
INVARIANT TypesOK
PROPERTIES TakenOnce  RequestsHandled ViewSpec CatchesUp
CHECK_DEADLOCK FALSE
