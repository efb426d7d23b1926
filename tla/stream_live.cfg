SPECIFICATION EitherFairSpec
CONSTANTS
  Handlers = {h1, h2}
  Capacity = 4
  Offsets = {0}
  MaxSubs = 1
  MaxConns = 2
  MaxRows = 1
  InitFails = TRUE
  h1 = h1
  h2 = h2
  NodeCount = 3
  SiteLists <- NoneToTwo
  MaxLinks = 3
  MaxSiteRows = 0
  MaxFaults = 1
  MaxHaFaults = 1
  Timeouts = FALSE
PROPERTIES
  HandlersEndFirst
  MarkedIsConnected
  HandlersStopUnlessFull
  SiteFound
CHECK_DEADLOCK FALSE
