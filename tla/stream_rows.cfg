SPECIFICATION EitherSpec
CONSTANTS
  Handlers = {h1}
  Capacity = 1
  Offsets <- NoneOrFirst
  MaxSubs = 2
  MaxConns = 3
  MaxRows = 2
  InitFails = FALSE
  h1 = h1
  h2 = h2
  NodeCount = 3
  SiteLists <- NoneToTwo
  MaxLinks = 4
  MaxSiteRows = 2
  MaxFaults = 2
  MaxHaFaults = 1
  Timeouts = TRUE
INVARIANTS
  ConsecutiveRows
  SubscriptionsKept
  SitesKept
CHECK_DEADLOCK FALSE
