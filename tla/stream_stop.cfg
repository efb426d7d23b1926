SPECIFICATION FairSpec
CONSTANTS
  Handlers = {h1}
  Capacity = 2
  Offsets = {0}
  MaxSubs = 1
  MaxConns = 1
  MaxRows = 2
  InitFails = FALSE
  h1 = h1
  h2 = h2
PROPERTIES
  HandlersStop
CHECK_DEADLOCK FALSE
