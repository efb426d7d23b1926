SPECIFICATION FairSpec
CONSTANTS
  ThreadCount = 2
  Callers = {c1, c2}
  BulkCallers = {}
  Admins = {c2}
  Keys <- KeysBothSigns
  PerBlock = 2
  BatchSize = 2
  Throttled = TRUE
  WithCallback = TRUE
  Faults = {"reject", "throw"}
  MaxRows = 3
  MaxBulk = 1
  Nobody = Nobody
  c1 = c1
  c2 = c2
INVARIANTS
  StatusAddsUp
  ReportedOnce
  DoubleCountIsOneBlock
PROPERTIES
  RowsLeaveQueue
