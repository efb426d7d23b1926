SPECIFICATION Spec
CONSTANTS
  ThreadCount = 2
  Callers = {c1, c2}
  BulkCallers = {c2}
  Admins = {c2}
  Keys <- KeysBothSigns
  PerBlock = 1
  BatchSize = 1
  Throttled = FALSE
  WithCallback = FALSE
  Faults = {"reject", "lost"}
  MaxRows = 3
  MaxBulk = 2
  Nobody = Nobody
  c1 = c1
  c2 = c2
INVARIANTS
  TypeOK
  RowAccounting
  StoredInOrder
  CompletionMeansWritten
  NoLostWakeup
