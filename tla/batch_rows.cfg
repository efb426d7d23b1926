SPECIFICATION FairSpec
CONSTANTS
  Callers = {c1, c2}
  Tables = {"t"}
  MaxDests = 2
  MaxRows = 3
  BatchFaults = {"reject", "lost"}
  Nil = Nil
  c1 = c1
  c2 = c2
INVARIANTS
  RowAccounting
  StoredInOrder
  WritersInOrder
PROPERTIES
  EndsDrained
  RowsAreWritten
CHECK_DEADLOCK FALSE
