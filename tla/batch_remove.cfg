SPECIFICATION FairSpec
CONSTANTS
  Callers = {c1, c2}
  Tables = {"t"}
  MaxDests = 1
  MaxRows = 1
  BatchFaults = {}
  Nil = Nil
  c1 = c1
  c2 = c2
PROPERTIES
  RemoveReleases
CHECK_DEADLOCK FALSE
