SPECIFICATION FairSpec
CONSTANTS
  Users = {u1}
  Appenders = {a1}
  Workers = {w1, w2}
  UserIds = {0}
  EmptyScripts = TRUE
  MaxTasks = 3
  Answers = {"rows", "null", "error"}
  Nil = Nil
  u1 = u1
  u2 = u2
  a1 = a1
  a2 = a2
  w1 = w1
  w2 = w2
INVARIANTS
  TasksInOrder
PROPERTIES
  AffectedCountsChunks
  WaitsEnd
CHECK_DEADLOCK FALSE
