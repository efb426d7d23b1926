SPECIFICATION FairSpec
CONSTANTS
  Users = {u1}
  Appenders = {}
  Workers = {w1}
  UserIds = {0}
  EmptyScripts = FALSE
  MaxTasks = 1
  Answers = {"rows"}
  Nil = Nil
  u1 = u1
  u2 = u2
  a1 = a1
  a2 = a2
  w1 = w1
  w2 = w2
PROPERTIES
  PollEnds
CHECK_DEADLOCK FALSE
