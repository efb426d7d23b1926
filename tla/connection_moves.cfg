SPECIFICATION EitherSpec
CONSTANTS
  NodeCount = 2
  Modes <- AllModes
  HasScript = TRUE
  HasClientId = TRUE
  MaxSeqNo = 20
  MaxRequests = 2
  MaxFaults = 2
INVARIANTS
  NumberedRunsOnce
  AnswersAreTrue
  ScriptFirst
  ColumnsAsSent
PROPERTIES
  CallsAndReadingEnd
CHECK_DEADLOCK FALSE
