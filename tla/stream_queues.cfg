SPECIFICATION EitherSpec
CONSTANTS
  Producers = {p1, p2}
  Consumers = {q1, q2}
  Capacity = 3
  BatchSize = 2
  MaxItems = 4
  Nil = Nil
  p1 = p1
  p2 = p2
  q1 = q1
  q2 = q2
  QueueSize = 2
  Stream <- TheStream
  StartAt <- TheStarts
  MaxClients = 2
  TopicCount = 2
  Forms <- AllForms
  Published <- TheMessages
  QueueLimit = 1
  BatchRows = 3
  TupleLimit = 2
  MaxObjects = 13
INVARIANTS
  WaitersAreRight
  RowsAsPublished
  RowsDelivered
  KeptRowsStay
PROPERTIES
  FifoSpec
  CallsReturn
CHECK_DEADLOCK FALSE
