SPECIFICATION PollSpec
CONSTANTS
  x = x  y = y  z = z  qa = qa  qb = qb  NoLimit = NoLimit
  Data = {x, y, z}
  QueueName = {qa, qb}
  Names <- InOrder
  Stream <- Disjoint
  MaxMon = 3
  MaxRef = 2
  Limits = {1, NoLimit}
  Period = 2
INVARIANTS NoFalseAlarm FrontIsFresh
PROPERTIES DrainLeavesNothing TimeoutIsDeserved
CHECK_DEADLOCK FALSE
