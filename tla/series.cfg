SPECIFICATION SeriesFairSpec
CONSTANTS
  p1 = p1  p2 = p2  q1 = q1  q2 = q2  x = x  y = y  cfg = cfg
  NoCtx = NoCtx
  Ctx = {p1, p2, q1, q2}
  LockId = {x, y, cfg}
  Scope <- OwnComponent
  Requests <- SeriesRequests
  Known0 = {}
  MaxRounds = 1
  Raising = {p1}
  Forever = {p2}
  TestOf <- First
  Tests = 2
PROPERTIES LeftForGood AnsweredInLaterTests
CHECK_DEADLOCK FALSE
