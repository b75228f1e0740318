SPECIFICATION FairSpec
CONSTANTS
  c1 = c1  c2 = c2  c3 = c3  a = a  b = b  NoCtx = NoCtx
  Ctx = {c1, c2, c3}
  LockId = {a, b}
  Scope <- OwnLock
  Requests <- OneEach
  Known0 = {}
  MaxRounds = 1
  Raising = {}
  Forever = {c1}
PROPERTIES NoWaitWhileFree
CHECK_DEADLOCK FALSE
