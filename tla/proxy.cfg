SPECIFICATION ProxyFairSpec
CONSTANTS
  c1 = c1  c2 = c2  drv = drv  cfg = cfg  NoCtx = NoCtx
  Ctx = {c1, c2}
  LockId = {drv, cfg}
  Drv = drv
  Scope <- OnlyDriver
  Requests <- ProxyRequests
  Known0 = {}
  MaxRounds = 2
  MaxSent = 3
  Raising = {c1}
  Forever = {}
  Hasty = {c1}
INVARIANTS NoHoldAndWait Undisturbed WokenByNext
PROPERTIES WaitReturns
CHECK_DEADLOCK FALSE
