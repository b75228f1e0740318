SPECIFICATION FairSpec
CONSTANTS
  c1 = c1  c2 = c2  c3 = c3  a = a  b = b  NoCtx = NoCtx
  Ctx = {c1, c2, c3}
  LockId = {a, b}
  Scope <- Mixed
  Requests <- SomeLocks
  Known0 = {a, b}
  MaxRounds = 2
  Raising = {c1}
  Forever = {c2}
INVARIANTS ClaimNeverFails NoLostRequest NoLostWakeup
PROPERTIES GrantsAtomically EveryRequestAnswered
CHECK_DEADLOCK FALSE
