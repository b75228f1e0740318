SPECIFICATION BenchFairSpec
CONSTANTS
  ta = ta  tb = tb  ba = ba  bb = bb  b2 = b2
  NoCtx = NoCtx  NoItem = NoItem
  Ctx = {ta, tb, ba, bb, b2}
  LockId = {"a", "b"}
  Tests = {"random", "random_seq"}
  Traffic = {ta, tb}
  Burst = {ba, bb, b2}
  On <- OnStream
  Length = 2
  Packets = 10
INVARIANTS CaptureIsPredicted WindowSuffices BurstNearlyAlone
PROPERTIES MergesStreams Completes
