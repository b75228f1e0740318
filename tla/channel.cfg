SPECIFICATION FairSpec
CONSTANTS
  x = x  y = y  z = z  NoData = NoData
  Data = {x, y, z}
  Filter <- DropZ
  Setups <- Sound
  MaxMon = 3
  MaxRef = 4
INVARIANTS TimingIndependent DrainNeverFails
PROPERTIES DrainLeavesNothing EqualTrafficDrains
CHECK_DEADLOCK FALSE
