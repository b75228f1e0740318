SPECIFICATION Spec
CONSTANTS
  x = x  y = y  z = z  NoData = NoData
  Data = {x, y, z}
  Filter <- Identity
  Setups <- WindowOfTwo
  MaxMon = 3
  MaxRef = 3
PROPERTIES MatchableIsMatched
CHECK_DEADLOCK FALSE
