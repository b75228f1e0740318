SPECIFICATION FairSpec
CONSTANTS
  a = a  b = b  c = c  s1 = s1  bg = bg  p1 = p1  NoStream = NoStream
  Stream = {a, b, c}
  Order <- Order3
  Reaction <- Chain
  Blocking = {s1}
  Background = {bg}
  Process = {p1}
  Target <- Split
  MaxItems = 1
  Loops = 3
  Delay = 2
  MaxDrive = 2
  ModelOn <- LateInC
  HasTimeout = TRUE
  MaxFaults = 1
INVARIANTS PassedIsComplete PassedIsFaultless
PROPERTIES Concludes
CHECK_DEADLOCK FALSE
