SPECIFICATION TestFairSpec
CONSTANTS
  d1 = d1  d2 = d2  m1 = m1  p1 = p1  NoTask = NoTask
  adata = adata  aready = aready  xready = xready  xlast = xlast  tied = tied
  len = len  way = way
  Null = Null  Undefined = Undefined
  Component = {d1, d2, m1}
  Orders <- SomeOrders
  Other = {p1}
  Resets = {TRUE, FALSE}
  Inits = {TRUE, FALSE}
  Signal = {adata, aready, xready, xlast, tied}
  Present <- Ports
  BusRole <- BusRoles
  Side <- Sides
  Layout <- Fields
  Bus <- Buses
  Uses <- Writes
  Param = {len, way}
  Cast <- Casts
  Files <- SomeFiles
INVARIANTS NothingStartsInReset BodyFindsAllReady ReadsBack InputsDefined EveryCombinationRuns
PROPERTIES TestStarts
CHECK_DEADLOCK FALSE
