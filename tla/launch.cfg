SPECIFICATION LaunchSpec
CONSTANTS
  drv = drv  mon = mon  traffic = traffic  mode = mode  u = u  v = v
  Fn = {traffic, mode}
  Decorators <- Declarations
  Plain <- Defaults
  Kwds <- Keywords
  CompType <- Types
  MaxCalls = 2
  MaxTasks = 3
INVARIANTS LegalCallStarts OverridesHonoured RelaunchIsPlain
CHECK_DEADLOCK FALSE
