SPECIFICATION Spec
CONSTANTS
  Threads = {t1, t2}
  Programs <- AllPrograms
  Modes = {TRUE, FALSE}
  SiteSize = 18
  RegionSize = 40
  MaxRegions = 4
  MaxFaults = 1
INVARIANTS
  NeverLost
PROPERTIES
  ImplementsProgram
  Passed
CHECK_DEADLOCK FALSE
