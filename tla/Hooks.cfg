SPECIFICATION Spec
CONSTANTS
  Threads = {t1, t2}
  First = t1
  Files = {f1, f2}
  Keys = {k1, k2}
  Ports = {2, 3, 5, 7}
  Bypass = {5}
  Word = 10
  Base = 3
  Settings <- AnySettings
  MaxFaults = 1
INVARIANTS
  OneInit
  ForeignOnlyIfStale
  HookedIsAnswered
  OwnHandle
  RightRegister
CHECK_DEADLOCK FALSE
