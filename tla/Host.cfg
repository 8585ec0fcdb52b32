SPECIFICATION Spec
CONSTANTS
  Threads = {t1, t2}
  Opener = t1
  Regs = {r1, r2}
  Bytes = {b0, b1}
  Devices <- AllDevices
  MaxFaults = 1
  MaxCalls = 4
INVARIANTS
  NothingLeaks
  OwnTransport
PROPERTIES
  ImplementsPort
  CallsReturn
CHECK_DEADLOCK FALSE
