SPECIFICATION ListSpec
CONSTANTS
  DeviceCount = 2
  Fields = {"manufacturer", "productName"}
  Languages = 3
INVARIANTS
  OnlyKnownLosses
CHECK_DEADLOCK FALSE
