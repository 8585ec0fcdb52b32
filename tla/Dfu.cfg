SPECIFICATION Spec
CONSTANTS
  Devices <- Bus
  DevicesMax = 3
  FirmwareSize = 5
  BlockSize = 2
  MaxTryCount = 3
  MaxFaults = 5
  MaxRest = 3
INVARIANTS
  SuccessIsComplete
  OneCallListsAll
PROPERTIES
  RetriedUntilDone
