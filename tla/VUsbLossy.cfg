SPECIFICATION Spec
CONSTANTS
  Requests <- AllRequests
  MaxRequests = 3
  MaxFaults = 3
  MaxTries = 2
INVARIANTS
  NoTornPacket
  InOrder
  SuccessIsReal
PROPERTIES
  ReceivedIsStable
  AllSucceed
