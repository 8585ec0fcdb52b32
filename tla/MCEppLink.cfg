SPECIFICATION LinkSpec
CONSTANTS
  DataBytes <- MCDataBytes
  ControlBytes <- MCControlBytes
  PollLimit = 1
INVARIANTS
  InputNotDriven
  HandshakeStable
  NoContention
PROPERTIES
  TimeoutReported
  StrobeFindsReady
  DeviceReleased
  ImplementsTransfer
