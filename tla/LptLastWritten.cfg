SPECIFICATION Spec
CONSTANTS
  DataBytes <- MCDataBytes
  ControlBytes <- MCControlBytes
  PollLimit = 1
PROPERTY
  StoresLastWritten
