SPECIFICATION BitsSpec
CONSTANTS
  Pids <- MCPids
  Bytes <- MCBytes
  MaxData = 2
  BufSize = 4
  History <- MCHistory
INVARIANTS
  RoundTrip
  InBuffer
  Toggles
  CrcAgrees
CHECK_DEADLOCK FALSE
