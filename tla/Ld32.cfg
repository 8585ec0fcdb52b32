SPECIFICATION Spec
CONSTANTS
  Byte <- AllBytes
  Buffer = 16
  JmpFar = 6
  Window = 8
INVARIANTS
  InBuffer
  TablesAgree
CHECK_DEADLOCK FALSE
