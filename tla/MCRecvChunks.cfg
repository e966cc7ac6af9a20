SPECIFICATION Spec
CONSTANTS
  DataFrames <- MCDataFrames
  ResetFrames <- MCResetFrames
  InitialMaxData = 6
  MaxWindow = 6
  MaxSize = 6
  Codes = {0}
CHECK_DEADLOCK FALSE
INVARIANTS
  ReadableLenExact
PROPERTIES
  ImplementsRecvBuf
