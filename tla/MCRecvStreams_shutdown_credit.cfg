SPECIFICATION FairSpec
CONSTANTS
  Streams = {s1}
  Incremental = {}
  DataFrames <- MCDataFrames
  ResetFrames <- MCResetFrames
  InitialMaxStreamData = 2
  MaxStreamWindow = 2
  InitialMaxData = 2
  MaxConnWindow = 2
  MaxSize = 2
  MaxLen = 2
  Codes = {0}
  Cap = 3
CHECK_DEADLOCK FALSE
PROPERTY
  ShutdownReturnsCredit
