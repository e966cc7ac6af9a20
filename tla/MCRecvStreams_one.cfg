SPECIFICATION Spec
CONSTANTS
  Streams = {s1}
  Incremental = {}
  DataFrames <- MCDataFrames
  ResetFrames <- MCResetFrames
  InitialMaxStreamData = 3
  MaxStreamWindow = 4
  InitialMaxData = 3
  MaxConnWindow = 5
  MaxSize = 4
  MaxLen = 4
  Codes = {0, 1}
  Cap = 5
CHECK_DEADLOCK FALSE
INVARIANTS
  CreditLedger
  ConnectionLedger
  NoUnderflow
  NoByteLost
  ReadableExact
  CollectedIsSettled
  NothingForgotten
PROPERTIES
  FinalSizeFixed
  LimitsNeverShrink
