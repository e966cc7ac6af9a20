SPECIFICATION Spec
CONSTANTS
  Streams = {s1, s2}
  Incremental = {s1, s2}
  DataFrames <- MCDataFrames
  ResetFrames <- MCFewResets
  InitialMaxStreamData = 2
  MaxStreamWindow = 2
  InitialMaxData = 2
  MaxConnWindow = 3
  MaxSize = 2
  MaxLen = 2
  Codes = {0}
  Cap = 3
SYMMETRY StreamSymmetry
CHECK_DEADLOCK FALSE
INVARIANTS
  CreditLedger
  ConnectionLedger
  NoUnderflow
  NoByteLost
  ReadableExact
  CollectedIsSettled
  NothingForgotten
