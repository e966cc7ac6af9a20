SPECIFICATION Spec
CONSTANTS
  s1 = s1
  s2 = s2
  Streams = {s1}
  Incremental = {}
  SendBufferSize = 2
  InitialMaxStreamData = 6
  InitialMaxData = 3
  MaxData = {}
  WriteLens = {0, 3}
  Watermarks = {}
  PacketLens = {1, 2}
  Cwnds = {3}
  Codes = {0}
  ReliableSizes = {1, 2}
  MaxInflight = 2
  TxCapFactor = 2
  FullPackets = FALSE
  WideHeaders = FALSE
INVARIANTS
  WithinConnectionLimit
CHECK_DEADLOCK FALSE
