SPECIFICATION Spec
CONSTANTS
  s1 = s1
  s2 = s2
  Streams = {s1, s2}
  Incremental = {}
  SendBufferSize = 2
  InitialMaxStreamData = 1
  InitialMaxData = 2
  MaxData = {3}
  WriteLens = {2}
  Watermarks = {2}
  PacketLens = {2}
  Cwnds = {0, 3}
  Codes = {}
  ReliableSizes = {}
  MaxInflight = 1
  TxCapFactor = 1
  FullPackets = FALSE
  WideHeaders = FALSE
SYMMETRY MCSymmetry
INVARIANTS
  WritableQueued
  SendLedger
CHECK_DEADLOCK FALSE
