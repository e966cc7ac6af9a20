SPECIFICATION LimitsSpec
CONSTANTS
  InitialMaxStreams = 2
  Seqs = {0, 1, 3}
  MaxFaults = 1
  COLLECTED_STREAM_CHUNK_BITS = 3
  COLLECTED_STREAM_DENSE_THRESHOLD = 2
  CollectedBound = 9
INVARIANTS OpenerNotAccused LiveStreamsBounded BlockedIsTold
PROPERTY CreditReturns
CHECK_DEADLOCK FALSE
