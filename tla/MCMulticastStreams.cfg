SPECIFICATION Spec
CONSTANTS
  Channels = {"c1"}
  Streams = {"s1"}
  SendBufferSize = 2
  reordering_threshold = 1
  max_pending_ranges_per_connection = 2
  max_pending_ranges_per_channel = 2
  max_withheld_bytes_per_connection = 1
  max_withheld_bytes_per_channel = 2
  MaxStreamData = 2
  MaxPackets = 3
  PublishLens = {0, 1, 2}
  ReliableSizes = {1}
INVARIANTS
  RangeNotForgotten
  WithheldLedger
  ResetCoversDelivered
  ViableIsProven
CHECK_DEADLOCK FALSE
