SPECIFICATION FairSpec
CONSTANTS
  SendBufferSize = 2
  Window = 2
  MaxSize = 3
  WriteLens = {1, 2}
  PacketLens = {1, 2}
  ReliableSizes = {1}
  MaxLosses = 1
INVARIANTS
  NoAccusation
  DoneIsDelivered
PROPERTIES
  ImplementsByteStream
  EndIsReached
  CreditArrives
  SenderFinishes
CHECK_DEADLOCK FALSE
