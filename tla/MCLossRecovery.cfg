SPECIFICATION Spec
CONSTANTS
  INITIAL_PACKET_THRESHOLD = 2
  MAX_PACKET_THRESHOLD = 3
  MAX_PTO_PROBES_COUNT = 2
  Items <- MCItems
  MaxPkts = 4
  MAX_INLINE_CAPACITY = 4
  MIN_TO_INLINE = 2
  RangeCapacity = 4
  RangeBound = 7
  MIN_PLPMTU = 3
  max_probes = 2
  MtuBound = 14
INVARIANTS InFlightLedger ItemNotForgotten TimerArmed
CHECK_DEADLOCK FALSE
