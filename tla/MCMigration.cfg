CONSTANTS
  a0 = a0
  a1 = a1
  a2 = a2
  Addrs = {a0, a1, a2}
  Home = a0
  SourceLimit = 2
  DestinationLimit = 2
  RETIRED_CONN_ID_LIMIT_MULTIPLIER = 3
  MAX_PROBING_TIMEOUTS = 1
  max_concurrent_paths = 2
  MaxIds = 3
  MaxInFlight = 1
SPECIFICATION Spec
INVARIANTS PathDcidHeld NoDcidLeaked
CHECK_DEADLOCK FALSE
SYMMETRY Sym
