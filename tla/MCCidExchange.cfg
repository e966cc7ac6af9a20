CONSTANTS
  SourceLimit = 2
  DestinationLimit = 2
  RETIRED_CONN_ID_LIMIT_MULTIPLIER = 3
  MaxScids = 3
  MaxFaults = 1
SPECIFICATION Spec
INVARIANTS HeldIsAccepted IdsNotForgotten
PROPERTY RotationCompletes
CHECK_DEADLOCK FALSE
