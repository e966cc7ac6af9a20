SPECIFICATION Spec
CONSTANTS
  s1 = s1
  s2 = s2
  s3 = s3
  Senders = {s1, s2, s3}
  Patient = {s2, s3}
  max_items = 2
  max_retained_bytes = 3
  Sizes = {1, 3, 4}
  MaxCalls = 4
  Unbounded = 1000
  DatagramLimits <- MCDatagramLimits
  Datagrams <- MCDatagrams
  MaxDatagramCalls = 4
INVARIANTS
  RetainedLedger
PROPERTIES
  SendersFinish
CHECK_DEADLOCK FALSE
