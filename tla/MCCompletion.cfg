SPECIFICATION MCSpec
CONSTANTS
  Nonce = {n1, n2}
  Caller = {c1, c2}
  MaxRetries = 2
  PruneAge = 1
  MaxTime = 2
  Event = {e1, e2}
  Configured = TRUE
  Lines <- MCLines
  Capacity = 2
  PipeSize = 1
  SiemEvent = {e1, e2, e3}
  BatchSize = 2
CHECK_DEADLOCK FALSE
INVARIANTS
  WorkTypeOK
  WorkFaithful
PROPERTIES
  ImplementsLedger
  CallsReturn
  WorkEnds
