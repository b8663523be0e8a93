CONSTANTS
  Nonce = {n1, n2}
  Caller = {c1, c2}
  MaxRetries = 3
  PruneAge = 1
  MaxTime = 2
SPECIFICATION Spec
CHECK_DEADLOCK FALSE
INVARIANTS
  OkFalseInsertsNothing
