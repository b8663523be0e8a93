SPECIFICATION Spec
CONSTANTS
  Key = {alice, bob}
  Intent = {pay, read}
  Extension = {}
  CertVersion = 1
  U8Max = 255
  Drift = 1
  Lifetimes = {2, 3}
  Depths = {3}
  MaxLen = 3
  MaxIssue = 1
  MaxClock = 5
  MaxOdd = 1
SYMMETRY Symmetry
CHECK_DEADLOCK FALSE
INVARIANTS
  AuthorityNeverWidens
  DelegatorCouldAct
  AcceptedBySpec
  HonestAccepted
