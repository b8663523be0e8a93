SPECIFICATION Spec
CONSTANTS
  alice = alice
  bob = bob
  carol = carol
  pay = pay
  read = read
  scan = scan
  Key = {alice, bob, carol}
  Intent = {pay, read, scan}
  Extension = {}
  CertVersion = 1
  U8Max = 255
  Nonce = {1, 2}
  Caller = {r1, r2}
  Retention = 4
  Demands <- FewDemands
  Policies <- MCPolicies
  Hold = 1
  MaxTime = 3
CHECK_DEADLOCK FALSE
PROPERTIES
  Answered
