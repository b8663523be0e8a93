SPECIFICATION Spec
CONSTANTS
  dotted = dotted
  dashed = dashed
  dotFile = dotFile
  dashFile = dashFile
  Namespace = {dotted, dashed}
  Path = {dotFile, dashFile}
  PathOf <- MCPathOf
  Claimed <- MCClaimed
  Capability = {charge}
  Request = {r1, r2}
  MaxPassports = 2
  MaxRestores = 1
  MaxRestarts = 1
  pay = pay
  read = read
  scan = scan
  Key = {alice, bob}
  Intent = {pay, read, scan}
  Extension = {}
  CertVersion = 1
  U8Max = 255
  BitOf <- MCBitOf
  DefaultDepth = 16
  DefaultDrift = 0
  Name = {team}
  Ttl = {0, 1}
  RootCaps <- MCRootCaps
  MemberCaps <- MCMemberCaps
  MaxMembers = 2
  MaxTime = 1
  MaxLength = 2
SYMMETRY Symmetry
CHECK_DEADLOCK FALSE
INVARIANTS
  TypeOK
  RevokedStaysAway
  NothingExtraGranted
  GuardExact
