SPECIFICATION MCSpec
CONSTANTS
  Nonce = {n1, n2}
  Caller = {c1, c2, c3}
  Prober = {p1}
  Bit = {b1, b2}
  BitOf <- MCBitOf
  Ttl = 1
  U64Max = 3
  MaxTime = 3
  Key = {n1, n2}
  Conn = {c1, c2, c3}
  PxTtl = 2
  MaxClock = 3
  f1 = f1
  f2 = f2
  f3 = f3
  b1 = b1
  b2 = b2
  b3 = b3
  b4 = b4
  Fp = {f1, f2, f3}
  FilterBit = {b1, b2, b3, b4}
  BitsOf <- MCBitsOf
  Batches <- MCBatches
  Revoker = {r1, r2}
  Reader = {q1}
  Cert = {f1, f2, f3}
  Malformed = {"bad"}
  Lists <- MCLists
  Client = {k1, k2}
  Stores <- MCStoreKinds
  Forever = 100
  MaxNow = 2
  BatchCaller = {d1, d2}
  Slices <- MCSlices
  Thread = {t1, t2}
  Principal = {"p1", "p2"}
  MaxPerWindow = 1
  WindowSecs = 2
  MaxUptime = 4
  MaxAdmitted = 3
  Leaves = 4
  MaxPath = 5
  MaxHops = 2
  MaxSubset = 2
  Content = {1, 2}
  Fingerprint = {g1, g2}
  MaxSteps = 5
  NoRoot = NoRoot
  FfiThread = {h1, h2}
  FfiCert = {x1}
  MaxCalls = 2
  MaxStores = 2
SYMMETRY Symmetry
CHECK_DEADLOCK FALSE
INVARIANTS
  LibraryTypeOK
  RepeatsLose
  RevocationAtomic
  AckedIsRevoked
  WindowLimit
  ScopeProofsExact
  DisclosureExact
  ThreadsApart
PROPERTIES
  ImplementsLedger
  ProbeSeesWins
  RedisImplementsLedger
