SPECIFICATION Spec
CONSTANTS
  a1 = a1
  a2 = a2
  pay = pay
  read = read
  k1 = k1
  k2 = k2
  Agent = {a1, a2}
  Capability = {pay, read}
  MaxTime = 2
  Gateway = gateway
  Allowed = {pay}
  AllowAll = FALSE
  MaxAge = 1
  MaxTtl = 2
  Ttls = {1, 3}
  CapLists <- MCCapLists
  Skew = 1
  OfferTtl = 1
  OtherTtl = 5
  MaxMessages = 2
  Approver = {p1, p2}
  Action = {act1, act2}
  Terms = {0, 1}
  MaxTokens = 2
  Request = {r1, r2}
  IdemKey = {idem1, idem2}
  NoKey = NoKey
  Batches <- MCBatches
  CacheTtl = 2
  CacheLimit = 0
  U64Max = 7
  MaxCerts = 2
  Exchange = {x1, x2}
  KeySets <- MCKeySets
  Token <- MCToken
  Lifetimes = {3}
  NoKid = NoKid
  JwksTtl = 2
  Never = 100
  MaxExchanged = 1
  McpCall = {m1, m2, m3}
  McpCert = {x1}
  Secret = "right"
  Call = {c1, c2}
  Server = {u1}
  Setting = {o1}
  Places = {"~/.openclaw", "~/.ironclaw", "~/.config/ironclaw", "~/.config/Claude", "cwd"}
  Groups <- MCGroups
  Absent = Absent
  plain = plain
  link = link
  etc = etc
  gone = gone
  script = script
  passwd = passwd
  Writer = {w1, w2}
  Name = {plain, link, etc, gone}
  Target = {script, passwd}
  Resolves <- MCResolves
  Missing = Missing
  BelowRoot = {script}
  System = {passwd}
  Original = Original
  Empty = Empty
  FileText = {new, newer}
  Pattern = {g1, g2}
  MaxWrites = 3
  AGENT_PROBES <- MCProbes
  ExtraPorts <- MCExtraPorts
  All = All
  Platform = {"linux", "macos", "windows"}
SYMMETRY Symmetry
CHECK_DEADLOCK FALSE
INVARIANTS
  TypeOK
  HonouredWasSigned
  IssuedAsAsked
  ExchangeCurrent
  ConfigFaithful
  TextsKept
  ScanExact
  OffMeansOff
  ToldAuthorizedOnce
