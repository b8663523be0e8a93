SPECIFICATION McpSpec
CONSTANTS
  McpCall = {m1}
  McpCert = {x1}
  Secret = "right"
CHECK_DEADLOCK FALSE
INVARIANT RevokeToolRevokes
