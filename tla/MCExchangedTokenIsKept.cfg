SPECIFICATION Spec
CONSTANTS
  c1 = c1
  c2 = c2
  x1 = x1
  x2 = x2
  k1 = k1
  k2 = k2
  e1 = e1
  e2 = e2
  None = None
  Connections <- MCConnections
  Callers <- MCCallers
  Codes <- MCCodes
  EnvTokens <- MCEnvTokens
  MaxMemory = 2
INVARIANTS
  ExchangedTokenIsKept
CHECK_DEADLOCK FALSE
