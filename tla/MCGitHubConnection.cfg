\* Two callers, two connections, two codes; up to two in-memory stores.
SPECIFICATION Spec
CONSTANTS
  c1 = c1
  c2 = c2
  x1 = x1
  x2 = x2
  k1 = k1
  k2 = k2
  e1 = e1
  e2 = e2
  None = None
  Connections <- MCConnections
  Callers <- MCCallers
  Codes <- MCCodes
  EnvTokens <- MCEnvTokens
  MaxMemory = 2
SYMMETRY Symmetry
INVARIANTS
  TypeOK
  TokensStayWithTheirConnection
  SpentCodeIsNotOffered
PROPERTIES
  DeletedStaysDeleted
  AuthorizedOnlyWhileConnected
CHECK_DEADLOCK FALSE
