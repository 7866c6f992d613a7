SPECIFICATION FairSpec
CONSTANTS
  Conns = {c1, c2, c3}
  IDs = {i1, i2}
  UniqueIDs = FALSE
  MaxConnections = 2
  None = None
INVARIANT NeverAboveLimit
CHECK_DEADLOCK FALSE
