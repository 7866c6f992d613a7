SPECIFICATION FairSpec
CONSTANTS
  Conns = {c1, c2}
  IDs = {i1, i2}
  UniqueIDs = TRUE
  MaxConnections = 1
  None = None
INVARIANTS TypeOK StopWaitsForAll ServedIsTracked ServedWithinLimit NoReadAfterManagerStop
PROPERTY StopStuckOnlyOnAcceptLock
CHECK_DEADLOCK FALSE
