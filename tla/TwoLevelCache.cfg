SPECIFICATION FairSpec
CONSTANTS
  c1 = c1
  c2 = c2
  Clients = {c1, c2}
  Main = Main
  k1 = k1
  k2 = k2
  Keys = {k1, k2}
  HotKeys = {k1}
  NoKey = NoKey
  L1Enabled = TRUE
  MaxBlocked = 1
  MaxCalls = 2
  SingleKeys = {k1}
  StatsClients = {c1}
  MaxStats = 1
INVARIANTS TypeOK SequentialCoherence BlockedKeyHasNoValue BlockedWithinLimit
PROPERTIES CallsReturn
CHECK_DEADLOCK FALSE
