SPECIFICATION Spec
CONSTANTS
  p1 = p1
  p2 = p2
  n1 = n1
  s1 = s1
  s2 = s2
  Clients = {p1, p2}
  Names = {n1}
  SessionIds = {s1, s2}
  NoRow = NoRow
  NoName = NoName
  NoSession = NoSession
  PlayerTables <- MCPlayerTables
  Deltas <- MCDeltas
  MaxCalls = 3
  MaxFaults = 1
  MaxCrashes = 1
SYMMETRY ModelSymmetry
INVARIANTS TypeOK OneRegistrationWins LevelCoversExperience StatisticsAddUp TokenFollowsSession
  EndedSessionRefused
PROPERTIES BanHolds
CHECK_DEADLOCK FALSE
