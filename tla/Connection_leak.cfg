SPECIFICATION FairSpec
CONSTANTS
  HeartbeatTimeout = 2
  MaxMissed = 3
  IdleTimeout = 4
  MaxClosers = 2
PROPERTY DetectorsStop
