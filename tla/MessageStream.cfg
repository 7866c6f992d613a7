SPECIFICATION FairSpec
CONSTANTS
  MinLength = 2
  Lengths = {2, 3, 5}
  BufferSize = 3
  MaxMessages = 4
INVARIANTS TypeOK DeliveredAsSent OnlyCoalescedRejected
PROPERTIES EveryMessageDelivered
CHECK_DEADLOCK FALSE
