SPECIFICATION Spec
CONSTANTS
  MinLength = 2
  Lengths = {2, 3}
  BufferSize = 4
  MaxMessages = 2
INVARIANTS GluedMessagesDecoded
CHECK_DEADLOCK FALSE
