SPECIFICATION MuxSpec
CONSTANTS
  Capacity = 50
  SizeModulus = 256
  IgnoreValues <- MCIgnoreValues
  IgnoreMsgCount = 2
  MaxMessages = 6
INVARIANT
  IgnoresInitialMessages
CHECK_DEADLOCK FALSE
