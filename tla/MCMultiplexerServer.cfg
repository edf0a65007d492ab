SPECIFICATION MuxSpec
CONSTANTS
  Capacity = 50
  SizeModulus = 256
  IgnoreValues <- MCIgnoreValues
  IgnoreMsgCount = 2
  MaxMessages = 6
INVARIANTS
  MuxTypeOK
  ConfiguredBeforeUse

  
CHECK_DEADLOCK FALSE
