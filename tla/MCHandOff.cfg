SPECIFICATION FairSpec
CONSTANTS
  Capacity = 50
  SizeModulus = 256
  IgnoreValues <- MCIgnoreValues
  MaxMessages = 7
INVARIANTS
  TypeOK
  SizeIsExact
  WaitsForAReason
  FifoExactlyOnce
PROPERTIES
  ImplementsFairChannel
  ReceiverComesBack
