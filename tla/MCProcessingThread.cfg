SPECIFICATION Spec
CONSTANTS
  ClientCount = 2
  Senders <- MCSenders
  DeliverySize = 1
  DeleteThreshold = 2
  MinBatch = 0
  ReplyPieces = 2
  MaxBatch = 2
  MaxTimestamp = 1
  MaxMessages = 4
  MaxLabels = 3
INVARIANTS
  TypeOK
  StabilisedInOrder
  ReceivedIsPrefix
  NoLabelLost
  NothingStableWithheld
  DiesOnlyOnBrokenPipe
PROPERTIES
  StableNeverRegresses
  ImplementsOrderedDelivery
CHECK_DEADLOCK FALSE
