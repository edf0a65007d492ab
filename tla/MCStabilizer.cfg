SPECIFICATION FairSpec
CONSTANTS
  Capacity = 25
  SizeModulus = 256
  IgnoreValues = {1}
  ClientCount = 2
  Senders <- MCSenders
  DeliverySize = 1
  DeleteThreshold = 2
  MinBatch = 1
  ReplyPieces = 1
  MaxBatch = 1
  MaxTimestamp = 1
  MaxMessages = 4
  MaxLabels = 2
INVARIANT
  NoLabelLost
PROPERTIES
  ImplementsProcessingThread
  StableLabelsLeave
  StableLabelsReachReceiver
CHECK_DEADLOCK FALSE
