SPECIFICATION FairSpec
CONSTANTS
  Conns = {c1, c2}
  Listener = Listener
  FdLimit = 2
  RcvBuf = 1
  ReadSize = 1
  ReadTurns = 1
  MaxEvents = 2
  MaxSent = 2
  SndBuf = 1
  MaxAppend = 2
PROPERTIES
  DataArrives
  DisconnectReported
  SentDataLeaves
CHECK_DEADLOCK FALSE
