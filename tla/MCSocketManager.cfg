SPECIFICATION Spec
CONSTANTS
  Conns = {c1, c2, c3}
  Listener = Listener
  FdLimit = 2
  RcvBuf = 1
  ReadSize = 1
  ReadTurns = 2
  MaxEvents = 2
  MaxSent = 2
  SndBuf = 1
  MaxAppend = 2
INVARIANTS
  TypeOK
  NothingStranded
  CallbacksInOrder
PROPERTY
  NoCallAfterDisconnect
SYMMETRY MCSymmetry
CHECK_DEADLOCK FALSE
