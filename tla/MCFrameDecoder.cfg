SPECIFICATION Spec
CONSTANTS
  Clients = {c1, c2}
  NoClient = NoClient
  Messages <- MCMessages
  Telnet = FALSE
  DocumentedOrder = FALSE
  InitialBuffer = 34
  IncUnit = 1
  MaxFrames = 2
INVARIANTS
  TypeOK
  FramesDecoded
  BufferFits
CHECK_DEADLOCK FALSE
