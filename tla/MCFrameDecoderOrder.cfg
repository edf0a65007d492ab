SPECIFICATION Spec
CONSTANTS
  Clients = {c1}
  NoClient = NoClient
  Messages <- MCMessages
  Telnet = FALSE
  DocumentedOrder = TRUE
  InitialBuffer = 100
  IncUnit = 4
  MaxFrames = 1
INVARIANT
  FramesDecoded
CHECK_DEADLOCK FALSE
