SPECIFICATION Spec
CONSTANTS
  Clients = {c1}
  NoClient = NoClient
  Messages <- MCMessages
  Telnet = TRUE
  DocumentedOrder = FALSE
  InitialBuffer = 100
  IncUnit = 4
  MaxFrames = 2
INVARIANT
  FramesDecoded
CHECK_DEADLOCK FALSE
