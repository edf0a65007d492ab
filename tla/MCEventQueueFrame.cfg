SPECIFICATION FairSpec
CONSTANTS
  Packets = {a1, a2, a3}
  NULL = NULL
  MaxMessages = 5
INVARIANTS
  TypeOK
  NoDanglingPointer
  EachPacketInOnePlace
PROPERTY
  ImplementsChannel
