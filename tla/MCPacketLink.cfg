CONSTANTS
  empty = empty
  block = block
  long = long
  End = {a, b}
  Packet = {empty, block, long}
  Size <- MCSize
  Block = 2
  Limit = {2, 5}
  MayRestart = TRUE
  MayOverrun = TRUE
  None = None
  Mangled = Mangled
SPECIFICATION FairSpec
CHECK_DEADLOCK FALSE
INVARIANTS
  TypeOK
  NoStaleAck
  BlocksInStep
PROPERTIES
  ImplementsAtomicPacket
  ConfirmedIsRead
  Completes
