CONSTANTS
  empty = empty
  block = block
  long = long
  End = {a, b}
  Packet = {empty, block, long}
  Size <- MCSize
  Block = 2
  Limit = {2, 5}
  MayRestart = FALSE
  MayOverrun = FALSE
  None = None
  Mangled = Mangled
SPECIFICATION Spec
CHECK_DEADLOCK FALSE
INVARIANTS
  OneBlockAhead
