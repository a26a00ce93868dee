CONSTANTS
  f1 = f1
  f2 = f2
  f3 = f3
  MaxFileCount = 2
  FilePageCount = 2
  File = {f2, f3}
  Uuid = {u1, u2}
  Pages <- MCPages
  SparePages = 1
  MaxCopy = 3
  FlashMayFail = FALSE
  Erased = Erased
  Garbage = Garbage
  NoEntry = NoEntry
  BadEntry = BadEntry
  None = None
SYMMETRY MCSymmetry
SPECIFICATION Spec
INVARIANTS
  AckedUnlessFatCut
  FatCoherent
PROPERTIES
  ZeroMeansStored
  WritesStayInSlot
  ImplementsSlotStore
