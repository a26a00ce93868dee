CONSTANTS
  f1 = f1
  f2 = f2
  f3 = f3
  MaxFileCount = 2
  FilePageCount = 2
  File = {f1, f2}
  Uuid = {u1}
  Pages <- MCPages
  SparePages = 0
  MaxCopy = 2
  FlashMayFail = TRUE
  Erased = Erased
  Garbage = Garbage
  NoEntry = NoEntry
  BadEntry = BadEntry
  None = None
SPECIFICATION Spec
PROPERTIES
  ZeroMeansStored
