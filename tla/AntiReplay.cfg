CONSTANTS
  Pair = {p1, p2, p3, p4}
  NonceCacheSlots = 2
  Empty = Empty
  None = None
  Sender = {a, b, c}
  ReplayCtrSlots = 2
  CtrMod = 3
  Unused = Unused
SPECIFICATION TablesSpec
INVARIANTS
  NonceTypeOK
  TypeOK
  AcceptedOnce
  RefusedOnlyStale
PROPERTY
  ImplementsRecentNonces
