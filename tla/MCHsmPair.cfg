CONSTANTS
  a = a
  b = b
  fb = fb
  fc = fc
  Hsm = {a, b}
  Requesters = {a}
  Slot = {s0, s1}
  Slot0 = s0
  File = {fb, fc}
  Named = {fb, fc}
  GroupOf <- MCGroupOf
  Groups = {1, 2, 3}
  PermsOf <- MCPermsOf
  MaxPerms = 2
  GroupMod = 4
  MayRestart = TRUE
  Junk = Junk
  Damaged = Damaged
  None = None
SPECIFICATION FairSpec
CHECK_DEADLOCK FALSE
INVARIANTS
  TypeOK
  AnswerIsPeers
  OnlyHostFiles
PROPERTY
  ExchangeEnds
