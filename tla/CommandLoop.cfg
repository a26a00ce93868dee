CONSTANT
  None = None
SPECIFICATION FairSpec
INVARIANTS
  TypeOK
  OnlyOwnPin
  FreshRandom
PROPERTIES
  GuessesApart
  Serves
