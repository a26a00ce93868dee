CONSTANT Word <- MCWord
SPECIFICATION FairSpec
INVARIANTS
  TypeOK
  TripKept
PROPERTIES
  NoCommandAfterTrip
  TrippedLocks
  UntrippedServes
