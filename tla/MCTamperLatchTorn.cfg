CONSTANT Word <- MCWord
SPECIFICATION Spec
INVARIANT TornTripFailsSafe
