\* A number that no int holds
CONSTANTS
  MaxPort = 3
  MaxInt = 4
  MaxNumber = 5
  Requests <- OneOrTwoRequests
SPECIFICATION Spec
INVARIANTS
  MatchesAreInts
CHECK_DEADLOCK FALSE
