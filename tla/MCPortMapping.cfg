\* Ports up to 3 among numbers up to 5, an int up to 4
CONSTANTS
  MaxPort = 3
  MaxInt = 4
  MaxNumber = 5
  Requests <- OneOrTwoRequests
SPECIFICATION Spec
INVARIANTS
  TypeOK
  PortsArrive
  AcceptsExactly
CHECK_DEADLOCK FALSE
