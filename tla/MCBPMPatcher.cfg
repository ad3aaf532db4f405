\* Files with and without volumes, two faults
CONSTANTS
  Token <- Tokens
  Original <- Originals
  MaxFaults = 2
SPECIFICATION Spec
INVARIANTS
  TypeOK
  PatchedAtMostOnce
  WorkersDrop
  NoneMissing
  WorkersHaveDev
