\* A worker entry cut in two by one failure or death
CONSTANTS
  Token <- Tokens
  Original <- Originals
  MaxFaults = 1
SPECIFICATION Spec
INVARIANTS
  EveryWorkerDrops
