\* Two processes, two disks, two attempts, one fault
CONSTANTS
  Proc = {p1, p2}
  Disk = {d1, d2}
  NoDisk = NoDisk
  RetryAttempts = 2
  MaxFaults = 1
SPECIFICATION FairSpec
INVARIANTS
  TypeOK
  CreatedIsReadable
  FetchedIsWhole
  NamedAsTold
PROPERTIES
  EveryCallEnds
CHECK_DEADLOCK FALSE
