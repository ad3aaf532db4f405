\* Tarballs that are expanded or unzipped: two processes, two ids
CONSTANTS
  Id = {i1, i2}
  NoId = NoId
  Light = Light
  Proc = {p1, p2}
  Expand = {TRUE, FALSE}
  MaxFaults = 2
SPECIFICATION FairSpec
INVARIANTS
  TypeOK
  UsedIsWhole
  DeletedIsGone
PROPERTIES
  DeletionConverges
CHECK_DEADLOCK FALSE
