\* The director's lock works
CONSTANTS
  Proc = {p1, p2}
  VM = {v1, v2}
  Disk = {d1}
  NoVM = NoVM
  NoDisk = NoDisk
  MaxFaults = 3
  Overlap = {}
SPECIFICATION Spec
SYMMETRY Symmetry
INVARIANTS
  TypeOK
  KnownIsComplete
  MountedOnce
  MountedHasImage
CHECK_DEADLOCK FALSE
