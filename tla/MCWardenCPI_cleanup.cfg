\* The clean-up after a failed create_vm against its description
CONSTANTS
  Proc = {p1}
  VM = {v1}
  Disk = {d1}
  NoVM = NoVM
  NoDisk = NoDisk
  MaxFaults = 1
  Overlap = {}
SPECIFICATION Spec
PROPERTIES
  CleanUpDestroys
CHECK_DEADLOCK FALSE
