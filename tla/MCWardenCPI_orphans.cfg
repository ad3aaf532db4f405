\* Two disks of one VM, orphaned delete_vm calls, repeated deletions
CONSTANTS
  Proc = {p1, p2}
  VM = {v1}
  Disk = {d1, d2}
  NoVM = NoVM
  NoDisk = NoDisk
  MaxFaults = 2
  Overlap = {"delete_vm"}
SPECIFICATION DisksSpec
INVARIANTS
  BeliefTrue
  DeletedMeansGone
PROPERTIES
  DestroyedFirst
  DeletionConverges
CHECK_DEADLOCK FALSE
