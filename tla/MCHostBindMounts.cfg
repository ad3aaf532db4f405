\* Orphaned processes: deletions and detaches of one VM overlap
CONSTANTS
  Proc = {p1, p2}
  VM = {v1}
  Disk = {d1, d2}
  NoVM = NoVM
  NoDisk = NoDisk
  Attempts = 2
  MaxFaults = 2
  Overlap = {"DeleteEphemeral", "DeletePersistent", "UnmountPersistent"}
SPECIFICATION FairSpec
INVARIANTS
  TypeOK
  NoDiskLost
  EphemeralRemovable
  AnswersTrue
PROPERTIES
  EveryCallEnds
  DeletesConverge
  ImplementsBindMounts
CHECK_DEADLOCK FALSE
