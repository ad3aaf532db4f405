\* Two VMs with two mappings each, two processes
CONSTANTS
  Proc = {p1, p2}
  VM = {v1, v2}
  NoVM = NoVM
  Each = 2
  Mappings <- SameMappings
  Attempts = 2
  MaxFaults = 3
SPECIFICATION FairSpec
INVARIANTS
  TypeOK
  AllOrNothing
  RemovedMeansGone
PROPERTIES
  OnlyOwnRules
  EveryCallEnds
  RemovalConverges
  ImplementsPorts
CHECK_DEADLOCK FALSE
