\* The verification of an Upload that replaces a file: one call at a time
CONSTANTS
  Proc = {p1}
  Disk = {d1}
  NoDisk = NoDisk
  RetryAttempts = 2
  MaxFaults = 0
SPECIFICATION Spec
INVARIANTS
  UploadedIsVisible
CHECK_DEADLOCK FALSE
