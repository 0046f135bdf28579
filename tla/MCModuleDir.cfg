SPECIFICATION Spec
CONSTANTS
  p = p
  q = q
  mod = mod
  tiny = tiny
  dev = dev
  file = file
  NoFile = NoFile
  Object <- MCObject
  File <- MCFile
  Present <- MCPresent
  NewDevice <- MCNewDevice
  Small <- MCSmall
  Process <- Two
  Jobs <- PassingJobs
  Faults = {"link", "load", "unlink", "open", "delete", "create", "write"}
  MaxRuns = 3
CHECK_DEADLOCK FALSE
INVARIANTS
  TypeOK
  CountExact
  SaveHonest
PROPERTIES
  OldFilesKept
