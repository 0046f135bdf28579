SPECIFICATION Spec
CONSTANTS
  p = p
  q = q
  mod = mod
  tiny = tiny
  dev = dev
  file = file
  NoFile = NoFile
  Object <- MCObject
  File <- MCFile
  Present <- MCPresent
  NewDevice <- MCNewDevice
  Small <- MCSmall
  Process <- One
  Jobs <- UnlinkJobs
  Faults = {}
  MaxRuns = 2
CHECK_DEADLOCK FALSE
PROPERTIES
  Releases
