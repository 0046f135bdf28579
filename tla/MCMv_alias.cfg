SPECIFICATION Spec
CONSTANTS
  a = a
  b = b
  x = x
  y = y
  NoFile = NoFile
  Name <- MCName
  Spelling <- MCSpelling
  Dir <- MCDir
  Real <- MCReal
  Unit <- MCUnit
  Initial <- MCInitial
  MaxLen = 3
  SameVolume <- OneVolume
  Growing = {}
  Faults = {}
  Invocations <- AliasCalls
CHECK_DEADLOCK FALSE
PROPERTIES
  RemovedOnlyWhenSaved
