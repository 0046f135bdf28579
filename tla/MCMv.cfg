SPECIFICATION FairSpec
CONSTANTS
  a = a
  b = b
  x = x
  y = y
  NoFile = NoFile
  Name <- MCName
  Spelling <- MCSpelling
  Dir <- MCDir
  Real <- MCReal
  Unit <- MCUnit
  Initial <- MCInitial
  MaxLen = 3
  SameVolume <- TwoVolumes
  Growing <- MCGrowing
  Faults = {"open", "read source", "write", "corrupt", "remove"}
  Invocations <- SafeCalls
CHECK_DEADLOCK FALSE
INVARIANTS
  TypeOK
  NothingLost
  EveryByteVerified
  ExitStatusHonest
PROPERTIES
  RemovedOnlyWhenSaved
  MovesAtomically
  Termination
