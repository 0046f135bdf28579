SPECIFICATION FairSpec
CONSTANTS
  a = a
  b = b
  x = x
  y = y
  NoFile = NoFile
  Name <- MCName
  Spelling <- MCSpelling
  Dir <- MCDir
  Real <- MCReal
  Unit <- MCUnit
  Initial <- MCInitial
  MaxLen = 3
  Growing <- MCGrowing
  Faults = {"open", "memory", "write", "corrupt"}
  Invocations <- AllCalls
CHECK_DEADLOCK FALSE
INVARIANTS
  TypeOK
  VerifiedCopiesWhole
  OldTargetsKept
PROPERTIES
  SourcesKept
  Termination
