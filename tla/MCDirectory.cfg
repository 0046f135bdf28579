SPECIFICATION FairSpec
CONSTANTS
  v = v
  w = w
  Writer <- Two
  Name <- MCName
  MaxDepth = 2
  MaxSlots = 4
  Situations <- MCSituations
  BlockSize = 2
  DataDir <- MCDataDir
  ExecDir <- MCExecDir
  Content <- MCContent
  Address <- MCAddress
  MaxSwaps = 2
  MaxModules = 2
  Faults <- MCFaults
CHECK_DEADLOCK FALSE
INVARIANTS
  TypeOK
  QidReportsStable
  DirListsStable
  MakdirHonest
PROPERTIES
  DeletedOnlyOnYes
  Termination
