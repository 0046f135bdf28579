SPECIFICATION Spec
CONSTANTS
  NoFile = NoFile
  Damaged = Damaged
  Word = 1073741824
  Calls <- MCCalls
  Directories <- MCDirectories
  FileNames = {"d0", "d1", "d2", "d3", "P", "R"}
  Images <- SmallImages
  Faults = {"open", "create", "write"}
CHECK_DEADLOCK FALSE
INVARIANTS
  TypeOK
  DescriptorsFit
  OldKept
  GptRefused
  GeometryCovers
