SPECIFICATION FairSpec
CONSTANTS
  x = x
  y = y
  last = last
  none = none
  Block <- MCBlock
  Short <- MCShort
  Files <- MCFiles
  Wrap = 4
  Faults = {"open", "write", "send", "receive", "server", "loss"}
CHECK_DEADLOCK FALSE
INVARIANTS
  TypeOK
  PutWhole
PROPERTIES
  TftpTransfers
  Termination
