SPECIFICATION FairSpec
CONSTANTS
  Byte <- MCByte
  Files <- MCFiles
  Buffer = 2
  Window = 3
  Faults = {"killed", "send", "recv", "read", "write", "close", "listen", "accept", "connect"}
CHECK_DEADLOCK FALSE
INVARIANTS
  TypeOK
PROPERTIES
  TcpTransfers
  BothEnd
