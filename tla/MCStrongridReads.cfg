CONSTANTS
  c1 = c1
  c2 = c2
  Conns = {c1, c2}
  NoConn = NoConn
  DllConns = {c1, c2}
  MaxPdc = 1
  MaxConfig = 1
  MaxStream = 1
  MaxPending = 1
  Channels <- MCChannels
SPECIFICATION ReadSpec
CHECK_DEADLOCK FALSE
INVARIANTS
  ReadInv
  GettersInBounds
  LabviewChecksLengths
CONSTRAINT Bound
