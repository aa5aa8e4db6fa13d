CONSTANTS
  c1 = c1
  c2 = c2
  Conns = {c1, c2}
  NoConn = NoConn
  DllConns = {c1}
  MaxPdc = 1
  MaxConfig = 1
  MaxStream = 1
  MaxPending = 1
SPECIFICATION FairSpec
CHECK_DEADLOCK FALSE
INVARIANTS
  StreamInv
  DecodedAsEncoded
  ConsoleInStep
PROPERTIES
  FreshReplies
  CallsReturn
  ConsoleReceives
