\* One connection, made while the PDC is being shut down.
CONSTANTS
  c1 = c1
  Conns = {c1}
  Frames = {"START_RTD"}
  Requests = {}
  Version = 1
  MaxInbox = 1
  MaxConfig = 0
  Stalling = {}
SPECIFICATION FairSpec
CHECK_DEADLOCK FALSE
PROPERTIES ShutdownStopsTcpServer
