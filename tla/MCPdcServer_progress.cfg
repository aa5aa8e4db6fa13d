\* Liveness with two connections that send whole and half frames, leave or stop
\* reading at any moment: commands, connections and Shutdown make progress.
CONSTANTS
  c1 = c1
  c2 = c2
  Conns = {c1, c2}
  Frames = {"SEND_CFG", "PARTIAL"}
  Requests = {}
  Version = 1
  MaxInbox = 1
  MaxConfig = 0
  Stalling = {}
SPECIFICATION FairSpec
CHECK_DEADLOCK FALSE
PROPERTIES CommandsServed ConnectionsServed ShutdownEndsOrHangs
