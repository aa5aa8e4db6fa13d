\* Liveness of the broadcast: two connections, the first of which may stop
\* reading, requests at any moment, and a configuration that changes once.
CONSTANTS
  c1 = c1
  c2 = c2
  Conns = {c1, c2}
  Frames = {}
  Requests = {"sendConfig"}
  Version = 1
  MaxInbox = 1
  MaxConfig = 1
  Stalling = {c1}
SPECIFICATION FairSpec
CHECK_DEADLOCK FALSE
PROPERTIES BroadcastsServed
