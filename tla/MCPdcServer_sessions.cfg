\* Two connections that start and stop their streams, ask for a CFG3 this
\* version does not have, or leave, while the application starts and stops all
\* streams and shuts the PDC down.  One unread frame per connection.
CONSTANTS
  c1 = c1
  c2 = c2
  Conns = {c1, c2}
  Frames = {"START_RTD", "KILL_RTD", "SEND_CFG3"}
  Requests = {"startRTD", "stopRTD"}
  Version = 1
  MaxInbox = 1
  MaxConfig = 0
  Stalling = {}
SPECIFICATION Spec
SYMMETRY Symmetry
CHECK_DEADLOCK FALSE
INVARIANTS TypeOK LateFramesBounded QuietAfterShutdown
PROPERTIES RefinesSession
