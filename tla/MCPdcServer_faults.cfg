\* Two connections, the first of which may stop reading; queries, half frames and
\* frames the server rejects; broadcasts of the configuration.
CONSTANTS
  c1 = c1
  c2 = c2
  Conns = {c1, c2}
  Frames = {"SEND_CFG", "SEND_CFG3", "PARTIAL", "OTHER"}
  Requests = {"sendConfig"}
  Version = 2
  MaxInbox = 1
  MaxConfig = 0
  Stalling = {c1}
SPECIFICATION Spec
CHECK_DEADLOCK FALSE
INVARIANTS IndInv NoDanglingPointers CleanBetweenTicks EventsMatchClients
PROPERTIES OnlyFaultyDropped
