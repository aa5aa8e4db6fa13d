\* Two threads and more clients than slots, so that the table can be full; the
\* first slot is never freed; freed memory and descriptors are used first.  No
\* symmetry, for the liveness.  Nothing runs after dllshutdown.
CONSTANTS
  t1 = t1
  t2 = t2
  a = a
  b = b
  c = c
  d = d
  f = f
  g = g
  Threads = {t1, t2}
  Clients = {a, b, c, d}
  Fds = {f, g}
  MaxClients = 3
  None = None
SPECIFICATION DllFairSpec
CHECK_DEADLOCK FALSE
INVARIANTS
  DllInv
  NoCrash
  IdsIdentifyClients
  PollListMatchesTable
ACTION_CONSTRAINT FirstFree
PROPERTIES
  RefinesHandles
  CallsReturn
