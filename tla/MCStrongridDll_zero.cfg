\* One thread connects until the cursor wraps.
CONSTANTS
  t1 = t1
  a = a
  b = b
  c = c
  f = f
  g = g
  h = h
  Threads = {t1}
  Clients = {a, b, c}
  Fds = {f, g, h}
  MaxClients = 3
  None = None
SPECIFICATION DllSpec
CHECK_DEADLOCK FALSE
INVARIANTS
  HeldIdsAccepted
