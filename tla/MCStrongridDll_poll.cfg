\* One thread polls while another disconnects and connects again.
CONSTANTS
  t1 = t1
  t2 = t2
  a = a
  b = b
  f = f
  g = g
  Threads = {t1, t2}
  Clients = {a, b}
  Fds = {f, g}
  MaxClients = 3
  None = None
SPECIFICATION DllSpec
CHECK_DEADLOCK FALSE
SYMMETRY Symmetry
INVARIANTS
  PollsConnected
