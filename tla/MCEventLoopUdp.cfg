SPECIFICATION Spec
CONSTANTS
  f1 = f1  f2 = f2  f3 = f3
  tcp = tcp  udp = udp  d1 = d1
  None = None
  Fds = {f1, f2}
  Sources = {udp}
  Tcp = {}
  Cells = {}
  MaxAddrs = 1
  MaxDepth = 2
INVARIANTS NoStaleEvent
CHECK_DEADLOCK FALSE
