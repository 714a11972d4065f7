SPECIFICATION Spec
CONSTANTS
  f1 = f1  f2 = f2  f3 = f3
  tcp = tcp  udp = udp  d1 = d1
  None = None
  Fds = {f1, f2, f3}
  Sources = {tcp, udp}
  Tcp = {tcp}
  Cells = {d1}
  MaxAddrs = 2
  MaxDepth = 2
SYMMETRY Symmetry
INVARIANTS CloseIsScheduledOnce StoppedSourceHasNoConnections
  StoppedLoopHasStoppedSources
PROPERTIES ContractSpec NoOpenWhileStopping
CHECK_DEADLOCK FALSE
