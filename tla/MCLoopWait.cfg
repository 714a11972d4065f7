SPECIFICATION Spec
CONSTANTS
  f1 = f1  f2 = f2  f3 = f3
  Fds = {f1, f2, f3}
  None = None
  Remote = Remote
  MaxTime = 1
  Timeout = 2
SYMMETRY Symmetry
INVARIANTS NoLostWakeup SleepIsBounded OneSelfPipe
PROPERTIES PassSpec
CHECK_DEADLOCK FALSE
