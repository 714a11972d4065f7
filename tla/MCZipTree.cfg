SPECIFICATION Spec
CONSTANTS
  Elems = {1, 2, 3, 4}
  Times = {1, 2}
  Null = 0
  Unset = 0
INVARIANT SoundTrees
PROPERTY TimeQueueSpec
CHECK_DEADLOCK FALSE
