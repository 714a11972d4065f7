SPECIFICATION FairSpec
CONSTANTS
  MaxId = 2
  MaxTime = 5
  Intervals = {2, 4}
  BaseTimes = {}
  NoBase = NoBase
  DeviateMax = 1
INVARIANTS Partition NeverAheadOfInterval
PROPERTIES NeverRunsAfterRemove RemovedIsFreed NoBurst
CHECK_DEADLOCK FALSE
