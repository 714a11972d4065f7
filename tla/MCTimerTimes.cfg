SPECIFICATION FairSpec
CONSTANTS
  MaxId = 1
  MaxTime = 8
  Intervals <- TimesIntervals
  BaseTimes <- TimesBaseTimes
  NoBase = NoBase
  DeviateMax = 10
INVARIANTS WellFormed OnceRunsOnce InPhase
PROPERTIES DueTimerServed
CHECK_DEADLOCK FALSE
