CONSTANTS
  MaxTime = 4
  InitialPeriod = 2
  SyncTime = 10
  MaxBase = 0
  MaxTimers = 4
  Second = 3
  Periods = {2, 3}
SPECIFICATION Spec
INVARIANTS OneActive DeadlineCovers StopHolds
PROPERTY TimeMonotonic
CHECK_DEADLOCK FALSE
