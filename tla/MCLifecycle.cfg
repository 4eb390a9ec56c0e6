SPECIFICATION LifecycleSpec
CONSTANTS
  RowEvery = 2
  BacktestEvery = 3
  MaxSamples = 7
  Workers = {w1, w2}
  Callers = {c1, c2}
  MaxTasks = 2
  MaxCalls = 4
INVARIANTS
  SamplesWhileConnected
  RowsSaved
  CountIsAccepted
PROPERTIES
  SessionEnds
  DestructorReturns
CHECK_DEADLOCK FALSE
