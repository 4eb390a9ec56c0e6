SPECIFICATION PoolFairSpec
CONSTANTS
  Workers = {w1}
  Callers = {c1}
  MaxTasks = 2
  MaxCalls = 2
PROPERTY WaitAllReturns
CHECK_DEADLOCK FALSE
