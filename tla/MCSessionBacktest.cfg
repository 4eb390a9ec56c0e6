SPECIFICATION Spec
CONSTANTS
  RowEvery = 2
  BacktestEvery = 3
  MaxSamples = 3
INVARIANT BacktestOnAccumulatedData
CHECK_DEADLOCK FALSE
