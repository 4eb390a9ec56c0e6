SPECIFICATION Spec
CONSTANTS
  RowEvery = 2
  BacktestEvery = 3
  MaxSamples = 2
INVARIANT ConnectButtonSurvives
CHECK_DEADLOCK FALSE
