SPECIFICATION ReplaySpec
CONSTANTS
  Oversold = 30
  Overbought = 70
  TradePrices = {1, 3, 4}
  Volumes = {1}
  MaxSamples = 4
  SmaWindow = 2
  RsiWindow = 2
  RowEvery = 1
  MaxFeed = 4
  MaxRuns = 0
INVARIANT RsiFollowsPrices
CHECK_DEADLOCK FALSE
