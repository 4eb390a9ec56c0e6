SPECIFICATION DataSpec
CONSTANTS
  Prices = {1, 2, 3}
  Quantities = {1, 2}
  MaxLevels = 2
  SnapshotLimit = 2
  MaxChanges = 3
  Oversold = 30
  Overbought = 70
  TradePrices = {1, 3, 4}
  Volumes = {1}
  MaxSamples = 4
  SmaWindow = 2
  RsiWindow = 2
  RowEvery = 1
  MaxFeed = 5
  MaxRuns = 2
INVARIANTS
  BookSorted
  TracksExchange
  TopOfBook
  CrossingsAlternate
  TradesDisjoint
  ProfitIsEquity
  RerunAgrees
  ReplayHidesOnly
PROPERTY ImplementsLevelMap
CHECK_DEADLOCK FALSE
