SPECIFICATION LibrarySpec
SYMMETRY Symmetry
CONSTANTS
  Sides = {bid, ask}
  OrderIds = {x, y}
  Prices = {1, 2}
  Leftover = {0, 1}
  Levels = 3
  MaxOrders = 4
  Quotes = {3, 5, 6, 9, 10}
  Cent = 4
  PackedLevels = 3
  Keys = {1, 2, 3, 4}
  Values = {v, u}
  NoValue = NoValue
  TableSize = 2
  MaxInserts = 4
  MaxSeq = 3
  Garbage = {0, 2, 9}
  MaxPackets = 6
  Traders = {t1, t2, t3}
  Sizes <- SmallSizes
  OrderPrices = {0, 3}
  Scale = 2
  MaxSell = 4
  MaxOrder = 2
  MaxPosition = 2
  MaxLoss = 3
  MaxFills = 5
  Param <- SmallParam
  Thresholds <- SmallThresholds
  TimeMod = 8
  Offered <- SmallOffered
  MaxTicks <- SmallMaxTicks
  MaxResets = 2
  Mids = {0, 3, 5}
  Vwaps = {2, 7}
  Divisors = {2, 4}
  Unit = 4096
  HistoryMax = 3
  MaxFrames = 6
INVARIANTS
  NoOrderLosesLevel
  LevelsAreOrders
  BitmaskBest
  FindsLastStored
  DeliversNewest
  LimitsOvershoot
  LongSignalsAlternate
  WindowsHoldNewest
  ChartLines
PROPERTY
  PositionFollowsIndicator
CHECK_DEADLOCK FALSE
