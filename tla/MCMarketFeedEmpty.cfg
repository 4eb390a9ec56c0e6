SPECIFICATION Spec
CONSTANTS
  Prices = {1, 2}
  Quantities = {1}
  MaxLevels = 2
  SnapshotLimit = 2
  MaxChanges = 1
INVARIANT EmptyBookReturnsZero
CHECK_DEADLOCK FALSE
