SPECIFICATION FairSpec
CONSTANTS
  Size = 3
  Ticks = {a, b}
  NoTick = NoTick
  MaxPush = 4
INVARIANTS
  NoSlotRace
  AvailableIsUsable
  StopLetsOneIn
PROPERTIES
  ImplementsBoundedQueue
  EveryTickProcessed
CHECK_DEADLOCK FALSE
