SPECIFICATION FairSpec
CONSTANTS
  Producers = {p1}
  Consumers = {c1}
  Items = {a, b}
  NoItem = NoItem
  Capacity = 2
  IndexMod = 16
  MaxPush = 4
INVARIANTS
  DeliveredInOrder
  NoSlotRace
  SizeIsUsable
PROPERTIES
  ImplementsBoundedQueue
  EveryItemDelivered
