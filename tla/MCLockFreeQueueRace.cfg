SPECIFICATION Spec
CONSTANTS
  Producers = {p1}
  Consumers = {c1}
  Items = {a}
  NoItem = NoItem
  Capacity = 2
  IndexMod = 16
  MaxPush = 4
INVARIANT SlotReuseIsOrdered
