SPECIFICATION Spec
CONSTANTS
  Producers = {p1, p2}
  Consumers = {c1}
  Items = {a, b}
  NoItem = NoItem
  Capacity = 2
  IndexMod = 16
  MaxPush = 3
INVARIANT NoItemLost
