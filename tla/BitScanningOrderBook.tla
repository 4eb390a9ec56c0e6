------------------------ MODULE BitScanningOrderBook -------------------------
(***************************************************************************)
(* BitScanningOrderBook of include/HFT.h: an order takes the first free    *)
(* level of its side, whose mask has a bit per level in use; removing an   *)
(* order looks its level up by price.  Quantities travel with the prices   *)
(* and are left out.                                                       *)
(***************************************************************************)
EXTENDS Integers, FiniteSetsExt, Sequences

CONSTANTS
  Sides,      \* bids and asks
  OrderIds,
  Prices,
  Leftover,   \* prices that memory may hold before it is written
  Levels,     \* MAX_PRICE_LEVELS
  MaxOrders   \* MAX_ORDERS

ASSUME BitBookAssumption ==
  /\ Prices \subseteq Nat \ {0}
  /\ Leftover \subseteq Nat
  /\ Levels \in Nat
  /\ MaxOrders \in Nat

VARIABLES
  level,    \* bid_levels_, ask_levels_: price of each level, in use or not
  mask,     \* bid_bitmask_, ask_bitmask_: levels in use
  count,    \* bid_count_, ask_count_
  orders,   \* orders_, in the order they came, removed ones included
  shared    \* history: sides where live orders have shared a price since reset

bitVars == <<level, mask, count, orders, shared>>

Slots == 1..Levels

\* The constructor leaves the levels as it finds them; only reset fills them.
BitInit ==
  /\ level \in [Sides -> [Slots -> Leftover]]
  /\ mask = [s \in Sides |-> {}]
  /\ count = [s \in Sides |-> 0]
  /\ orders = << >>
  /\ shared = {}

Live(s, p) == {i \in DOMAIN orders : orders[i].live /\ orders[i].side = s /\ orders[i].price = p}
InUse(s, p) == {l \in mask[s] : level[s][l] = p}
-----------------------------------------------------------------------------
ResetBook ==
  /\ level' = [s \in Sides |-> [l \in Slots |-> 0]]
  /\ mask' = [s \in Sides |-> {}]
  /\ count' = [s \in Sides |-> 0]
  /\ orders' = << >>
  /\ shared' = {}

\* Mutant: the mask is not consulted.
FreeSlotsAll(s) == Slots
FreeSlots(s) == Slots \ mask[s]

\* Refused when orders_ or the side is full.
AddOrder(id, p, s) ==
  /\ Len(orders) < MaxOrders
  /\ FreeSlots(s) # {}
  /\ LET l == Min(FreeSlots(s))
     IN  /\ level' = [level EXCEPT ![s][l] = p]
         /\ mask' = [mask EXCEPT ![s] = @ \cup {l}]
  /\ count' = [count EXCEPT ![s] = @ + 1]
  /\ orders' = Append(orders, [id |-> id, price |-> p, side |-> s, live |-> TRUE])
  /\ shared' = IF Live(s, p) = {} THEN shared ELSE shared \cup {s}

\* Mutant: an order that was removed is found again.
FoundDead(id) == {i \in DOMAIN orders : orders[i].id = id}
Found(id) == {i \in DOMAIN orders : orders[i].id = id /\ orders[i].live}

\* The first level with the price is freed, also when it is not in use.
RemoveOrder(id) ==
  /\ Found(id) # {}
  /\ LET i == Min(Found(id))
         s == orders[i].side
         matching == {l \in Slots : level[s][l] = orders[i].price}
     IN  /\ orders' = [orders EXCEPT ![i].live = FALSE]
         /\ IF matching = {} THEN UNCHANGED <<mask, count>>
            ELSE /\ mask' = [mask EXCEPT ![s] = @ \ {Min(matching)}]
                 /\ count' = [count EXCEPT ![s] = @ - 1]
  /\ UNCHANGED <<level, shared>>

BitNext ==
  \/ ResetBook
  \/ \E id \in OrderIds, p \in Prices, s \in Sides : AddOrder(id, p, s)
  \/ \E id \in OrderIds : RemoveOrder(id)

BitSpec == BitInit /\ [][BitNext]_bitVars
-----------------------------------------------------------------------------
\* Freeing a level by price may free another order's, or one not in use, but
\* at every price there are always as many levels as live orders.
NoOrderLosesLevel ==
  \A s \in Sides, p \in Prices : Cardinality(InUse(s, p)) >= Cardinality(Live(s, p))

\* As long as no two live orders of a side had the same price, its levels are
\* exactly its live orders, and the count is their number.
LevelsAreOrders ==
  \A s \in Sides \ shared :
    /\ \A p \in Prices : Cardinality(InUse(s, p)) = Cardinality(Live(s, p))
    /\ count[s] = Cardinality(mask[s])
=============================================================================
