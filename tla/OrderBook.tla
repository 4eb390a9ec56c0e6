------------------------------ MODULE OrderBook -----------------------------
(***************************************************************************)
(* OrderBook (include/OrderBook.h, src/OrderBook.cpp): two arrays of price *)
(* levels kept sorted best-first, with their counts.  The bid and the ask  *)
(* half of the code differ only in the direction of one comparison, so the *)
(* side is a parameter here.  Prices and quantities are the parsed numbers *)
(* of the exchange's strings; a level is one pass of the loops of          *)
(* init_from_snapshot and apply_depth_update.                              *)
(***************************************************************************)
EXTENDS Integers, FiniteSets

CONSTANTS
  Prices,      \* prices the exchange quotes
  Quantities,  \* non-zero quantities
  MaxLevels    \* MAX_LEVELS

ASSUME BookAssumption ==
  /\ Prices \subseteq Nat \ {0}
  /\ Quantities \subseteq Nat \ {0}
  /\ MaxLevels \in Nat \ {0}

Sides == {"bid", "ask"}
Slots == 0..(MaxLevels - 1)
EmptyLevel == [price |-> 0, qty |-> 0]
Level == [price : Prices \cup {0}, qty : Quantities \cup {0}]

VARIABLES
  book,    \* bids_ and asks_
  count    \* bid_count_ and ask_count_

bookVars == <<book, count>>

BookInit ==
  /\ book = [s \in Sides |-> [i \in Slots |-> EmptyLevel]]
  /\ count = [s \in Sides |-> 0]

\* Price p is nearer the top of side s than q.
Better(s, p, q) == IF s = "bid" THEN p > q ELSE p < q

\* i is where the linear search for a price stops.
FoundAt(s, price, i) ==
  /\ i \in 0..(count[s] - 1)
  /\ book[s][i].price = price
  /\ \A j \in 0..(i - 1) : book[s][j].price # price

Absent(s, price) == \A i \in 0..(count[s] - 1) : book[s][i].price # price

\* Mutant: a new level goes last.
InsertLast(s, price, qty) ==
  /\ book' = [book EXCEPT ![s][count[s]] = [price |-> price, qty |-> qty]]
  /\ count' = [count EXCEPT ![s] = count[s] + 1]

\* insert_bid, insert_ask: behind every better level, the rest moves down.
Insert(s, price, qty) ==
  \E i \in 0..count[s] :
    /\ \A j \in 0..(i - 1) : Better(s, book[s][j].price, price)
    /\ i < count[s] => ~Better(s, book[s][i].price, price)
    /\ book' = [book EXCEPT ![s] = [j \in Slots |->
         IF j = i THEN [price |-> price, qty |-> qty]
         ELSE IF i < j /\ j <= count[s] THEN book[s][j - 1]
         ELSE book[s][j]]]
    /\ count' = [count EXCEPT ![s] = count[s] + 1]

\* Mutant: the levels behind the erased one go with it.
EraseFrom(s, i) ==
  /\ count' = [count EXCEPT ![s] = i]
  /\ UNCHANGED book

\* erase_bid, erase_ask: the slot behind the last level keeps its content.
Erase(s, i) ==
  /\ book' = [book EXCEPT ![s] = [j \in Slots |->
       IF i <= j /\ j < count[s] - 1 THEN book[s][j + 1] ELSE book[s][j]]]
  /\ count' = [count EXCEPT ![s] = count[s] - 1]

\* init_from_snapshot forgets the levels by their counts only.
Reset ==
  /\ count' = [s \in Sides |-> 0]
  /\ UNCHANGED book

\* One level of a snapshot.  There is no search: the exchange lists a price
\* once.
HasSpace(s) == count[s] < MaxLevels

LoadLevel(s, price, qty) ==
  \/ HasSpace(s) /\ Insert(s, price, qty)
  \/ ~HasSpace(s) /\ UNCHANGED bookVars

\* One level of a depth update.
RemoveLevel(s, price) ==
  \/ \E i \in Slots : FoundAt(s, price, i) /\ Erase(s, i)
  \/ Absent(s, price) /\ UNCHANGED bookVars

\* Mutant: a known level keeps its quantity.
SetQuantityIgnored(s, price, qty) ==
  /\ \E i \in Slots : FoundAt(s, price, i)
  /\ UNCHANGED bookVars

SetQuantity(s, price, qty) ==
  \E i \in Slots :
    /\ FoundAt(s, price, i)
    /\ book' = [book EXCEPT ![s][i].qty = qty]
    /\ UNCHANGED count

AddLevel(s, price, qty) ==
  /\ Absent(s, price)
  /\ LoadLevel(s, price, qty)

UpdateLevel(s, price, qty) ==
  \/ qty = 0 /\ RemoveLevel(s, price)
  \/ qty # 0 /\ (SetQuantity(s, price, qty) \/ AddLevel(s, price, qty))

BookNext ==
  \/ Reset
  \/ \E s \in Sides, p \in Prices, q \in Quantities : Absent(s, p) /\ LoadLevel(s, p, q)
  \/ \E s \in Sides, p \in Prices, q \in Quantities \cup {0} : UpdateLevel(s, p, q)

BookSpec == BookInit /\ [][BookNext]_bookVars

\* get_best_bid, get_best_ask.
Best(s) == book[s][0].price
-----------------------------------------------------------------------------
\* Quantity the book shows for a price, 0 if it has no such level.
QuantityAt(s, price) ==
  IF Absent(s, price) THEN 0
  ELSE LET i == CHOOSE k \in 0..(count[s] - 1) : book[s][k].price = price
       IN  book[s][i].qty

BookTypeOK ==
  /\ book \in [Sides -> [Slots -> Level]]
  /\ count \in [Sides -> 0..MaxLevels]

\* Levels in use are strictly sorted best-first (so no price is listed twice)
\* and real: the erasures and insertions of a long run of depth updates never
\* leave a hole, a duplicate or a zero level behind.
BookSorted ==
  \A s \in Sides :
    /\ \A i, j \in 0..(count[s] - 1) : i < j => Better(s, book[s][i].price, book[s][j].price)
    /\ \A i \in 0..(count[s] - 1) : book[s][i].price \in Prices /\ book[s][i].qty \in Quantities

\* The arrays implement a map from price to quantity.
Depth == [s \in Sides |-> [p \in Prices |-> QuantityAt(s, p)]]
Map == INSTANCE LevelMap WITH depth <- Depth
ImplementsLevelMap == Map!Spec
=============================================================================
