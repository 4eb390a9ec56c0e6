-------------------------- MODULE MarketFeedProofs --------------------------
(***************************************************************************)
(* First the book: for every set of prices and every MAX_LEVELS, the       *)
(* arrays of OrderBook stay sorted without duplicates and implement a map  *)
(* from price to quantity.  Then its feed: it uses the book as OrderBook   *)
(* expects, and the book follows the exchange except at the levels in      *)
(* missed, for every exchange and every snapshot limit.                    *)
(***************************************************************************)
EXTENDS MarketFeed, FiniteSetTheorems, TLAPS

-----------------------------------------------------------------------------
(***************************************************************************)
(* The order book                                                          *)
(***************************************************************************)
BookInv == BookTypeOK /\ BookSorted

LEMMA InitBookInv == BookInit => BookInv
BY BookAssumption DEF BookInit, BookInv, BookTypeOK, BookSorted, Level, EmptyLevel, Sides

LEMMA ResetBookInv == BookInv /\ Reset => BookInv'
BY BookAssumption DEF Reset, BookInv, BookTypeOK, BookSorted

\* insert_bid and insert_ask keep the order, if there is room and the price is
\* new.
LEMMA InsertBookInv ==
  ASSUME BookInv, NEW s \in Sides, NEW p \in Prices, NEW q \in Quantities,
         Absent(s, p), HasSpace(s), Insert(s, p, q)
  PROVE  BookInv'
<1> USE BookAssumption
<1>1. PICK i \in 0..count[s] :
        /\ \A j \in 0..(i - 1) : Better(s, book[s][j].price, p)
        /\ i < count[s] => ~Better(s, book[s][i].price, p)
        /\ book' = [book EXCEPT ![s] = [j \in Slots |->
             IF j = i THEN [price |-> p, qty |-> q]
             ELSE IF i < j /\ j <= count[s] THEN book[s][j - 1]
             ELSE book[s][j]]]
        /\ count' = [count EXCEPT ![s] = count[s] + 1]
  BY DEF Insert
<1>2. /\ count[s] \in Nat /\ count[s] < MaxLevels /\ i \in Slots
      /\ book[s] \in [Slots -> Level] /\ p \in Nat
  BY DEF BookInv, BookTypeOK, HasSpace, Slots
<1>3. /\ book'[s] \in [Slots -> Level]
      /\ \A j \in 0..count[s] : book'[s][j] =
           IF j = i THEN [price |-> p, qty |-> q]
           ELSE IF i < j THEN book[s][j - 1] ELSE book[s][j]
      /\ count'[s] = count[s] + 1
  BY <1>1, <1>2 DEF BookInv, BookTypeOK, Level, Slots
<1>4. \A t \in Sides \ {s} : book'[t] = book[t] /\ count'[t] = count[t]
  BY <1>1 DEF BookInv, BookTypeOK
<1>5. BookTypeOK'
  BY <1>1, <1>2, <1>3, <1>4 DEF BookInv, BookTypeOK
<1>6. \A j \in i..(count[s] - 1) : Better(s, p, book[s][j].price)
  <2>1. \A j \in 0..(count[s] - 1) : book[s][j].price \in Nat /\ book[s][j].price # p
    BY DEF BookInv, BookSorted, Absent
  <2>2. i < count[s] => Better(s, p, book[s][i].price)
    BY <1>1, <1>2, <2>1 DEF Better
  <2> QED BY <1>1, <1>2, <2>1, <2>2 DEF BookInv, BookSorted, Better
<1>7. BookSorted'
  <2>1. \A j \in 0..count[s] : book'[s][j].price \in Prices /\ book'[s][j].qty \in Quantities
    BY <1>1, <1>2, <1>3 DEF BookInv, BookSorted
  <2>2. \A j, k \in 0..count[s] :
          j < k => Better(s, book'[s][j].price, book'[s][k].price)
    <3> SUFFICES ASSUME NEW j \in 0..count[s], NEW k \in 0..count[s], j < k
                 PROVE  Better(s, book'[s][j].price, book'[s][k].price)
      OBVIOUS
    <3>1. CASE k < i
      BY <1>2, <1>3, <3>1 DEF BookInv, BookSorted
    <3>2. CASE k = i
      BY <1>1, <1>2, <1>3, <3>2
    <3>3. CASE i < k /\ j = i
      BY <1>2, <1>3, <1>6, <3>3
    <3>4. CASE i < k /\ j < i
      <4>1. k - 1 \in 0..(count[s] - 1) /\ j \in 0..(count[s] - 1) /\ j < k - 1
        BY <1>2, <3>4
      <4> QED BY <1>2, <1>3, <3>4, <4>1 DEF BookInv, BookSorted
    <3>5. CASE i < k /\ i < j
      <4>1. k - 1 \in 0..(count[s] - 1) /\ j - 1 \in 0..(count[s] - 1) /\ j - 1 < k - 1
        BY <1>2, <3>5
      <4> QED BY <1>2, <1>3, <3>5, <4>1 DEF BookInv, BookSorted
    <3> QED BY <1>1, <1>2, <3>1, <3>2, <3>3, <3>4, <3>5
  <2>3. ASSUME NEW t \in Sides \ {s}
        PROVE  /\ \A j, k \in 0..(count'[t] - 1) :
                    j < k => Better(t, book'[t][j].price, book'[t][k].price)
               /\ \A j \in 0..(count'[t] - 1) :
                    book'[t][j].price \in Prices /\ book'[t][j].qty \in Quantities
    BY <1>4 DEF BookInv, BookSorted
  <2> QED BY <1>2, <1>3, <2>1, <2>2, <2>3 DEF BookSorted
<1> QED BY <1>5, <1>7 DEF BookInv

\* erase_bid and erase_ask close the gap.
LEMMA EraseBookInv ==
  ASSUME BookInv, NEW s \in Sides, NEW i \in 0..(count[s] - 1), Erase(s, i)
  PROVE  BookInv'
<1> USE BookAssumption
<1>1. /\ count[s] \in Nat /\ count[s] \in 1..MaxLevels
      /\ book[s] \in [Slots -> Level]
  BY DEF BookInv, BookTypeOK
<1>2. /\ book'[s] \in [Slots -> Level]
      /\ \A j \in 0..(count[s] - 2) : book'[s][j] =
           IF i <= j THEN book[s][j + 1] ELSE book[s][j]
      /\ count'[s] = count[s] - 1
  BY <1>1 DEF Erase, BookInv, BookTypeOK, Slots
<1>3. \A t \in Sides \ {s} : book'[t] = book[t] /\ count'[t] = count[t]
  BY DEF Erase, BookInv, BookTypeOK
<1>4. BookTypeOK'
  BY <1>1, <1>2, <1>3 DEF Erase, BookInv, BookTypeOK
<1>5. BookSorted'
  <2>1. \A j \in 0..(count[s] - 2) : \E k \in 0..(count[s] - 1) :
          book'[s][j] = book[s][k] /\ (k = IF i <= j THEN j + 1 ELSE j)
    BY <1>1, <1>2
  <2>2. \A j, k \in 0..(count[s] - 2) :
          j < k => Better(s, book'[s][j].price, book'[s][k].price)
    BY <1>1, <2>1 DEF BookInv, BookSorted
  <2>3. \A j \in 0..(count[s] - 2) :
          book'[s][j].price \in Prices /\ book'[s][j].qty \in Quantities
    BY <1>1, <2>1 DEF BookInv, BookSorted
  <2> QED BY <1>1, <1>2, <1>3, <2>2, <2>3 DEF BookInv, BookSorted
<1> QED BY <1>4, <1>5 DEF BookInv

LEMMA SetQuantityBookInv ==
  ASSUME BookInv, NEW s \in Sides, NEW p \in Prices, NEW q \in Quantities,
         SetQuantity(s, p, q)
  PROVE  BookInv'
<1>1. PICK i \in Slots : /\ FoundAt(s, p, i)
                         /\ book' = [book EXCEPT ![s][i].qty = q]
                         /\ count' = count
  BY DEF SetQuantity
<1>2. /\ book'[s] = [book[s] EXCEPT ![i] = [book[s][i] EXCEPT !.qty = q]]
      /\ \A t \in Sides \ {s} : book'[t] = book[t]
      /\ book[s] \in [Slots -> Level]
  BY <1>1 DEF BookInv, BookTypeOK
<1>3. /\ book'[s] \in [Slots -> Level]
      /\ \A j \in Slots : book'[s][j].price = book[s][j].price
      /\ \A j \in Slots : book'[s][j].qty = IF j = i THEN q ELSE book[s][j].qty
  BY <1>1, <1>2 DEF Level
<1>4. BookTypeOK'
  BY <1>1, <1>2, <1>3 DEF BookInv, BookTypeOK
<1>5. 0..(count[s] - 1) \subseteq Slots
  BY BookAssumption DEF BookInv, BookTypeOK, Slots
<1>6. BookSorted'
  BY <1>1, <1>2, <1>3, <1>5 DEF BookInv, BookSorted
<1> QED BY <1>4, <1>6 DEF BookInv

LEMMA UpdateLevelBookInv ==
  ASSUME BookInv, NEW s \in Sides, NEW p \in Prices, NEW q \in Quantities \cup {0},
         UpdateLevel(s, p, q)
  PROVE  BookInv'
<1>1. CASE UNCHANGED bookVars
  BY <1>1 DEF bookVars, BookInv, BookTypeOK, BookSorted
<1>2. ASSUME NEW i \in Slots, FoundAt(s, p, i), Erase(s, i) PROVE BookInv'
  BY <1>2, EraseBookInv DEF FoundAt
<1>3. CASE q # 0 /\ SetQuantity(s, p, q)
  BY <1>3, SetQuantityBookInv
<1>4. CASE q # 0 /\ Absent(s, p) /\ HasSpace(s) /\ Insert(s, p, q)
  BY <1>4, InsertBookInv
<1> QED BY <1>1, <1>2, <1>3, <1>4 DEF UpdateLevel, RemoveLevel, AddLevel, LoadLevel

LEMMA NextBookInv == BookInv /\ [BookNext]_bookVars => BookInv'
<1> SUFFICES ASSUME BookInv, [BookNext]_bookVars PROVE BookInv'
  OBVIOUS
<1>1. CASE Reset
  BY <1>1, ResetBookInv
<1>2. ASSUME NEW s \in Sides, NEW p \in Prices, NEW q \in Quantities,
             Absent(s, p), LoadLevel(s, p, q)
      PROVE  BookInv'
  <2>1. CASE UNCHANGED bookVars
    BY <2>1 DEF bookVars, BookInv, BookTypeOK, BookSorted
  <2>2. CASE HasSpace(s) /\ Insert(s, p, q)
    BY <1>2, <2>2, InsertBookInv
  <2> QED BY <1>2, <2>1, <2>2 DEF LoadLevel
<1>3. ASSUME NEW s \in Sides, NEW p \in Prices, NEW q \in Quantities \cup {0},
             UpdateLevel(s, p, q)
      PROVE  BookInv'
  BY <1>3, UpdateLevelBookInv
<1>4. CASE UNCHANGED bookVars
  BY <1>4 DEF bookVars, BookInv, BookTypeOK, BookSorted
<1> QED BY <1>1, <1>2, <1>3, <1>4 DEF BookNext

\* The arrays keep their types: no index leaves 0..MAX_LEVELS-1.
THEOREM BookTypeCorrect == BookSpec => []BookTypeOK
<1>1. BookInv => BookTypeOK
  BY DEF BookInv
<1> QED BY <1>1, InitBookInv, NextBookInv, PTL DEF BookSpec

\* After any sequence of snapshots and depth updates the levels in use are
\* strictly sorted best-first.
THEOREM BookStaysSorted == BookSpec => []BookSorted
<1>1. BookInv => BookSorted
  BY DEF BookInv
<1> QED BY <1>1, InitBookInv, NextBookInv, PTL DEF BookSpec
-----------------------------------------------------------------------------
(***************************************************************************)
(* The quantity shown for each price, before and after each operation.     *)
(***************************************************************************)
QuantityFacts ==
  \A s \in Sides, p \in Prices :
    /\ Absent(s, p) => QuantityAt(s, p) = 0
    /\ \A i \in 0..(count[s] - 1) :
         book[s][i].price = p => QuantityAt(s, p) = book[s][i].qty

LEMMA QuantityIsListed == BookInv => QuantityFacts
<1> SUFFICES ASSUME BookInv, NEW s \in Sides, NEW p \in Prices
             PROVE  /\ Absent(s, p) => QuantityAt(s, p) = 0
                    /\ \A i \in 0..(count[s] - 1) :
                         book[s][i].price = p => QuantityAt(s, p) = book[s][i].qty
  BY DEF QuantityFacts
<1>1. ASSUME NEW i \in 0..(count[s] - 1), book[s][i].price = p
      PROVE  QuantityAt(s, p) = book[s][i].qty
  <2> DEFINE k == CHOOSE j \in 0..(count[s] - 1) : book[s][j].price = p
  <2>1. k \in 0..(count[s] - 1) /\ book[s][k].price = p
    BY <1>1
  <2>2. QuantityAt(s, p) = book[s][k].qty
    BY <1>1 DEF QuantityAt, Absent
  <2> HIDE DEF k
  <2>3. k = i
    <3>1. p \in Nat /\ count[s] \in Nat
      BY BookAssumption DEF BookInv, BookTypeOK
    <3>2. ~(k < i) /\ ~(i < k)
      BY <1>1, <2>1, <3>1 DEF BookInv, BookSorted, Better
    <3> QED BY <1>1, <2>1, <3>1, <3>2
  <2> QED BY <2>2, <2>3
<1> QED BY <1>1 DEF QuantityAt

LEMMA QuantityIsListedNext == BookInv' => QuantityFacts'
BY QuantityIsListed, PTL

\* The book shows q for price p of side s after a step and is otherwise as it was.
ShowsNow(s, p, q) ==
  \A t \in Sides, r \in Prices :
    QuantityAt(t, r)' = IF t = s /\ r = p THEN q ELSE QuantityAt(t, r)

LEMMA SameSide ==
  ASSUME NEW t \in Sides, NEW r \in Prices, book'[t] = book[t], count'[t] = count[t]
  PROVE  QuantityAt(t, r)' = QuantityAt(t, r)
BY DEF QuantityAt, Absent

LEMMA InsertShows ==
  ASSUME BookInv, BookInv', NEW s \in Sides, NEW p \in Prices, NEW q \in Quantities,
         HasSpace(s), Insert(s, p, q)
  PROVE  ShowsNow(s, p, q)
<1>1. PICK i \in 0..count[s] :
        /\ book' = [book EXCEPT ![s] = [j \in Slots |->
             IF j = i THEN [price |-> p, qty |-> q]
             ELSE IF i < j /\ j <= count[s] THEN book[s][j - 1]
             ELSE book[s][j]]]
        /\ count' = [count EXCEPT ![s] = count[s] + 1]
  BY DEF Insert
<1>2. /\ count[s] \in Nat /\ count[s] < MaxLevels /\ MaxLevels \in Nat
  BY BookAssumption DEF BookInv, BookTypeOK, HasSpace
<1>3. /\ count'[s] = count[s] + 1
      /\ \A j \in 0..count[s] : book'[s][j] =
           IF j = i THEN [price |-> p, qty |-> q]
           ELSE IF i < j THEN book[s][j - 1] ELSE book[s][j]
  BY <1>1, <1>2 DEF BookInv, BookTypeOK, Slots
<1>4. QuantityFacts /\ QuantityFacts'
  BY QuantityIsListed, QuantityIsListedNext
<1>5. QuantityAt(s, p)' = q
  <2>1. book'[s][i].price = p /\ book'[s][i].qty = q
    BY <1>3
  <2> QED BY <1>2, <1>3, <1>4, <2>1 DEF QuantityFacts
<1>6. ASSUME NEW r \in Prices \ {p} PROVE QuantityAt(s, r)' = QuantityAt(s, r)
  <2>1. CASE Absent(s, r)
    <3>1. \A j \in 0..count[s] : book'[s][j].price # r
      BY <1>2, <1>3, <2>1 DEF Absent
    <3>2. Absent(s, r)'
      BY <1>2, <1>3, <3>1 DEF Absent
    <3> QED BY <1>4, <2>1, <3>2 DEF QuantityFacts
  <2>2. ASSUME NEW j \in 0..(count[s] - 1), book[s][j].price = r
        PROVE  QuantityAt(s, r)' = QuantityAt(s, r)
    <3> DEFINE k == IF j < i THEN j ELSE j + 1
    <3>1. k \in 0..count[s] /\ book'[s][k] = book[s][j]
      BY <1>2, <1>3
    <3>2. k \in 0..(count'[s] - 1)
      BY <1>2, <1>3, <3>1
    <3> HIDE DEF k
    <3> QED BY <1>4, <2>2, <3>1, <3>2 DEF QuantityFacts
  <2> QED BY <2>1, <2>2 DEF Absent
<1>7. \A t \in Sides \ {s} : book'[t] = book[t] /\ count'[t] = count[t]
  BY <1>1 DEF BookInv, BookTypeOK
<1> QED BY <1>5, <1>6, <1>7, SameSide DEF ShowsNow

LEMMA EraseShows ==
  ASSUME BookInv, BookInv', NEW s \in Sides, NEW p \in Prices,
         NEW i \in Slots, FoundAt(s, p, i), Erase(s, i)
  PROVE  ShowsNow(s, p, 0)
<1>1. /\ count[s] \in Nat /\ count[s] \in 1..MaxLevels /\ i \in 0..(count[s] - 1)
      /\ book[s][i].price = p /\ MaxLevels \in Nat
  BY BookAssumption DEF BookInv, BookTypeOK, FoundAt
<1>2. /\ count'[s] = count[s] - 1
      /\ \A j \in 0..(count[s] - 2) : book'[s][j] =
           IF i <= j THEN book[s][j + 1] ELSE book[s][j]
  BY <1>1 DEF Erase, BookInv, BookTypeOK, Slots
<1>3. QuantityFacts /\ QuantityFacts'
  BY QuantityIsListed, QuantityIsListedNext
<1>4. \A j \in 0..(count[s] - 1) : j # i => book[s][j].price # p
  <2>1. p \in Nat
    BY BookAssumption
  <2> QED BY <1>1, <2>1 DEF BookInv, BookSorted, Better
<1>5. QuantityAt(s, p)' = 0
  <2>1. \A j \in 0..(count[s] - 2) : book'[s][j].price # p
    BY <1>1, <1>2, <1>4
  <2>2. Absent(s, p)'
    BY <1>1, <1>2, <2>1 DEF Absent
  <2> QED BY <1>3, <2>2 DEF QuantityFacts
<1>6. ASSUME NEW r \in Prices \ {p} PROVE QuantityAt(s, r)' = QuantityAt(s, r)
  <2>1. CASE Absent(s, r)
    <3>1. \A j \in 0..(count[s] - 2) : book'[s][j].price # r
      BY <1>1, <1>2, <2>1 DEF Absent
    <3>2. Absent(s, r)'
      BY <1>1, <1>2, <3>1 DEF Absent
    <3> QED BY <1>3, <2>1, <3>2 DEF QuantityFacts
  <2>2. ASSUME NEW j \in 0..(count[s] - 1), book[s][j].price = r
        PROVE  QuantityAt(s, r)' = QuantityAt(s, r)
    <3> DEFINE k == IF j < i THEN j ELSE j - 1
    <3>1. k \in 0..(count[s] - 2) /\ book'[s][k] = book[s][j]
      BY <1>1, <1>2, <1>6, <2>2
    <3>2. k \in 0..(count'[s] - 1)
      BY <1>1, <1>2, <3>1
    <3> HIDE DEF k
    <3> QED BY <1>3, <2>2, <3>1, <3>2 DEF QuantityFacts
  <2> QED BY <2>1, <2>2 DEF Absent
<1>7. \A t \in Sides \ {s} : book'[t] = book[t] /\ count'[t] = count[t]
  BY DEF Erase, BookInv, BookTypeOK
<1> QED BY <1>5, <1>6, <1>7, SameSide DEF ShowsNow

LEMMA SetQuantityShows ==
  ASSUME BookInv, BookInv', NEW s \in Sides, NEW p \in Prices, NEW q \in Quantities,
         SetQuantity(s, p, q)
  PROVE  ShowsNow(s, p, q)
<1>1. PICK i \in Slots : /\ FoundAt(s, p, i)
                         /\ book' = [book EXCEPT ![s][i].qty = q]
                         /\ count' = count
  BY DEF SetQuantity
<1>2. /\ book'[s] = [book[s] EXCEPT ![i] = [book[s][i] EXCEPT !.qty = q]]
      /\ \A t \in Sides \ {s} : book'[t] = book[t]
      /\ book[s] \in [Slots -> Level]
  BY <1>1 DEF BookInv, BookTypeOK
<1>3. /\ \A j \in Slots : book'[s][j].price = book[s][j].price
      /\ \A j \in Slots : book'[s][j].qty = IF j = i THEN q ELSE book[s][j].qty
      /\ 0..(count[s] - 1) \subseteq Slots
  BY <1>1, <1>2, BookAssumption DEF BookInv, BookTypeOK, Level, Slots
<1>4. QuantityFacts /\ QuantityFacts'
  BY QuantityIsListed, QuantityIsListedNext
<1>5. i \in 0..(count[s] - 1) /\ book[s][i].price = p
  BY <1>1 DEF FoundAt
<1>6. QuantityAt(s, p)' = q
  BY <1>1, <1>3, <1>4, <1>5 DEF QuantityFacts
<1>7. ASSUME NEW r \in Prices \ {p} PROVE QuantityAt(s, r)' = QuantityAt(s, r)
  <2>1. CASE Absent(s, r)
    <3>1. Absent(s, r)'
      BY <1>1, <1>3, <2>1 DEF Absent
    <3> QED BY <1>4, <2>1, <3>1 DEF QuantityFacts
  <2>2. ASSUME NEW j \in 0..(count[s] - 1), book[s][j].price = r
        PROVE  QuantityAt(s, r)' = QuantityAt(s, r)
    <3>1. book'[s][j].price = r /\ book'[s][j].qty = book[s][j].qty
      BY <1>3, <1>5, <1>7, <2>2
    <3> QED BY <1>1, <1>4, <2>2, <3>1 DEF QuantityFacts
  <2> QED BY <2>1, <2>2 DEF Absent
<1>8. \A t \in Sides \ {s} : book'[t] = book[t] /\ count'[t] = count[t]
  BY <1>1, <1>2
<1> QED BY <1>6, <1>7, <1>8, SameSide DEF ShowsNow
-----------------------------------------------------------------------------
(***************************************************************************)
(* Refinement of LevelMap.                                                 *)
(***************************************************************************)
LEMMA ShowsNowSetsDepth ==
  ASSUME NEW s \in Sides, NEW p \in Prices, NEW q \in Quantities \cup {0},
         ShowsNow(s, p, q)
  PROVE  Depth' = [Depth EXCEPT ![s][p] = q]
BY DEF Depth, ShowsNow

\* A side that is not full quotes fewer than MaxLevels prices.
LEMMA QuotedBelowMax ==
  ASSUME BookInv, NEW s \in Sides, HasSpace(s)
  PROVE  Cardinality(Map!Quoted(s)) < MaxLevels
<1> DEFINE used == 0..(count[s] - 1)
           T == {book[s][i].price : i \in used}
           f == [i \in used |-> book[s][i].price]
<1>1. count[s] \in Nat /\ count[s] < MaxLevels /\ MaxLevels \in Nat
  BY BookAssumption DEF BookInv, BookTypeOK, HasSpace
<1>2. IsFiniteSet(used) /\ Cardinality(used) = count[s]
  <2>1. 0 \in Int /\ count[s] - 1 \in Int
    BY <1>1
  <2>2. /\ IsFiniteSet(used)
        /\ Cardinality(used) = IF 0 > count[s] - 1 THEN 0 ELSE (count[s] - 1) - 0 + 1
    BY <2>1, FS_Interval, Zenon
  <2> QED BY <1>1, <2>2
<1>3. f \in Surjection(used, T)
  BY DEF Surjection
<1>4. IsFiniteSet(T) /\ Cardinality(T) <= count[s]
  <2> HIDE DEF f, T, used
  <2> QED BY <1>2, <1>3, FS_Surjection
<1>5. Map!Quoted(s) \in SUBSET T
  <2> SUFFICES ASSUME NEW p \in Prices, Depth[s][p] # 0 PROVE p \in T
    BY DEF Map!Quoted
  <2>1. QuantityAt(s, p) # 0
    BY DEF Depth
  <2>2. ~Absent(s, p)
    BY <2>1 DEF QuantityAt
  <2> QED BY <2>2 DEF Absent
<1>6. Cardinality(Map!Quoted(s)) <= Cardinality(T) /\ IsFiniteSet(Map!Quoted(s))
  <2> HIDE DEF T
  <2> QED BY <1>4, <1>5, FS_Subset
<1>7. Cardinality(Map!Quoted(s)) \in Nat /\ Cardinality(T) \in Nat
  <2> HIDE DEF T
  <2> QED BY <1>4, <1>6, FS_CardinalityType
<1> HIDE DEF T
<1> QED BY <1>1, <1>4, <1>6, <1>7

LEMMA SameBookSameDepth ==
  UNCHANGED bookVars => Depth' = Depth
BY DEF bookVars, Depth, QuantityAt, Absent

LEMMA UpdateSetsDepth ==
  ASSUME BookInv, BookInv', NEW s \in Sides, NEW p \in Prices,
         NEW q \in Quantities \cup {0}, UpdateLevel(s, p, q)
  PROVE  [Map!Next]_Depth
<1>1. CASE UNCHANGED bookVars
  BY <1>1, SameBookSameDepth
<1>2. ASSUME NEW i \in Slots, q = 0, FoundAt(s, p, i), Erase(s, i)
      PROVE  Map!SetLevel(s, p, q)
  <2>1. ShowsNow(s, p, q)
    BY <1>2, EraseShows
  <2>2. Depth' = [Depth EXCEPT ![s][p] = q]
    BY <2>1, ShowsNowSetsDepth
  <2> QED BY <1>2, <2>2 DEF Map!SetLevel
<1>3. ASSUME q # 0, SetQuantity(s, p, q) PROVE Map!SetLevel(s, p, q)
  <2>1. PICK i \in Slots : FoundAt(s, p, i)
    BY <1>3 DEF SetQuantity
  <2>2. i \in 0..(count[s] - 1) /\ book[s][i].price = p
    BY <2>1 DEF FoundAt
  <2>3. book[s][i].qty # 0
    BY <2>2, BookAssumption DEF BookInv, BookSorted
  <2>4. QuantityAt(s, p) # 0
    BY <2>2, <2>3, QuantityIsListed DEF QuantityFacts
  <2>5. p \in Map!Quoted(s)
    BY <2>4 DEF Map!Quoted, Depth
  <2> QED BY <1>3, <2>5, SetQuantityShows, ShowsNowSetsDepth DEF Map!SetLevel
<1>4. ASSUME q # 0, HasSpace(s), Insert(s, p, q) PROVE Map!SetLevel(s, p, q)
  <2>1. ShowsNow(s, p, q)
    BY <1>4, InsertShows
  <2>2. Depth' = [Depth EXCEPT ![s][p] = q]
    BY <2>1, ShowsNowSetsDepth
  <2>3. Cardinality(Map!Quoted(s)) < MaxLevels
    BY <1>4, QuotedBelowMax
  <2> QED BY <2>2, <2>3 DEF Map!SetLevel, Map!Cardinality, Cardinality
<1>5. Map!SetLevel(s, p, q) => Map!Next
  BY DEF Map!Next
<1> QED BY <1>1, <1>2, <1>3, <1>4, <1>5
        DEF UpdateLevel, RemoveLevel, AddLevel, LoadLevel

LEMMA NextImplementsMap ==
  BookInv /\ BookInv' /\ [BookNext]_bookVars => [Map!Next]_Depth
<1> SUFFICES ASSUME BookInv, BookInv', [BookNext]_bookVars PROVE [Map!Next]_Depth
  OBVIOUS
<1>1. CASE Reset
  <2>1. \A s \in Sides, p \in Prices : Absent(s, p)'
    BY <1>1 DEF Reset, Absent
  <2>2. \A s \in Sides, p \in Prices : QuantityAt(s, p)' = 0
    BY <2>1, QuantityIsListedNext DEF QuantityFacts
  <2> QED BY <2>2 DEF Map!Next, Map!Clear, Depth
<1>2. ASSUME NEW s \in Sides, NEW p \in Prices, NEW q \in Quantities,
             Absent(s, p), LoadLevel(s, p, q)
      PROVE  [Map!Next]_Depth
  <2>1. q # 0
    BY BookAssumption
  <2>2. UpdateLevel(s, p, q)
    BY <1>2, <2>1 DEF UpdateLevel, AddLevel
  <2> QED BY <2>2, UpdateSetsDepth
<1>3. ASSUME NEW s \in Sides, NEW p \in Prices, NEW q \in Quantities \cup {0},
             UpdateLevel(s, p, q)
      PROVE  [Map!Next]_Depth
  BY <1>3, UpdateSetsDepth
<1>4. CASE UNCHANGED bookVars
  BY <1>4, SameBookSameDepth
<1> QED BY <1>1, <1>2, <1>3, <1>4 DEF BookNext

\* The sorted arrays implement a map from price to quantity: a depth update sets
\* exactly the price it names, however the arrays are shifted.
THEOREM BookImplementsMap == BookSpec => ImplementsLevelMap
<1>1. BookInit => Map!Init
  <2> SUFFICES ASSUME BookInit PROVE Map!Init
    OBVIOUS
  <2>1. \A s \in Sides, p \in Prices : Absent(s, p)
    BY DEF BookInit, Absent
  <2>2. \A s \in Sides, p \in Prices : QuantityAt(s, p) = 0
    BY <2>1 DEF QuantityAt
  <2> QED BY <2>2 DEF Map!Init, Depth
<1> QED BY <1>1, InitBookInv, NextBookInv, NextImplementsMap, PTL
        DEF BookSpec, ImplementsLevelMap, Map!Spec
-----------------------------------------------------------------------------
(***************************************************************************)
(* The feed                                                                *)
(***************************************************************************)
Qty == Quantities \cup {0}

-----------------------------------------------------------------------------
(***************************************************************************)
(* Partial maps from levels to quantities: a message, the exchange's batch.*)
(***************************************************************************)
LEMMA PartialMapDef ==
  ASSUME NEW f
  PROVE  f \in PartialMaps <=> DOMAIN f \subseteq Keys /\ f \in [DOMAIN f -> Qty]
BY DEF PartialMaps, Qty

LEMMA NoLevelsMap == NoLevels \in PartialMaps /\ DOMAIN NoLevels = {}
<1>1. DOMAIN NoLevels = {}
  BY DEF NoLevels
<1> QED BY <1>1, PartialMapDef DEF NoLevels

LEMMA EmptyMap ==
  ASSUME NEW f \in PartialMaps
  PROVE  f = NoLevels <=> DOMAIN f = {}
<1>1. f \in [DOMAIN f -> Qty]
  BY PartialMapDef
<1> QED BY <1>1, NoLevelsMap DEF NoLevels

LEMMA WithoutMap ==
  ASSUME NEW f \in PartialMaps, NEW k
  PROVE  /\ Without(f, k) \in PartialMaps
         /\ DOMAIN Without(f, k) = DOMAIN f \ {k}
         /\ \A x \in DOMAIN f \ {k} : Without(f, k)[x] = f[x]
<1>1. DOMAIN f \subseteq Keys /\ f \in [DOMAIN f -> Qty]
  BY PartialMapDef
<1>2. /\ DOMAIN Without(f, k) = DOMAIN f \ {k}
      /\ \A x \in DOMAIN f \ {k} : Without(f, k)[x] = f[x]
      /\ Without(f, k) \in [DOMAIN f \ {k} -> Qty]
  BY <1>1 DEF Without
<1> QED BY <1>1, <1>2, PartialMapDef

LEMMA PutMap ==
  ASSUME NEW f \in PartialMaps, NEW k \in Keys, NEW v \in Qty
  PROVE  /\ Put(f, k, v) \in PartialMaps
         /\ DOMAIN Put(f, k, v) = DOMAIN f \cup {k}
         /\ Put(f, k, v)[k] = v
         /\ \A x \in DOMAIN f \ {k} : Put(f, k, v)[x] = f[x]
<1>1. DOMAIN f \subseteq Keys /\ f \in [DOMAIN f -> Qty]
  BY PartialMapDef
<1>2. /\ DOMAIN Put(f, k, v) = DOMAIN f \cup {k}
      /\ Put(f, k, v)[k] = v
      /\ \A x \in DOMAIN f \ {k} : Put(f, k, v)[x] = f[x]
      /\ Put(f, k, v) \in [DOMAIN f \cup {k} -> Qty]
  BY <1>1 DEF Put
<1> QED BY <1>1, <1>2, PartialMapDef

LEMMA TopMap ==
  ASSUME live \in [Keys -> Qty]
  PROVE  /\ [k \in Top(live) |-> live[k]] \in PartialMaps
         /\ Top(live) \subseteq Listed(live)
         /\ Listed(live) \subseteq Keys
<1>1. Top(live) \subseteq Listed(live) /\ Listed(live) \subseteq Keys
  BY DEF Top, Listed
<1>2. [k \in Top(live) |-> live[k]] \in [Top(live) -> Qty]
  BY <1>1
<1> QED BY <1>1, <1>2, PartialMapDef

-----------------------------------------------------------------------------
(***************************************************************************)
(* The inductive invariant                                                 *)
(***************************************************************************)
FeedTypeOK ==
  /\ phase \in {"start", "loading", "connecting", "open", "closed"}
  /\ msg \in PartialMaps
  /\ live \in [Keys -> Qty]
  /\ batch \in PartialMaps
  /\ inbox \in Seq(PartialMaps \ {NoLevels})
  /\ missed \in SUBSET Keys
  /\ changes \in 0..MaxChanges

\* Messages exist only while the connection is open; the book starts empty.
PhaseInv ==
  /\ phase # "open" => batch = NoLevels /\ inbox = << >>
  /\ phase \in {"start", "connecting", "closed"} => msg = NoLevels
  /\ phase = "start" => \A s \in Sides : count[s] = 0

\* A snapshot never lists what the book holds already.
LoadInv ==
  phase = "loading" =>
    \A k \in DOMAIN msg : Absent(k[1], k[2]) /\ msg[k] \in Quantities

\* The last word on a level, wherever it is under way, is the exchange's.
BatchInv == \A k \in DOMAIN batch : batch[k] = live[k]

InboxInv ==
  \A i \in 1..Len(inbox) : \A k \in DOMAIN inbox[i] :
    /\ k \notin DOMAIN batch
    /\ \A j \in 1..Len(inbox) : j > i => k \notin DOMAIN inbox[j]
    => inbox[i][k] = live[k]

MsgInv ==
  \A k \in DOMAIN msg :
    /\ k \notin DOMAIN batch
    /\ ~InInbox(k)
    /\ phase = "open" \/ k \notin missed
    => msg[k] = live[k]

FeedInv ==
  /\ BookInv
  /\ FeedTypeOK
  /\ PhaseInv
  /\ LoadInv
  /\ BatchInv
  /\ InboxInv
  /\ MsgInv
  /\ TracksExchange
-----------------------------------------------------------------------------
(***************************************************************************)
(* Every step preserves the invariant and is a step of OrderBook.          *)
(***************************************************************************)
LEMMA InInboxDef ==
  ASSUME NEW k, inbox \in Seq(PartialMaps \ {NoLevels})
  PROVE  InInbox(k) <=> \E i \in 1..Len(inbox) : k \in DOMAIN inbox[i]
BY DEF InInbox

LEMMA KeyParts ==
  ASSUME NEW k \in Keys
  PROVE  k[1] \in Sides /\ k[2] \in Prices /\ k = <<k[1], k[2]>>
BY DEF Keys

ZeroFacts ==
  \A s \in Sides, p \in Prices : Absent(s, p) <=> QuantityAt(s, p) = 0

LEMMA AbsentIffZero == BookInv => ZeroFacts
<1> SUFFICES ASSUME BookInv, NEW s \in Sides, NEW p \in Prices
             PROVE  Absent(s, p) <=> QuantityAt(s, p) = 0
  BY DEF ZeroFacts
<1>1. Absent(s, p) => QuantityAt(s, p) = 0
  BY QuantityIsListed DEF QuantityFacts
<1>2. ASSUME NEW i \in 0..(count[s] - 1), book[s][i].price = p
      PROVE  QuantityAt(s, p) # 0
  BY <1>2, QuantityIsListed, BookAssumption DEF QuantityFacts, BookInv, BookSorted
<1> QED BY <1>1, <1>2 DEF Absent

LEMMA AbsentIffZeroNext == BookInv' => ZeroFacts'
BY AbsentIffZero, PTL

LEMMA SameBookSameQuantity ==
  ASSUME UNCHANGED bookVars, NEW s, NEW p
  PROVE  QuantityAt(s, p)' = QuantityAt(s, p) /\ Absent(s, p)' = Absent(s, p)
BY DEF bookVars, QuantityAt, Absent

LEMMA InitFeedInv == Init => FeedInv
<1> SUFFICES ASSUME Init PROVE FeedInv
  OBVIOUS
<1>1. BookInv
  BY InitBookInv DEF Init
<1>2. FeedTypeOK
  BY NoLevelsMap, FeedAssumption DEF Init, FeedTypeOK, Qty
<1>3. PhaseInv
  BY DEF Init, PhaseInv, BookInit
<1>4. LoadInv /\ TracksExchange
  BY DEF Init, LoadInv, TracksExchange
<1>5. BatchInv /\ InboxInv /\ MsgInv
  BY NoLevelsMap DEF Init, BatchInv, InboxInv, MsgInv
<1> QED BY <1>1, <1>2, <1>3, <1>4, <1>5 DEF FeedInv

LEMMA ChangeInv ==
  ASSUME FeedInv, NEW k \in Keys, NEW q \in Qty, Change(k, q)
  PROVE  FeedInv' /\ UNCHANGED bookVars
<1> USE DEF Change, FeedInv
<1>0. UNCHANGED bookVars
  OBVIOUS
<1>1. BookInv'
  BY <1>0, NextBookInv
<1>a. batch \in PartialMaps
  BY DEF FeedTypeOK
<1>c. batch' \in PartialMaps
  <2>1. Put(batch, k, q) \in PartialMaps
    BY <1>a, PutMap
  <2> QED BY <1>a, <2>1
<1>2. FeedTypeOK'
  <2>1. live' \in [Keys -> Qty]
    BY DEF FeedTypeOK
  <2>2. missed' \in SUBSET Keys /\ changes' \in 0..MaxChanges
    BY FeedAssumption DEF FeedTypeOK
  <2> QED BY <1>c, <2>1, <2>2 DEF FeedTypeOK
<1>3. /\ DOMAIN batch \subseteq DOMAIN batch'
      /\ phase = "open" => k \in DOMAIN batch'
      /\ phase = "open" => batch'[k] = q
      /\ \A x \in DOMAIN batch' \ {k} : x \in DOMAIN batch /\ batch'[x] = batch[x]
      /\ phase # "open" => batch' = NoLevels /\ inbox = << >>
  <2>1. CASE phase = "open"
    <3>1. batch' = Put(batch, k, q)
      BY <2>1
    <3>2. /\ DOMAIN Put(batch, k, q) = DOMAIN batch \cup {k}
          /\ Put(batch, k, q)[k] = q
          /\ \A x \in DOMAIN batch \ {k} : Put(batch, k, q)[x] = batch[x]
      BY <1>a, PutMap
    <3>3. /\ DOMAIN batch' = DOMAIN batch \cup {k}
          /\ batch'[k] = q
          /\ \A x \in DOMAIN batch \ {k} : batch'[x] = batch[x]
      BY <3>1, <3>2
    <3> QED BY <2>1, <3>3
  <2>2. CASE phase # "open"
    BY <2>2, NoLevelsMap DEF PhaseInv
  <2> QED BY <2>1, <2>2
<1>4. live'[k] = q /\ \A x \in Keys \ {k} : live'[x] = live[x]
  BY DEF FeedTypeOK
<1>5. PhaseInv'
  BY <1>3 DEF PhaseInv, bookVars
<1>6. LoadInv'
  BY SameBookSameQuantity DEF LoadInv
<1>7. BatchInv'
  BY <1>3, <1>4, PartialMapDef, NoLevelsMap DEF BatchInv, FeedTypeOK
<1>8. InboxInv'
  <2>1. \A i \in 1..Len(inbox) : DOMAIN inbox[i] \subseteq Keys
    BY PartialMapDef DEF FeedTypeOK
  <2> QED BY <1>3, <1>4, <2>1 DEF InboxInv
<1>9. MsgInv'
  <2>1. DOMAIN msg \subseteq Keys
    BY PartialMapDef DEF FeedTypeOK
  <2>2. phase \in {"start", "connecting", "closed"} => DOMAIN msg = {}
    BY NoLevelsMap DEF PhaseInv
  <2> QED BY <1>3, <1>4, <2>1, <2>2 DEF MsgInv, FeedTypeOK, InInbox
<1>10. TracksExchange'
  BY <1>3, <1>4, SameBookSameQuantity DEF TracksExchange, Pending, InInbox, FeedTypeOK
<1> QED BY <1>0, <1>1, <1>2, <1>5, <1>6, <1>7, <1>8, <1>9, <1>10

LEMMA SendInv ==
  ASSUME FeedInv, Send
  PROVE  FeedInv' /\ UNCHANGED bookVars
<1> USE DEF Send, FeedInv
<1>0. UNCHANGED bookVars
  OBVIOUS
<1>1. BookInv'
  BY <1>0, NextBookInv
<1>2. FeedTypeOK'
  BY NoLevelsMap DEF FeedTypeOK
<1>3. /\ Len(inbox') = Len(inbox) + 1 /\ Len(inbox) \in Nat
      /\ \A i \in 1..Len(inbox) : inbox'[i] = inbox[i]
      /\ inbox'[Len(inbox) + 1] = batch
  BY DEF FeedTypeOK
<1>4. DOMAIN batch' = {}
  BY NoLevelsMap
<1>5. PhaseInv'
  BY DEF PhaseInv, bookVars
<1>6. LoadInv'
  BY SameBookSameQuantity DEF LoadInv
<1>7. BatchInv'
  BY <1>4 DEF BatchInv
<1>8. InboxInv'
  <2> SUFFICES ASSUME NEW i \in 1..(Len(inbox) + 1), NEW k \in DOMAIN inbox'[i],
                      \A j \in 1..(Len(inbox) + 1) : j > i => k \notin DOMAIN inbox'[j]
               PROVE  inbox'[i][k] = live[k]
    BY SMTT(30), <1>3 DEF InboxInv
  <2>1. CASE i = Len(inbox) + 1
    BY <1>3, <2>1 DEF BatchInv
  <2>2. CASE i \in 1..Len(inbox)
    <3>1. k \notin DOMAIN batch
      BY <1>3, <2>2
    <3>2. \A j \in 1..Len(inbox) : j > i => k \notin DOMAIN inbox[j]
      BY <1>3
    <3> QED BY <1>3, <2>2, <3>1, <3>2 DEF InboxInv
  <2> QED BY <1>3, <2>1, <2>2
<1>9. ASSUME NEW x PROVE /\ InInbox(x)' <=> InInbox(x) \/ x \in DOMAIN batch
                         /\ Pending(x)' <=> Pending(x)
  <2>1. InInbox(x)' <=> \E i \in 1..Len(inbox') : x \in DOMAIN inbox'[i]
    BY <1>2 DEF InInbox, FeedTypeOK
  <2>2. InInbox(x) <=> \E i \in 1..Len(inbox) : x \in DOMAIN inbox[i]
    BY InInboxDef DEF FeedTypeOK
  <2>3. InInbox(x)' <=> InInbox(x) \/ x \in DOMAIN batch
    BY <1>3, <2>1, <2>2
  <2> QED BY <1>4, <2>3 DEF Pending
<1>10. MsgInv'
  BY <1>9 DEF MsgInv
<1>11. TracksExchange'
  BY <1>9, SameBookSameQuantity DEF TracksExchange
<1> QED BY <1>0, <1>1, <1>2, <1>5, <1>6, <1>7, <1>8, <1>10, <1>11

\* Connecting, and what its handlers change, is only the phase.
LEMMA PhaseStepInv ==
  ASSUME FeedInv, Connect \/ OnOpen \/ OnFail
  PROVE  FeedInv' /\ UNCHANGED bookVars
<1> USE DEF Connect, OnOpen, OnFail, FeedInv
<1>1. UNCHANGED <<bookVars, msg, live, batch, inbox, missed, changes>>
  OBVIOUS
<1>2. BookInv'
  BY <1>1, NextBookInv
<1>3. /\ phase \in {"loading", "connecting"} /\ phase' \in {"connecting", "open", "closed"}
      /\ msg = NoLevels /\ DOMAIN msg = {} /\ batch = NoLevels /\ inbox = << >>
  BY NoLevelsMap DEF PhaseInv
<1>4. FeedTypeOK' /\ PhaseInv'
  BY <1>1, <1>3 DEF FeedTypeOK, PhaseInv
<1>5. LoadInv' /\ BatchInv' /\ InboxInv' /\ MsgInv'
  BY <1>1, <1>3 DEF LoadInv, BatchInv, InboxInv, MsgInv
<1>6. TracksExchange'
  BY <1>1, <1>3, SameBookSameQuantity DEF TracksExchange, Pending, InInbox
<1> QED BY <1>1, <1>2, <1>4, <1>5, <1>6

LEMMA OnMessageInv ==
  ASSUME FeedInv, OnMessage
  PROVE  FeedInv' /\ UNCHANGED bookVars
<1> USE DEF OnMessage, FeedInv
<1>0. UNCHANGED bookVars
  OBVIOUS
<1>1. BookInv'
  BY <1>0, NextBookInv
<1>2. /\ Len(inbox) \in Nat \ {0} /\ Len(inbox') = Len(inbox) - 1
      /\ msg' = inbox[1] /\ inbox[1] \in PartialMaps
      /\ \A i \in 1..Len(inbox') : inbox'[i] = inbox[i + 1]
      /\ inbox' \in Seq(PartialMaps \ {NoLevels})
  BY DEF FeedTypeOK
<1>3. DOMAIN msg = {}
  BY NoLevelsMap
<1>4. FeedTypeOK' /\ PhaseInv' /\ LoadInv' /\ BatchInv'
  BY <1>2 DEF FeedTypeOK, PhaseInv, LoadInv, BatchInv, bookVars
<1>5. InboxInv'
  <2> SUFFICES ASSUME NEW i \in 1..Len(inbox'), NEW k \in DOMAIN inbox'[i],
                      k \notin DOMAIN batch,
                      \A j \in 1..Len(inbox') : j > i => k \notin DOMAIN inbox'[j]
               PROVE  inbox'[i][k] = live[k]
    BY ZenonT(30) DEF InboxInv
  <2>1. i + 1 \in 1..Len(inbox) /\ k \in DOMAIN inbox[i + 1] /\ inbox'[i] = inbox[i + 1]
    BY <1>2
  <2>2. ASSUME NEW j \in 1..Len(inbox), j > i + 1 PROVE k \notin DOMAIN inbox[j]
    <3>1. j - 1 \in 1..Len(inbox') /\ j - 1 > i /\ (j - 1) + 1 = j
      BY <1>2, <2>2
    <3> QED BY <1>2, <3>1
  <2> QED BY <2>1, <2>2 DEF InboxInv
<1>6. ASSUME NEW x
      PROVE  /\ InInbox(x) <=> InInbox(x)' \/ x \in DOMAIN msg'
             /\ InInbox(x)' <=> \E i \in 2..Len(inbox) : x \in DOMAIN inbox[i]
  <2>1. InInbox(x)' <=> \E i \in 1..Len(inbox') : x \in DOMAIN inbox'[i]
    <3>1. DOMAIN inbox' = 1..Len(inbox')
      BY <1>2
    <3> QED BY <3>1 DEF InInbox
  <2>2. InInbox(x) <=> \E i \in 1..Len(inbox) : x \in DOMAIN inbox[i]
    BY InInboxDef DEF FeedTypeOK
  <2>3. ASSUME NEW i \in 2..Len(inbox), x \in DOMAIN inbox[i] PROVE InInbox(x)'
    <3>1. i - 1 \in 1..Len(inbox') /\ (i - 1) + 1 = i
      BY <1>2
    <3> QED BY <1>2, <2>1, <2>3, <3>1
  <2>4. ASSUME NEW i \in 1..Len(inbox'), x \in DOMAIN inbox'[i]
        PROVE  \E j \in 2..Len(inbox) : x \in DOMAIN inbox[j]
    <3>1. i + 1 \in 2..Len(inbox) /\ x \in DOMAIN inbox[i + 1]
      BY <1>2, <2>4
    <3> QED BY <3>1
  <2> QED BY <1>2, <2>1, <2>2, <2>3, <2>4
<1>7. MsgInv'
  <2> SUFFICES ASSUME NEW k \in DOMAIN msg', k \notin DOMAIN batch, ~InInbox(k)'
               PROVE  msg'[k] = live[k]
    BY DEF MsgInv
  <2>1. \A j \in 1..Len(inbox) : j > 1 => k \notin DOMAIN inbox[j]
    BY <1>2, <1>6
  <2> QED BY <1>2, <2>1 DEF InboxInv
<1>8. TracksExchange'
  BY <1>3, <1>6, SameBookSameQuantity DEF TracksExchange, Pending
<1> QED BY <1>0, <1>1, <1>4, <1>5, <1>7, <1>8

\* A level of an update sets what the book shows, unless a new price finds its
\* side full.
LEMMA UpdateShows ==
  ASSUME BookInv, BookInv', NEW s \in Sides, NEW p \in Prices, NEW q \in Qty,
         UpdateLevel(s, p, q)
  PROVE  \/ ShowsNow(s, p, q)
         \/ q # 0 /\ Absent(s, p) /\ ~HasSpace(s) /\ UNCHANGED bookVars
<1> USE DEF Qty
<1>1. CASE q = 0 /\ Absent(s, p) /\ UNCHANGED bookVars
  <2>1. QuantityAt(s, p) = 0
    BY <1>1, AbsentIffZero DEF ZeroFacts
  <2> QED BY <1>1, <2>1, SameBookSameQuantity DEF ShowsNow
<1>2. ASSUME q = 0, NEW i \in Slots, FoundAt(s, p, i), Erase(s, i)
      PROVE  ShowsNow(s, p, q)
  BY <1>2, EraseShows
<1>3. CASE q # 0 /\ SetQuantity(s, p, q)
  BY <1>3, SetQuantityShows
<1>4. CASE q # 0 /\ HasSpace(s) /\ Insert(s, p, q)
  BY <1>4, InsertShows
<1> QED BY <1>1, <1>2, <1>3, <1>4 DEF UpdateLevel, RemoveLevel, AddLevel, LoadLevel

LEMMA ApplyUpdateLevelInv ==
  ASSUME FeedInv, NEW k \in Keys, ApplyUpdateLevel(k)
  PROVE  FeedInv' /\ [BookNext]_bookVars
<1> USE DEF ApplyUpdateLevel, FeedInv
<1>0. k[1] \in Sides /\ k[2] \in Prices /\ k \in DOMAIN msg /\ msg[k] \in Qty
  BY KeyParts, PartialMapDef DEF NextLevel, FeedTypeOK
<1>1. [BookNext]_bookVars
  BY <1>0 DEF BookNext, Qty
<1>2. BookInv'
  BY <1>1, NextBookInv
<1>3. /\ msg' \in PartialMaps /\ DOMAIN msg' = DOMAIN msg \ {k}
      /\ \A x \in DOMAIN msg' : msg'[x] = msg[x]
  BY WithoutMap DEF FeedTypeOK
<1>4. FeedTypeOK' /\ PhaseInv' /\ LoadInv' /\ BatchInv' /\ InboxInv'
  BY <1>3 DEF FeedTypeOK, PhaseInv, LoadInv, BatchInv, InboxInv
<1>5. MsgInv'
  BY <1>3 DEF MsgInv, InInbox
<1>6. TracksExchange'
  <2> SUFFICES ASSUME NEW x \in Keys, ~Pending(x)', x \notin missed'
               PROVE  QuantityAt(x[1], x[2])' = live[x]
    BY DEF TracksExchange
  <2>0. x[1] \in Sides /\ x[2] \in Prices /\ x \notin DOMAIN batch /\ ~InInbox(x)
    BY KeyParts DEF Pending, InInbox
  <2>1. CASE x = k
    <3>1. ~(msg[k] # 0 /\ Absent(k[1], k[2]) /\ ~HasSpace(k[1]))
      BY <2>1
    <3>2. ShowsNow(k[1], k[2], msg[k])
      BY <1>0, <1>2, <3>1, UpdateShows
    <3>3. msg[k] = live[k]
      BY <1>0, <2>0, <2>1 DEF MsgInv
    <3> QED BY <2>0, <2>1, <3>2, <3>3 DEF ShowsNow
  <2>2. CASE x # k
    <3>1. ~Pending(x) /\ x \notin missed
      BY <1>3, <2>0, <2>2 DEF Pending
    <3>2. QuantityAt(x[1], x[2]) = live[x]
      BY <3>1 DEF TracksExchange
    <3>3. ~(x[1] = k[1] /\ x[2] = k[2])
      BY <2>2, KeyParts
    <3>4. QuantityAt(x[1], x[2])' = QuantityAt(x[1], x[2])
      BY <1>0, <1>2, <2>0, <3>3, UpdateShows, SameBookSameQuantity DEF ShowsNow
    <3> QED BY <3>2, <3>4
  <2> QED BY <2>1, <2>2
<1> QED BY <1>1, <1>2, <1>4, <1>5, <1>6

LEMMA ParseErrorInv ==
  ASSUME FeedInv, ParseError
  PROVE  FeedInv' /\ UNCHANGED bookVars
<1> USE DEF ParseError, FeedInv
<1>1. UNCHANGED bookVars
  OBVIOUS
<1>2. BookInv'
  BY <1>1, NextBookInv
<1>3. DOMAIN msg' = {} /\ DOMAIN msg \subseteq Keys
  BY NoLevelsMap, PartialMapDef DEF FeedTypeOK
<1>4. FeedTypeOK' /\ PhaseInv'
  BY <1>3, NoLevelsMap DEF FeedTypeOK, PhaseInv
<1>5. LoadInv' /\ BatchInv' /\ InboxInv' /\ MsgInv'
  BY <1>3 DEF LoadInv, BatchInv, InboxInv, MsgInv
<1>6. TracksExchange'
  BY <1>3, SameBookSameQuantity DEF TracksExchange, Pending, InInbox
<1> QED BY <1>1, <1>2, <1>4, <1>5, <1>6

LEMMA OnCloseInv ==
  ASSUME FeedInv, OnClose
  PROVE  FeedInv' /\ UNCHANGED bookVars
<1> USE DEF OnClose, FeedInv
<1>1. UNCHANGED bookVars
  OBVIOUS
<1>2. BookInv'
  BY <1>1, NextBookInv
<1>3. DOMAIN batch \subseteq Keys /\ \A i \in DOMAIN inbox : DOMAIN inbox[i] \subseteq Keys
  BY PartialMapDef DEF FeedTypeOK
<1>4. FeedTypeOK' /\ PhaseInv'
  BY <1>3, NoLevelsMap DEF FeedTypeOK, PhaseInv
<1>5. DOMAIN msg = {} /\ DOMAIN batch' = {} /\ Len(inbox') = 0
  BY NoLevelsMap
<1>6. LoadInv' /\ BatchInv' /\ InboxInv' /\ MsgInv'
  BY <1>5 DEF LoadInv, BatchInv, InboxInv, MsgInv
<1>7. ASSUME NEW x \in Keys, x \notin missed' PROVE ~Pending(x) /\ x \notin missed
  BY <1>5, <1>7 DEF Pending, InInbox
<1>8. TracksExchange'
  BY <1>7, SameBookSameQuantity DEF TracksExchange
<1> QED BY <1>1, <1>2, <1>4, <1>6, <1>8

LEMMA FetchSnapshotInv ==
  ASSUME FeedInv, FetchSnapshot
  PROVE  FeedInv' /\ Reset
<1> USE DEF FetchSnapshot, FeedInv
<1>1. BookInv'
  BY ResetBookInv
<1>2. /\ msg' \in PartialMaps /\ Top(live) \subseteq Listed(live)
      /\ Listed(live) \subseteq Keys
      /\ DOMAIN msg' = Top(live) /\ \A k \in Top(live) : msg'[k] = live[k]
  BY TopMap DEF FeedTypeOK
<1>3. FeedTypeOK' /\ PhaseInv'
  BY <1>2 DEF FeedTypeOK, PhaseInv
<1>4. \A s \in Sides, p \in Prices : Absent(s, p)' /\ QuantityAt(s, p)' = 0
  <2>1. \A s \in Sides, p \in Prices : Absent(s, p)'
    BY DEF Reset, Absent
  <2> QED BY <1>1, <2>1, AbsentIffZeroNext DEF ZeroFacts
<1>5. LoadInv'
  <2> SUFFICES ASSUME NEW k \in DOMAIN msg'
               PROVE  Absent(k[1], k[2])' /\ msg'[k] \in Quantities
    BY DEF LoadInv
  <2>1. k \in Keys /\ live[k] # 0 /\ live[k] \in Qty
    BY <1>2 DEF Listed, FeedTypeOK
  <2> QED BY <1>2, <1>4, <2>1, KeyParts DEF Qty
<1>6. BatchInv' /\ InboxInv' /\ MsgInv'
  BY <1>2 DEF BatchInv, InboxInv, MsgInv
<1>7. TracksExchange'
  <2> SUFFICES ASSUME NEW x \in Keys, ~Pending(x)', x \notin missed'
               PROVE  QuantityAt(x[1], x[2])' = live[x]
    BY DEF TracksExchange
  <2>1. x \notin Top(live) /\ x \notin Listed(live) \ Top(live)
    BY <1>2 DEF Pending
  <2>2. live[x] = 0
    BY <2>1 DEF Listed
  <2> QED BY <1>4, <2>2, KeyParts
<1> QED BY <1>1, <1>3, <1>5, <1>6, <1>7

LEMMA FetchFailsInv ==
  ASSUME FeedInv, FetchFails
  PROVE  FeedInv' /\ UNCHANGED bookVars
<1> USE DEF FetchFails, FeedInv
<1>1. UNCHANGED bookVars
  OBVIOUS
<1>2. BookInv'
  BY <1>1, NextBookInv
<1>3. FeedTypeOK' /\ PhaseInv' /\ DOMAIN msg = {}
  BY NoLevelsMap DEF FeedTypeOK, PhaseInv, Listed
<1>4. LoadInv' /\ BatchInv' /\ InboxInv' /\ MsgInv'
  BY <1>3 DEF LoadInv, BatchInv, InboxInv, MsgInv
<1>5. \A s \in Sides, p \in Prices : Absent(s, p)
  BY DEF PhaseInv, Absent
<1>6. TracksExchange'
  <2> SUFFICES ASSUME NEW x \in Keys, x \notin missed'
               PROVE  QuantityAt(x[1], x[2])' = live[x]
    BY DEF TracksExchange
  <2>1. live[x] = 0
    BY DEF Listed
  <2>2. QuantityAt(x[1], x[2]) = 0
    BY <1>5, KeyParts, AbsentIffZero DEF ZeroFacts
  <2> QED BY <1>1, <2>1, <2>2, SameBookSameQuantity
<1> QED BY <1>1, <1>2, <1>3, <1>4, <1>6

LEMMA ReadSnapshotLevelInv ==
  ASSUME FeedInv, NEW k \in Keys, ReadSnapshotLevel(k)
  PROVE  FeedInv' /\ [BookNext]_bookVars
<1> USE DEF ReadSnapshotLevel, FeedInv
<1>1. /\ k[1] \in Sides /\ k[2] \in Prices /\ k \in DOMAIN msg
      /\ msg[k] \in Quantities /\ Absent(k[1], k[2]) /\ msg[k] # 0
  BY KeyParts, BookAssumption DEF NextLevel, LoadInv
<1>2. [BookNext]_bookVars
  BY <1>1 DEF BookNext
<1>3. BookInv'
  BY <1>2, NextBookInv
<1>4. /\ msg' \in PartialMaps /\ DOMAIN msg' = DOMAIN msg \ {k}
      /\ \A x \in DOMAIN msg' : msg'[x] = msg[x] /\ x \in Keys
  BY WithoutMap, PartialMapDef DEF FeedTypeOK
<1>5. \/ HasSpace(k[1]) /\ ShowsNow(k[1], k[2], msg[k]) /\ missed' = missed
      \/ UNCHANGED bookVars /\ missed' = missed \cup {k}
  BY <1>1, <1>3, InsertShows DEF LoadLevel
<1>6. FeedTypeOK' /\ PhaseInv' /\ BatchInv' /\ InboxInv'
  BY <1>4 DEF FeedTypeOK, PhaseInv, BatchInv, InboxInv
<1>7. ASSUME NEW x \in Keys \ {k}
      PROVE  QuantityAt(x[1], x[2])' = QuantityAt(x[1], x[2])
  <2>1. ~(x[1] = k[1] /\ x[2] = k[2])
    BY <1>7, KeyParts
  <2> QED BY <1>5, <2>1, KeyParts, SameBookSameQuantity DEF ShowsNow
<1>8. LoadInv'
  <2> SUFFICES ASSUME NEW x \in DOMAIN msg'
               PROVE  Absent(x[1], x[2])' /\ msg'[x] \in Quantities
    BY DEF LoadInv
  <2>1. /\ x \in Keys \ {k} /\ Absent(x[1], x[2]) /\ msg'[x] \in Quantities
        /\ x[1] \in Sides /\ x[2] \in Prices
    BY <1>4, KeyParts DEF LoadInv
  <2>2. QuantityAt(x[1], x[2])' = 0
    BY <1>7, <2>1, AbsentIffZero DEF ZeroFacts
  <2> QED BY <1>3, <2>1, <2>2, AbsentIffZeroNext DEF ZeroFacts
<1>9. MsgInv'
  BY <1>4 DEF MsgInv, InInbox
<1>10. TracksExchange'
  <2> SUFFICES ASSUME NEW x \in Keys, ~Pending(x)', x \notin missed'
               PROVE  QuantityAt(x[1], x[2])' = live[x]
    BY DEF TracksExchange
  <2>0. x \notin DOMAIN batch /\ ~InInbox(x) /\ x \notin missed
    BY DEF Pending, InInbox
  <2>1. CASE x = k
    <3>1. ShowsNow(k[1], k[2], msg[k]) /\ msg[k] = live[k]
      BY <1>1, <1>5, <2>0, <2>1 DEF MsgInv
    <3> QED BY <1>1, <2>1, <3>1 DEF ShowsNow
  <2>2. CASE x # k
    <3>1. ~Pending(x)
      BY <1>4, <2>0, <2>2 DEF Pending
    <3> QED BY <1>7, <2>0, <2>2, <3>1 DEF TracksExchange
  <2> QED BY <2>1, <2>2
<1> QED BY <1>2, <1>3, <1>6, <1>8, <1>9, <1>10

LEMMA NextFeedInv ==
  FeedInv /\ [Next]_vars => FeedInv' /\ [BookNext]_bookVars
<1> SUFFICES ASSUME FeedInv, [Next]_vars PROVE FeedInv' /\ [BookNext]_bookVars
  OBVIOUS
<1>1. ASSUME UNCHANGED vars PROVE FeedInv' /\ UNCHANGED bookVars
  <2>1. UNCHANGED bookVars
    BY <1>1 DEF vars, bookVars
  <2>2. BookInv'
    BY <2>1, NextBookInv DEF FeedInv
  <2>3. TracksExchange'
    BY <1>1, <2>1, SameBookSameQuantity
    DEF vars, FeedInv, TracksExchange, Pending, InInbox
  <2>4. /\ FeedTypeOK' /\ PhaseInv' /\ LoadInv' /\ BatchInv' /\ InboxInv' /\ MsgInv'
    BY <1>1 DEF vars, FeedInv, FeedTypeOK, PhaseInv, LoadInv, BatchInv, InboxInv,
                MsgInv, InInbox, Absent
  <2> QED BY <2>1, <2>2, <2>3, <2>4 DEF FeedInv
<1>2. Reset => BookNext
  BY DEF BookNext
<1> QED
  BY <1>1, <1>2, ChangeInv, SendInv, FetchSnapshotInv, FetchFailsInv,
     ReadSnapshotLevelInv, PhaseStepInv, OnMessageInv, ApplyUpdateLevelInv,
     ParseErrorInv, OnCloseInv
  DEF Next, Qty

\* main and the WebSocket thread only take steps that OrderBook allows, so all
\* that holds of BookSpec holds of the live book.
THEOREM FeedUsesBook == Spec => BookSpec
<1>1. Init => BookInit
  BY DEF Init
<1> QED BY <1>1, InitFeedInv, NextFeedInv, PTL DEF Spec, BookSpec

\* The live book is strictly sorted best-first at every moment, also between two
\* levels of one message.
THEOREM LiveBookSorted == Spec => []BookSorted
BY FeedUsesBook, BookStaysSorted, PTL

\* The live book implements a map from price to quantity.
THEOREM LiveBookImplementsMap == Spec => ImplementsLevelMap
BY FeedUsesBook, BookImplementsMap, PTL

\* The variables of the feed and of the book keep their types.
THEOREM FeedTypeCorrect == Spec => []TypeOK
<1>1. FeedInv => TypeOK
  BY DEF FeedInv, BookInv, FeedTypeOK, TypeOK, Qty
<1> QED BY <1>1, InitFeedInv, NextFeedInv, PTL DEF Spec

\* A level that the book has heard of and that has no update under way shows the
\* exchange's quantity, whatever was lost, dropped or reordered around it.
THEOREM FeedTracksExchange == Spec => []TracksExchange
<1>1. FeedInv => TracksExchange
  BY DEF FeedInv
<1> QED BY <1>1, InitFeedInv, NextFeedInv, PTL DEF Spec

\* get_best_bid and get_best_ask are the exchange's best prices when the book is
\* up to date on their side.
THEOREM FeedTopOfBook == Spec => []TopOfBook
<1>1. ASSUME FeedInv PROVE TopOfBook
  <2> SUFFICES ASSUME phase # "start", NEW s \in Sides,
                      \A p \in Prices : ~Pending(<<s, p>>) /\ <<s, p>> \notin missed,
                      NEW p \in Prices, live[<<s, p>>] # 0
               PROVE  p = Best(s) \/ Better(s, Best(s), p)
    BY DEF TopOfBook
  <2>1. <<s, p>> \in Keys /\ <<s, p>>[1] = s /\ <<s, p>>[2] = p
    BY DEF Keys
  <2>2. QuantityAt(s, p) # 0
    BY <1>1, <2>1 DEF FeedInv, TracksExchange
  <2>3. PICK i \in 0..(count[s] - 1) : book[s][i].price = p
    BY <2>2 DEF QuantityAt, Absent
  <2>4. count[s] \in Nat
    BY <1>1, BookAssumption DEF FeedInv, BookInv, BookTypeOK
  <2>5. CASE i = 0
    BY <2>3, <2>5 DEF Best
  <2>6. CASE i # 0
    <3>1. 0 \in 0..(count[s] - 1) /\ 0 < i
      BY <2>4, <2>6
    <3> QED BY <1>1, <2>3, <3>1 DEF Best, FeedInv, BookInv, BookSorted
  <2> QED BY <2>5, <2>6
<1> QED BY <1>1, InitFeedInv, NextFeedInv, PTL DEF Spec
=============================================================================
