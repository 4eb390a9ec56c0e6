--------------------------- MODULE LibraryProofs ----------------------------
(***************************************************************************)
(* The parts of the library that stand by themselves, for every value of   *)
(* their constants: one section for each, with its inductive invariant,    *)
(* the steps that preserve it and the property that follows.               *)
(***************************************************************************)
EXTENDS BitScanningOrderBook, BitmaskOrderBook, FlatHashFreeArray, ZeroCopyUDP,
        RiskManager, DashboardChart,
        FiniteSetTheorems, WellFoundedInduction, TLAPS

-----------------------------------------------------------------------------
(***************************************************************************)
(* Smallest and largest elements.                                          *)
(***************************************************************************)
\* Max and Min are the elements that their definitions say, when there is one.
LEMMA MaxIs ==
  ASSUME NEW S \in SUBSET Int, NEW m \in S, \A x \in S : x <= m
  PROVE  Max(S) = m
<1>1. m \in S /\ \A x \in S : m >= x
  OBVIOUS
<1>2. \A n \in S : (\A x \in S : n >= x) => n = m
  OBVIOUS
<1> QED BY <1>1, <1>2 DEF Max

LEMMA MinIs ==
  ASSUME NEW S \in SUBSET Int, NEW m \in S, \A x \in S : m <= x
  PROVE  Min(S) = m
<1>1. m \in S /\ \A x \in S : m =< x
  OBVIOUS
<1>2. \A n \in S : (\A x \in S : n =< x) => n = m
  OBVIOUS
<1> QED BY <1>1, <1>2 DEF Min

\* Among naturals there is always a smallest.
LEMMA MinOfNaturals ==
  ASSUME NEW S \in SUBSET Nat, S # {}
  PROVE  Min(S) \in S /\ \A x \in S : Min(S) <= x
<1>1. IsWellFoundedOn(OpToRel(<, Nat), Nat)
  BY NatLessThanWellFounded
<1>2. PICK m \in S : \A x \in S : <<x, m>> \notin OpToRel(<, Nat)
  BY <1>1, WFMin
<1>3. ASSUME NEW x \in S PROVE m <= x
  <2>1. <<x, m>> \in Nat \X Nat /\ <<x, m>>[1] = x /\ <<x, m>>[2] = m
    OBVIOUS
  <2>2. ~(<<x, m>>[1] < <<x, m>>[2])
    BY <1>2, <2>1 DEF OpToRel
  <2> QED BY <2>1, <2>2
<1> QED BY <1>3, MinIs

\* So there is in every finite set of integers: a counterexample of the least
\* cardinality would have a smaller one.
LEMMA MinOfIntegers ==
  ASSUME NEW S \in SUBSET Int, IsFiniteSet(S), S # {}
  PROVE  Min(S) \in S /\ \A x \in S : Min(S) <= x
<1> DEFINE HasMin(T) == \E m \in T : \A x \in T : m <= x
           Bad(T) == IsFiniteSet(T) /\ T # {} /\ ~HasMin(T)
           Sizes0 == {n \in Nat : \E T \in SUBSET Int : Bad(T) /\ Cardinality(T) = n}
<1>1. ASSUME NEW T \in SUBSET Int, Bad(T) PROVE FALSE
  <2>1. Cardinality(T) \in Sizes0
    BY <1>1, FS_CardinalityType
  <2>2. PICK U \in SUBSET Int : Bad(U) /\ \A n \in Sizes0 : Cardinality(U) <= n
    <3>1. Min(Sizes0) \in Sizes0 /\ \A n \in Sizes0 : Min(Sizes0) <= n
      BY <2>1, MinOfNaturals
    <3> QED BY <3>1
  <2>3. PICK u \in U : TRUE
    BY <2>2
  <2> DEFINE V == U \ {u}
  <2>4. /\ IsFiniteSet(V) /\ Cardinality(V) = Cardinality(U) - 1
        /\ Cardinality(U) \in Nat /\ Cardinality(V) \in Nat
    BY <2>2, FS_RemoveElement, FS_CardinalityType
  <2>5. V # {}
    <3> SUFFICES ASSUME V = {} PROVE FALSE
      OBVIOUS
    <3>1. \A x \in U : x = u
      OBVIOUS
    <3>2. \A x \in U : u <= x
      BY <3>1
    <3> QED BY <2>2, <3>2
  <2>6. Cardinality(V) \notin Sizes0
    <3>1. ~(Cardinality(U) <= Cardinality(V))
      BY <2>4
    <3> HIDE DEF Sizes0
    <3> QED BY <2>2, <3>1
  <2>7. HasMin(V)
    BY <2>4, <2>5, <2>6
  <2>8. PICK m \in V : \A x \in V : m <= x
    BY <2>7
  <2>9. HasMin(U)
    <3>1. CASE m <= u
      BY <2>8, <3>1
    <3>2. CASE u <= m
      <4>1. \A x \in U : u <= x
        BY <2>8, <3>2
      <4> QED BY <4>1
    <3> QED BY <3>1, <3>2
  <2> QED BY <2>2, <2>9
<1>2. PICK m \in S : \A x \in S : m <= x
  BY <1>1
<1> QED BY <1>2, MinIs
-----------------------------------------------------------------------------
(***************************************************************************)
(* Elements of sequences.                                                  *)
(***************************************************************************)
LEMMA AppendElements ==
  ASSUME NEW T, NEW s \in Seq(T), NEW x \in T
  PROVE  /\ Append(s, x) \in Seq(T)
         /\ Len(Append(s, x)) = Len(s) + 1
         /\ \A i \in 1..Len(s) : Append(s, x)[i] = s[i]
         /\ Append(s, x)[Len(s) + 1] = x
         /\ ToSet(Append(s, x)) = ToSet(s) \cup {x}
<1>1. /\ Append(s, x) \in Seq(T) /\ Len(Append(s, x)) = Len(s) + 1 /\ Len(s) \in Nat
      /\ \A i \in 1..Len(s) : Append(s, x)[i] = s[i]
      /\ Append(s, x)[Len(s) + 1] = x
  OBVIOUS
<1>2. DOMAIN s = 1..Len(s) /\ DOMAIN Append(s, x) = 1..(Len(s) + 1)
  BY <1>1
<1>3. 1..(Len(s) + 1) = (1..Len(s)) \cup {Len(s) + 1}
  BY <1>1
<1>4. ToSet(Append(s, x)) = {Append(s, x)[i] : i \in 1..Len(s)} \cup {Append(s, x)[Len(s) + 1]}
  BY <1>2, <1>3 DEF ToSet
<1>5. {Append(s, x)[i] : i \in 1..Len(s)} = {s[i] : i \in 1..Len(s)}
  BY <1>1
<1> QED BY <1>1, <1>2, <1>4, <1>5 DEF ToSet

-----------------------------------------------------------------------------
(***************************************************************************)
(* FlatHashFreeArray                                                       *)
(***************************************************************************)
StoredKeys == {k \in Keys : stored[k] # NoValue}

\* A place is in use for a key of its own, and holds what was stored under it.
TableInv ==
  /\ entries \in [0..TableSize - 1 -> [key : Nat, value : Values \cup {NoValue},
                                       occupied : BOOLEAN]]
  /\ \A i \in 0..TableSize - 1 : entries[i].occupied =>
       /\ entries[i].key \in Keys
       /\ Index(entries[i].key) = i
       /\ entries[i].value \in Values
  /\ stored \in [Keys -> Values \cup {NoValue}]
  /\ \A k \in Keys : stored[k] = Find(k)
  /\ IsFiniteSet(StoredKeys)
  /\ repeated \in Nat
  /\ entryCount = Cardinality(StoredKeys) + repeated

LEMMA IndexRange ==
  ASSUME NEW k \in Keys
  PROVE  Index(k) \in 0..TableSize - 1
BY FlatHashAssumption DEF Index

LEMMA InitTableInv == TableInit => TableInv
<1> SUFFICES ASSUME TableInit PROVE TableInv
  OBVIOUS
<1>1. StoredKeys = {}
  BY DEF TableInit, StoredKeys
<1>2. \A k \in Keys : Find(k) = NoValue
  BY IndexRange DEF TableInit, Find, Holds
<1> QED BY <1>1, <1>2, FS_EmptySet DEF TableInit, TableInv

LEMMA InsertEntryInv ==
  ASSUME TableInv, NEW k \in Keys, NEW v \in Values, InsertEntry(k, v)
  PROVE  TableInv'
<1> USE DEF TableInv
<1>1. /\ k \in Nat /\ Index(k) \in 0..TableSize - 1 /\ v # NoValue
      /\ \A j \in Keys : Index(j) \in 0..TableSize - 1
  BY IndexRange, FlatHashAssumption
<1>2. entries' = [entries EXCEPT ![Index(k)] = [key |-> k, value |-> v, occupied |-> TRUE]]
      /\ stored' = [stored EXCEPT ![k] = v]
  BY DEF InsertEntry
<1>3. entries' \in [0..TableSize - 1 -> [key : Nat, value : Values \cup {NoValue},
                                         occupied : BOOLEAN]]
  <2>1. [key |-> k, value |-> v, occupied |-> TRUE]
          \in [key : Nat, value : Values \cup {NoValue}, occupied : BOOLEAN]
    BY <1>1
  <2> QED BY <1>1, <1>2, <2>1
<1>4. \A i \in 0..TableSize - 1 : entries'[i].occupied =>
        /\ entries'[i].key \in Keys
        /\ Index(entries'[i].key) = i
        /\ entries'[i].value \in Values
  BY <1>1, <1>2
<1>5. ASSUME NEW j \in Keys PROVE stored'[j] = Find(j)'
  <2>1. CASE j = k
    BY <1>1, <1>2, <2>1 DEF Find, Holds
  <2>2. CASE j # k /\ Index(j) = Index(k)
    <3>1. stored[j] = NoValue
      BY <1>1, <2>2 DEF InsertEntry, Find, Holds
    <3>2. Find(j)' = NoValue
      BY <1>1, <1>2, <2>2 DEF Find, Holds
    <3> QED BY <1>2, <2>2, <3>1, <3>2
  <2>3. CASE Index(j) # Index(k)
    BY <1>1, <1>2, <2>3 DEF Find, Holds
  <2> QED BY <2>1, <2>2, <2>3
<1>6. StoredKeys' = StoredKeys \cup {k}
  BY <1>1, <1>2 DEF StoredKeys
<1>7. IsFiniteSet(StoredKeys') /\ repeated' \in Nat
      /\ entryCount' = Cardinality(StoredKeys') + repeated'
  <2>1. Cardinality(StoredKeys) \in Nat
    BY FS_CardinalityType
  <2>2. k \in StoredKeys <=> stored[k] # NoValue
    BY DEF StoredKeys
  <2>3. /\ IsFiniteSet(StoredKeys \cup {k})
        /\ Cardinality(StoredKeys \cup {k}) =
             IF k \in StoredKeys THEN Cardinality(StoredKeys) ELSE Cardinality(StoredKeys) + 1
    BY FS_AddElement
  <2>4. /\ entryCount' = entryCount + 1
        /\ repeated' = IF stored[k] = NoValue THEN repeated ELSE repeated + 1
    BY DEF InsertEntry
  <2> QED BY <1>6, <2>1, <2>2, <2>3, <2>4
<1> QED BY <1>2, <1>3, <1>4, <1>5, <1>7

LEMMA RemoveEntryInv ==
  ASSUME TableInv, NEW k \in Keys, RemoveEntry(k)
  PROVE  TableInv'
<1> USE DEF TableInv
<1>1. /\ Index(k) \in 0..TableSize - 1
      /\ \A j \in Keys : Index(j) \in 0..TableSize - 1
      /\ entries[Index(k)].occupied /\ entries[Index(k)].key = k
  BY IndexRange DEF RemoveEntry, Holds
<1>2. /\ entries' = [entries EXCEPT ![Index(k)] = [entries[Index(k)] EXCEPT !.occupied = FALSE]]
      /\ stored' = [stored EXCEPT ![k] = NoValue]
  BY <1>1 DEF RemoveEntry
<1>3. /\ entries'[Index(k)].occupied = FALSE
      /\ \A i \in 0..TableSize - 1 : i # Index(k) => entries'[i] = entries[i]
  BY <1>1, <1>2
<1>4. entries' \in [0..TableSize - 1 -> [key : Nat, value : Values \cup {NoValue},
                                         occupied : BOOLEAN]]
  <2>1. [entries[Index(k)] EXCEPT !.occupied = FALSE]
          \in [key : Nat, value : Values \cup {NoValue}, occupied : BOOLEAN]
    BY <1>1
  <2> QED BY <1>1, <1>2, <2>1
<1>5. \A i \in 0..TableSize - 1 : entries'[i].occupied =>
        /\ entries'[i].key \in Keys
        /\ Index(entries'[i].key) = i
        /\ entries'[i].value \in Values
  BY <1>3
<1>6. ASSUME NEW j \in Keys PROVE stored'[j] = Find(j)'
  <2>1. CASE Index(j) = Index(k)
    <3>1. Find(j)' = NoValue
      BY <1>3, <2>1 DEF Find, Holds
    <3>2. j # k => stored[j] = NoValue
      BY <1>1, <2>1 DEF Find, Holds
    <3> QED BY <1>2, <3>1, <3>2
  <2>2. CASE Index(j) # Index(k)
    BY <1>1, <1>2, <1>3, <2>2 DEF Find, Holds
  <2> QED BY <2>1, <2>2
<1>7. /\ IsFiniteSet(StoredKeys') /\ repeated' \in Nat
      /\ entryCount' = Cardinality(StoredKeys') + repeated'
  <2>1. StoredKeys' = StoredKeys \ {k}
    BY <1>2 DEF StoredKeys
  <2>2. k \in StoredKeys
    BY <1>1, FlatHashAssumption DEF StoredKeys, Find, Holds
  <2>3. Cardinality(StoredKeys) \in Nat
    BY FS_CardinalityType
  <2>4. /\ IsFiniteSet(StoredKeys \ {k})
        /\ Cardinality(StoredKeys \ {k}) = Cardinality(StoredKeys) - 1
    BY <2>2, FS_RemoveElement
  <2> QED BY <2>1, <2>3, <2>4 DEF RemoveEntry
<1> QED BY <1>2, <1>4, <1>5, <1>6, <1>7

LEMMA ClearTableInv ==
  ASSUME TableInv, ClearTable
  PROVE  TableInv'
<1> USE DEF TableInv
<1>1. entries' = [i \in 0..TableSize - 1 |-> [entries[i] EXCEPT !.occupied = FALSE]]
  BY DEF ClearTable
<1>2. /\ entries' \in [0..TableSize - 1 -> [key : Nat, value : Values \cup {NoValue},
                                            occupied : BOOLEAN]]
      /\ \A i \in 0..TableSize - 1 : entries'[i].occupied = FALSE
  BY ZenonT(30), <1>1
<1>3. \A k \in Keys : Find(k)' = NoValue
  BY <1>2, IndexRange DEF Find, Holds
<1>4. StoredKeys' = {}
  BY DEF ClearTable, StoredKeys
<1> QED BY <1>2, <1>3, <1>4, FS_EmptySet DEF ClearTable

THEOREM TableInvariance == TableSpec => []TableInv
<1>1. TableInit => TableInv
  BY InitTableInv
<1>2. TableInv /\ [TableNext]_tableVars => TableInv'
  <2> SUFFICES ASSUME TableInv, [TableNext]_tableVars PROVE TableInv'
    OBVIOUS
  <2>1. CASE UNCHANGED tableVars
    BY <2>1 DEF tableVars, TableInv, StoredKeys, Find, Holds
  <2> QED BY <2>1, InsertEntryInv, RemoveEntryInv, ClearTableInv DEF TableNext
<1> QED BY <1>1, <1>2, PTL DEF TableSpec

\* insert and find of FlatHashFreeArray agree with a map, over all the keys that
\* share a place, and count_ is off by exactly the repeated insertions.
THEOREM TableIsMap == TableSpec => []FindsLastStored
<1>1. TableInv => FindsLastStored
  BY DEF TableInv, StoredKeys, FindsLastStored
<1> QED BY <1>1, TableInvariance, PTL
-----------------------------------------------------------------------------
(***************************************************************************)
(* ZeroCopyUDP                                                             *)
(***************************************************************************)
\* The last number handed over is the largest; without torn packets it is the
\* largest that arrived.
UdpInv ==
  /\ sent \in Nat
  /\ lastSeq \in Nat
  /\ given \in Seq(Nat)
  /\ \A i, j \in 1..Len(given) : i < j => given[i] < given[j]
  /\ given # << >> => given[Len(given)] = lastSeq
  /\ arrived \subseteq Nat
  /\ torn \/ (lastSeq \in arrived \cup {0} /\ \A x \in arrived \cup {0} : x <= lastSeq)

LEMMA DeliverInv ==
  ASSUME UdpInv, NEW seq \in Nat, Deliver(seq)
  PROVE  /\ lastSeq' = IF IsNew(seq) THEN seq ELSE lastSeq
         /\ given' \in Seq(Nat)
         /\ \A i, j \in 1..Len(given') : i < j => given'[i] < given'[j]
         /\ given' # << >> => given'[Len(given')] = lastSeq'
<1> USE DEF UdpInv, Deliver
<1>1. CASE ~IsNew(seq)
  BY <1>1
<1>2. CASE IsNew(seq)
  <2> DEFINE n == Len(given)
  <2>1. lastSeq' = seq /\ given' = Append(given, seq) /\ n \in Nat /\ lastSeq < seq
    BY <1>2 DEF IsNew
  <2>2. /\ given' \in Seq(Nat) /\ Len(given') = n + 1 /\ given'[n + 1] = seq
        /\ \A i \in 1..n : given'[i] = given[i]
    BY <2>1
  <2>3. \A i \in 1..n : given[i] <= lastSeq
    <3> SUFFICES ASSUME NEW i \in 1..n PROVE given[i] <= lastSeq
      OBVIOUS
    <3>1. given # << >> /\ n \in 1..n /\ (i < n \/ i = n) /\ given[i] \in Nat
      OBVIOUS
    <3> QED BY SMTT(30), <3>1
  <2> HIDE DEF n
  <2>4. ASSUME NEW i \in 1..(n + 1), NEW j \in 1..(n + 1), i < j
        PROVE  given'[i] < given'[j]
    <3>1. i \in 1..n /\ given[i] \in Nat
      BY <2>1, <2>4 DEF n
    <3>2. CASE j = n + 1
      BY <2>1, <2>2, <2>3, <3>1, <3>2
    <3>3. CASE j \in 1..n
      <4>1. given'[i] = given[i] /\ given'[j] = given[j]
        BY <2>2, <3>1, <3>3
      <4>2. given[i] < given[j]
        BY <2>4, <3>1, <3>3 DEF n
      <4> QED BY <4>1, <4>2
    <3>4. j = n + 1 \/ j \in 1..n
      BY <2>1
    <3> QED BY <3>2, <3>3, <3>4
  <2> QED BY <1>2, <2>1, <2>2, <2>4
<1> QED BY <1>1, <1>2

LEMMA UdpNextInv ==
  ASSUME UdpInv, [UdpNext]_udpVars
  PROVE  UdpInv'
<1>1. CASE Send
  BY <1>1 DEF Send, UdpInv
<1>2. ASSUME NEW seq \in 0..MaxSeq, ReceiveWhole(seq) PROVE UdpInv'
  <2>1. /\ seq \in Nat /\ Deliver(seq) /\ arrived' = arrived \cup {seq}
        /\ sent' = sent /\ torn' = torn
    BY <1>2, UdpAssumption DEF ReceiveWhole
  <2>2. torn' \/ (lastSeq' \in arrived' \cup {0} /\ \A x \in arrived' \cup {0} : x <= lastSeq')
    BY <2>1, DeliverInv DEF UdpInv, IsNew
  <2> QED BY <2>1, <2>2, DeliverInv DEF UdpInv
<1>3. CASE ReceiveTorn
  <2>1. PICK seq \in Garbage : Deliver(seq)
    BY <1>3 DEF ReceiveTorn
  <2>2. seq \in Nat /\ torn' /\ sent' = sent /\ arrived' = arrived
    BY <1>3, <2>1, UdpAssumption DEF ReceiveTorn
  <2> QED BY <2>1, <2>2, DeliverInv DEF UdpInv
<1>4. CASE ReceiveShort
  BY <1>4 DEF ReceiveShort, UdpInv
<1>5. CASE UNCHANGED udpVars
  BY <1>5 DEF udpVars, UdpInv
<1> QED BY <1>1, <1>2, <1>3, <1>4, <1>5 DEF UdpNext

THEOREM UdpInvariance == UdpSpec => []UdpInv
<1>1. UdpInit => UdpInv
  BY DEF UdpInit, UdpInv
<1>2. UdpInv /\ [UdpNext]_udpVars => UdpInv'
  BY UdpNextInv
<1> QED BY <1>1, <1>2, PTL DEF UdpSpec

\* recv of ZeroCopyUDP never hands over a repeated or late packet, and misses no
\* newest one unless a torn packet was taken for it.
THEOREM UdpDelivers == UdpSpec => []DeliversNewest
<1>1. ASSUME UdpInv PROVE DeliversNewest
  <2>1. torn \/ lastSeq = Max(arrived \cup {0})
    <3> SUFFICES ASSUME ~torn PROVE lastSeq = Max(arrived \cup {0})
      OBVIOUS
    <3>1. arrived \cup {0} \in SUBSET Int
      BY <1>1 DEF UdpInv
    <3> QED BY <1>1, <3>1, MaxIs DEF UdpInv
  <2> QED BY <1>1, <2>1 DEF UdpInv, DeliversNewest
<1> QED BY <1>1, UdpInvariance, PTL
-----------------------------------------------------------------------------
(***************************************************************************)
(* RiskManager: how far the limits are overshot                            *)
(***************************************************************************)
\* Traders whose order passed the position check and is not filled yet, and those
\* whose order passed the loss check and is not charged to pnl yet.
Checked == {t \in Traders : pc[t] \in {"checkLoss", "passed"}}
Buyers == {t \in Checked : order[t].size > 0}
Sellers == {t \in Checked : order[t].size < 0}
Uncharged == {t \in Traders : pc[t] \in {"passed", "fillPnl"}}

Losses == {0} \cup {Notional(o) : o \in TraderOrders}
WorstFill == Min(Losses)

\* p, a position or its opposite, is within the overshoot, and stays there when
\* the orders of S are filled: the last of them to be checked saw a position within
\* the limit, and no other is larger than most.
Bounded(p, most) == p <= MaxPosition + (Cardinality(Traders) - 1) * most

Room(p, size, S, most) ==
  /\ Bounded(p, most)
  /\ S # {} => \E last \in S : Bounded(p + size[last] + (Cardinality(S) - 1) * most, most)

Bought == [t \in Traders |-> order[t].size]
Sold == [t \in Traders |-> -order[t].size]

RiskType ==
  /\ position \in Int
  /\ pnl \in Int
  /\ pc \in [Traders -> {"idle", "checkLoss", "passed", "fillPnl", "fillCount",
                         "resetPosition", "resetCount"}]
  /\ order \in [Traders -> TraderOrders \cup {NoOrder}]
  /\ \A t \in Checked : order[t].size <= MaxOrder
  /\ \A t \in Checked \cup Uncharged : order[t] \in TraderOrders

\* So is p, the profit, when S are still to be charged.
Covered(p, S) ==
  p + Cardinality(S) * WorstFill >= -MaxLoss + Cardinality(Traders) * WorstFill

PnlInv == Covered(pnl, Uncharged)

RiskInv ==
  /\ RiskType
  /\ Room(position, Bought, Buyers, MaxOrder)
  /\ Room(-position, Sold, Sellers, MaxSell)
  /\ PnlInv

LEMMA Multiples ==
  ASSUME NEW j \in Int, NEW k \in Int, NEW m \in Nat, j <= k
  PROVE  /\ j * m \in Int /\ k * m \in Int
         /\ j * m <= k * m
         /\ (j - 1) * m = j * m - m
<1>1. k - j \in Nat /\ k = j + (k - j)
  OBVIOUS
<1>2. (k - j) * m >= 0
  BY <1>1
<1>3. k * m = j * m + (k - j) * m
  BY <1>1
<1> QED BY <1>2, <1>3

LEMMA TradersFinite ==
  /\ IsFiniteSet(Traders)
  /\ Cardinality(Traders) \in Nat /\ Cardinality(Traders) >= 1
  /\ \A S \in SUBSET Traders :
       IsFiniteSet(S) /\ Cardinality(S) \in Nat /\ Cardinality(S) <= Cardinality(Traders)
<1>1. IsFiniteSet(Traders) /\ Traders # {}
  BY RiskAssumption
<1>2. Cardinality(Traders) \in Nat /\ Cardinality(Traders) # 0
  BY <1>1, FS_CardinalityType, FS_EmptySet
<1>3. ASSUME NEW S \in SUBSET Traders
      PROVE  IsFiniteSet(S) /\ Cardinality(S) \in Nat /\ Cardinality(S) <= Cardinality(Traders)
  BY <1>1, FS_Subset, FS_CardinalityType
<1> QED BY <1>1, <1>2, <1>3

\* The orders of a set of traders, none larger than most.
Orders(size, S, most) ==
  /\ S \subseteq Traders
  /\ most \in Nat
  /\ \A t \in S : size[t] \in Int /\ 0 <= size[t] /\ size[t] <= most

LEMMA RoomFalls ==
  ASSUME NEW p \in Int, NEW q \in Int, NEW size, NEW S, NEW most,
         Orders(size, S, most), Room(p, size, S, most), q <= p
  PROVE  Room(q, size, S, most)
<1> DEFINE c == Cardinality(S)
           B == MaxPosition + (Cardinality(Traders) - 1) * most
<1>1. most \in Nat /\ c \in Nat /\ B \in Int
  BY TradersFinite, RiskAssumption, Multiples DEF Orders
<1>2. (c - 1) * most \in Int
  BY <1>1, Multiples
<1> HIDE DEF B, c
<1>3. p <= B
  BY DEF Room, Bounded, B
<1>4. CASE S = {}
  BY <1>1, <1>3, <1>4 DEF Room, Bounded, B
<1>5. CASE S # {}
  <2>1. PICK last \in S : p + size[last] + (c - 1) * most <= B
    BY <1>5 DEF Room, Bounded, B, c
  <2>2. q + size[last] + (c - 1) * most <= B
    BY <1>1, <1>2, <2>1 DEF Orders
  <2> QED BY <1>1, <1>3, <2>2 DEF Room, Bounded, B, c
<1> QED BY <1>4, <1>5

LEMMA RoomDrops ==
  ASSUME NEW p \in Int, NEW size, NEW S, NEW most, NEW t \in S,
         Orders(size, S, most), Room(p, size, S, most)
  PROVE  Room(p, size, S \ {t}, most) /\ Room(p + size[t], size, S \ {t}, most)
<1> DEFINE c == Cardinality(S)
           d == Cardinality(S \ {t})
           B == MaxPosition + (Cardinality(Traders) - 1) * most
<1>1. most \in Nat /\ c \in Nat /\ B \in Int /\ d = c - 1 /\ d \in Nat
  BY TradersFinite, RiskAssumption, Multiples, FS_RemoveElement DEF Orders
<1>2. (c - 1) * most \in Int /\ (d - 1) * most = (c - 1) * most - most
  BY <1>1, Multiples
<1>3. d >= 1 => (c - 1) * most >= most
  <2>1. d >= 1 => 1 * most <= d * most
    BY <1>1, Multiples
  <2> QED BY <1>1, <2>1
<1>4. S \ {t} # {} => d >= 1
  <2>1. IsFiniteSet(S \ {t})
    BY TradersFinite DEF Orders
  <2>2. S \ {t} # {} => d # 0
    BY <2>1, FS_EmptySet
  <2> QED BY <1>1, <2>2
<1>5. (c - 1) * most >= 0
  <2>1. 0 * most <= d * most
    BY <1>1, Multiples
  <2> QED BY <1>1, <2>1
<1>6. PICK last \in S : p + size[last] + (c - 1) * most <= B
  BY DEF Room, Bounded
<1>7. /\ Bounded(p, most) /\ p <= B
      /\ \A q : q <= B => Bounded(q, most)
      /\ \A q : \A l \in S \ {t} :
           q <= B /\ q + size[l] + (d - 1) * most <= B => Room(q, size, S \ {t}, most)
      /\ \A q : S \ {t} = {} /\ q <= B => Room(q, size, S \ {t}, most)
  BY DEF Room, Bounded
<1> HIDE DEF B, c, d
<1>8. p + size[t] <= B
  <2>1. CASE t = last
    BY <1>1, <1>2, <1>5, <1>6, <2>1 DEF Orders
  <2>2. CASE t # last
    BY <1>1, <1>2, <1>3, <1>4, <1>6, <2>2 DEF Orders
  <2> QED BY <2>1, <2>2
<1>9. CASE S \ {t} = {}
  BY <1>7, <1>8, <1>9
<1>10. CASE S \ {t} # {}
  <2>1. CASE t = last
    <3>1. PICK l \in S \ {t} : TRUE
      BY <1>10
    <3>2. /\ p + size[l] + (d - 1) * most <= B
          /\ p + size[t] + size[l] + (d - 1) * most <= B
      BY <1>1, <1>2, <1>6, <2>1, <3>1 DEF Orders
    <3> QED BY <1>7, <1>8, <3>1, <3>2
  <2>2. CASE t # last
    <3>1. /\ p + size[last] + (d - 1) * most <= B
          /\ p + size[t] + size[last] + (d - 1) * most <= B
      BY <1>1, <1>2, <1>6, <2>2 DEF Orders
    <3> QED BY <1>6, <1>7, <1>8, <2>2, <3>1
  <2> QED BY <2>1, <2>2
<1> QED BY <1>9, <1>10

LEMMA RoomAdds ==
  ASSUME NEW p \in Int, NEW size, NEW S, NEW most, NEW t \in S,
         Orders(size, S, most), p + size[t] <= MaxPosition
  PROVE  Room(p, size, S, most)
<1> DEFINE c == Cardinality(S)
           B == (Cardinality(Traders) - 1) * most
<1>1. most \in Nat /\ c \in Nat /\ c - 1 <= Cardinality(Traders) - 1 /\ MaxPosition \in Nat
      /\ Cardinality(Traders) - 1 \in Nat
  BY TradersFinite, RiskAssumption DEF Orders
<1>2. (c - 1) * most \in Int /\ B \in Int /\ (c - 1) * most <= B
  BY <1>1, Multiples
<1>3. B >= 0
  <2>1. 0 * most <= B
    BY <1>1, Multiples
  <2> QED BY <1>1, <2>1
<1> HIDE DEF B, c
<1>4. p <= MaxPosition + B /\ p + size[t] + (c - 1) * most <= MaxPosition + B
  BY <1>1, <1>2, <1>3 DEF Orders
<1> QED BY <1>4 DEF Room, Bounded, B, c

\* A trader that resets has no order checked.
LEMMA RoomAtZero ==
  ASSUME NEW size, NEW S, NEW most, Orders(size, S, most), S # Traders
  PROVE  Room(0, size, S, most)
<1> DEFINE c == Cardinality(S)
           B == (Cardinality(Traders) - 1) * most
<1>1. c <= Cardinality(Traders) - 1
  BY TradersFinite, FS_Subset DEF Orders
<1>2. most \in Nat /\ c \in Nat /\ MaxPosition \in Nat /\ Cardinality(Traders) - 1 \in Nat
  BY TradersFinite, RiskAssumption DEF Orders
<1>3. c * most \in Int /\ B \in Int /\ c * most <= B /\ (c - 1) * most = c * most - most
  BY <1>1, <1>2, Multiples
<1>4. B >= 0
  <2>1. 0 * most <= B
    BY <1>2, Multiples
  <2> QED BY <1>2, <2>1
<1> HIDE DEF B, c
<1>5. 0 <= MaxPosition + B
  BY <1>2, <1>3, <1>4
<1>6. \A t \in S : 0 + size[t] + (c - 1) * most <= MaxPosition + B
  BY <1>2, <1>3 DEF Orders
<1> QED BY <1>5, <1>6 DEF Room, Bounded, B, c

LEMMA RoomSame ==
  ASSUME NEW p, NEW S, NEW most, NEW size, NEW size2, \A t \in S : size2[t] = size[t],
         Room(p, size, S, most)
  PROVE  Room(p, size2, S, most)
BY DEF Room

LEMMA NotionalIsInt == \A o \in TraderOrders : Notional(o) \in Int
<1> SUFFICES ASSUME NEW o \in TraderOrders PROVE Notional(o) \in Int
  OBVIOUS
<1>1. o.size \in Int /\ o.price \in Int
  BY RiskAssumption DEF TraderOrders
<1> DEFINE n == o.size * o.price
<1>2. n \in Int /\ Scale \in Nat /\ Scale > 0
  BY <1>1, RiskAssumption
<1> HIDE DEF n
<1>3. n \div Scale \in Int /\ (-n) \div Scale \in Int
  BY <1>2
<1>4. Notional(o) = IF n < 0 THEN -((-n) \div Scale) ELSE n \div Scale
  BY DEF Notional, n
<1> QED BY <1>3, <1>4

LEMMA WorstIs ==
  /\ WorstFill \in Int
  /\ WorstFill <= 0
  /\ \A o \in TraderOrders : Notional(o) \in Int /\ WorstFill <= Notional(o)
<1> DEFINE P == Sizes \X OrderPrices
           L == {Notional(o) : o \in TraderOrders}
           F == [p \in P |-> Notional([size |-> p[1], price |-> p[2]])]
<1>1. IsFiniteSet(P)
  BY RiskAssumption, FS_Product
<1>2. F \in Surjection(P, L)
  <2>1. ASSUME NEW p \in P PROVE F[p] \in L
    <3>1. [size |-> p[1], price |-> p[2]] \in TraderOrders
      BY DEF TraderOrders
    <3> QED BY <3>1
  <2>2. ASSUME NEW v \in L PROVE \E p \in P : F[p] = v
    <3>1. PICK o \in TraderOrders : v = Notional(o)
      OBVIOUS
    <3>2. <<o.size, o.price>> \in P /\ o = [size |-> o.size, price |-> o.price]
      BY DEF TraderOrders
    <3>3. F[<<o.size, o.price>>] = Notional(o)
      BY <3>2
    <3> QED BY <3>1, <3>2, <3>3
  <2>3. F \in [P -> L]
    BY <2>1
  <2> QED BY <2>2, <2>3 DEF Surjection
<1>3. IsFiniteSet(L)
  BY <1>1, <1>2, FS_Surjection
<1>4. IsFiniteSet(Losses)
  BY <1>3, FS_Singleton, FS_Union DEF Losses
<1>5. Losses \in SUBSET Int /\ 0 \in Losses
  BY NotionalIsInt DEF Losses
<1>6. WorstFill \in Losses /\ \A x \in Losses : WorstFill <= x
  BY <1>4, <1>5, MinOfIntegers DEF WorstFill
<1>7. \A o \in TraderOrders : Notional(o) \in Losses
  BY DEF Losses
<1> QED BY <1>5, <1>6, <1>7, NotionalIsInt

LEMMA LossMultiples ==
  ASSUME NEW j \in Nat, NEW k \in Nat, j <= k
  PROVE  /\ j * WorstFill \in Int /\ k * WorstFill \in Int
         /\ j * WorstFill >= k * WorstFill
         /\ j * WorstFill <= 0
         /\ (j - 1) * WorstFill = j * WorstFill - WorstFill
<1> DEFINE m == -WorstFill
<1>1. m \in Nat /\ WorstFill = -m
  BY WorstIs
<1> HIDE DEF m
<1>2. /\ j * m \in Int /\ k * m \in Int /\ j * m <= k * m /\ (j - 1) * m = j * m - m
      /\ 0 * m <= j * m
  BY <1>1, Multiples
<1>3. /\ j * WorstFill = -(j * m) /\ k * WorstFill = -(k * m)
      /\ (j - 1) * WorstFill = -((j - 1) * m)
  BY <1>1
<1> QED BY <1>1, <1>2, <1>3

OrdersInv ==
  /\ Orders(Bought, Buyers, MaxOrder) /\ Orders(Sold, Sellers, MaxSell)
  /\ \A t \in Traders : /\ order[t].size \in Int
                        /\ Bought[t] = order[t].size /\ Sold[t] = -order[t].size

LEMMA RiskOrders == RiskType => OrdersInv
<1> SUFFICES ASSUME RiskType PROVE OrdersInv
  OBVIOUS
<1>1. ASSUME NEW t \in Traders PROVE order[t].size \in Int /\ -order[t].size <= MaxSell
  <2>1. order[t] \in TraderOrders \/ order[t] = NoOrder
    BY DEF RiskType
  <2>2. CASE order[t] = NoOrder
    BY <2>2, RiskAssumption DEF NoOrder
  <2>3. CASE order[t] \in TraderOrders
    <3>1. order[t].size \in Sizes
      BY <2>3 DEF TraderOrders
    <3> QED BY <3>1, RiskAssumption
  <2> QED BY <2>1, <2>2, <2>3
<1>2. Orders(Bought, Buyers, MaxOrder)
  BY <1>1, RiskAssumption DEF Orders, Buyers, Checked, Bought, RiskType
<1>3. Orders(Sold, Sellers, MaxSell)
  BY <1>1, RiskAssumption DEF Orders, Sellers, Checked, Sold, RiskType
<1> QED BY <1>1, <1>2, <1>3 DEF Bought, Sold, OrdersInv

LEMMA InitRiskInv == RiskInit => RiskInv
<1> SUFFICES ASSUME RiskInit PROVE RiskInv
  OBVIOUS
<1>1. Checked = {} /\ Uncharged = {} /\ Buyers = {} /\ Sellers = {}
  BY DEF RiskInit, Checked, Uncharged, Buyers, Sellers
<1>2. RiskType
  BY <1>1 DEF RiskInit, RiskType
<1>3. (Cardinality(Traders) - 1) * MaxOrder >= 0 /\ (Cardinality(Traders) - 1) * MaxSell >= 0
  <2>1. /\ 0 * MaxOrder <= (Cardinality(Traders) - 1) * MaxOrder
        /\ 0 * MaxSell <= (Cardinality(Traders) - 1) * MaxSell
    BY TradersFinite, RiskAssumption, Multiples
  <2> QED BY <2>1, RiskAssumption
<1>4. /\ (Cardinality(Traders) - 1) * MaxOrder \in Int
      /\ (Cardinality(Traders) - 1) * MaxSell \in Int
  BY TradersFinite, RiskAssumption
<1>5. Room(position, Bought, Buyers, MaxOrder) /\ Room(-position, Sold, Sellers, MaxSell)
  BY <1>1, <1>3, <1>4, RiskAssumption DEF RiskInit, Room, Bounded
<1>6. PnlInv
  <2>1. Cardinality(Uncharged) = 0 /\ pnl = 0 /\ MaxLoss \in Nat
    BY <1>1, FS_EmptySet, RiskAssumption DEF RiskInit
  <2>2. /\ 0 * WorstFill = 0
        /\ Cardinality(Traders) * WorstFill \in Int /\ Cardinality(Traders) * WorstFill <= 0
    BY TradersFinite, LossMultiples, WorstIs
  <2> QED BY <2>1, <2>2 DEF PnlInv, Covered
<1> QED BY <1>2, <1>5, <1>6 DEF RiskInv

LEMMA CoveredFresh ==
  ASSUME NEW p \in Int, NEW S \in SUBSET Traders, p >= -MaxLoss
  PROVE  Covered(p, S)
<1>1. /\ Cardinality(S) * WorstFill >= Cardinality(Traders) * WorstFill
      /\ Cardinality(S) * WorstFill \in Int /\ Cardinality(Traders) * WorstFill \in Int
  BY TradersFinite, LossMultiples
<1> QED BY <1>1, RiskAssumption DEF Covered

LEMMA CoveredDrops ==
  ASSUME NEW p \in Int, NEW S \in SUBSET Traders, NEW t \in S, Covered(p, S),
         NEW v \in Int, v >= WorstFill
  PROVE  Covered(p, S \ {t}) /\ Covered(p + v, S \ {t})
<1> DEFINE c == Cardinality(S)
           d == Cardinality(S \ {t})
           N == Cardinality(Traders) * WorstFill
<1>1. c \in Nat /\ d \in Nat /\ d = c - 1
  BY TradersFinite, FS_RemoveElement
<1>2. /\ c * WorstFill \in Int /\ N \in Int /\ (c - 1) * WorstFill = c * WorstFill - WorstFill
  BY <1>1, TradersFinite, LossMultiples
<1>3. p + c * WorstFill >= -MaxLoss + N
  BY DEF Covered
<1>4. d * WorstFill = c * WorstFill - WorstFill
  BY <1>1, <1>2
<1> HIDE DEF c, d, N
<1>5. p + d * WorstFill >= -MaxLoss + N /\ p + v + d * WorstFill >= -MaxLoss + N
  BY <1>2, <1>3, <1>4, WorstIs, RiskAssumption
<1> QED BY <1>5 DEF Covered, d, N

\* Steps after which the same orders are checked.
LEMMA SameOrders ==
  ASSUME RiskType, Buyers' = Buyers, Sellers' = Sellers, UNCHANGED position,
         \A t \in Checked : order'[t] = order[t], RiskInv
  PROVE  Room(position, Bought, Buyers, MaxOrder)' /\ Room(-position, Sold, Sellers, MaxSell)'
<1>1. \A t \in Buyers : Bought'[t] = Bought[t]
  BY DEF Bought, Buyers, Checked
<1>2. \A t \in Sellers : Sold'[t] = Sold[t]
  BY DEF Sold, Sellers, Checked
<1>3. Room(position, Bought', Buyers, MaxOrder) /\ Room(-position, Sold', Sellers, MaxSell)
  BY <1>1, <1>2, RoomSame DEF RiskInv
<1> QED BY <1>3

LEMMA CheckPositionInv ==
  ASSUME NEW t \in Traders, NEW o \in TraderOrders, RiskInv, CheckPosition(t, o)
  PROVE  RiskInv'
<1>1. RiskType /\ PnlInv
  BY DEF RiskInv
<1>2. /\ UNCHANGED <<position, pnl>>
      /\ pc[t] = "idle" /\ pc' = [pc EXCEPT ![t] = "checkLoss"]
      /\ order' = [order EXCEPT ![t] = o]
      /\ o.size <= MaxOrder /\ FitsPosition(o.size)
  BY DEF CheckPosition, Goto
<1>3. /\ pc' \in [Traders -> {"idle", "checkLoss", "passed", "fillPnl", "fillCount",
                              "resetPosition", "resetCount"}]
      /\ order' \in [Traders -> TraderOrders \cup {NoOrder}]
      /\ pc'[t] = "checkLoss" /\ order'[t] = o
      /\ \A u \in Traders : u # t => pc'[u] = pc[u] /\ order'[u] = order[u]
  BY <1>1, <1>2 DEF RiskType
<1>4. Checked' = Checked \cup {t} /\ t \notin Checked /\ Uncharged' = Uncharged
  BY <1>2, <1>3 DEF Checked, Uncharged
<1>5. RiskType'
  <2>1. \A u \in Checked' : order'[u].size <= MaxOrder
    BY <1>1, <1>2, <1>3, <1>4 DEF RiskType, Checked
  <2>2. \A u \in Checked' \cup Uncharged' : order'[u] \in TraderOrders
    BY <1>1, <1>2, <1>3, <1>4 DEF RiskType, Uncharged, Checked
  <2> QED BY <1>1, <1>2, <1>3, <2>1, <2>2 DEF RiskType
<1>6. /\ Orders(Bought', Buyers', MaxOrder) /\ Orders(Sold', Sellers', MaxSell)
      /\ Bought'[t] = o.size /\ Sold'[t] = -o.size
  <2>1. OrdersInv'
    BY <1>5, RiskOrders, PTL
  <2> QED BY <1>3, <2>1 DEF OrdersInv
<1>7. position \in Int /\ o.size \in Int
  <2>1. o.size \in Sizes
    BY DEF TraderOrders
  <2> QED BY <1>1, <2>1, RiskAssumption DEF RiskType
<1>8. position + o.size <= MaxPosition /\ -position - o.size <= MaxPosition
  BY <1>2, <1>7, RiskAssumption DEF FitsPosition, Magnitude
<1>9. \A u \in Checked : order'[u] = order[u]
  BY <1>3, <1>4 DEF Checked
<1>10. Room(position, Bought', Buyers', MaxOrder)
  <2>1. CASE t \in Buyers'
    BY <1>6, <1>7, <1>8, <2>1, RoomAdds
  <2>2. CASE t \notin Buyers'
    <3>1. Buyers' = Buyers
      BY <1>3, <1>4, <2>2 DEF Buyers, Checked
    <3>2. \A u \in Buyers : Bought'[u] = Bought[u]
      BY <1>9 DEF Bought, Buyers, Checked
    <3> QED BY <3>1, <3>2, RoomSame DEF RiskInv
  <2> QED BY <2>1, <2>2
<1>11. Room(-position, Sold', Sellers', MaxSell)
  <2>1. CASE t \in Sellers'
    <3>1. -position \in Int /\ -position + Sold'[t] <= MaxPosition
      BY <1>6, <1>7, <1>8
    <3> QED BY <1>6, <2>1, <3>1, RoomAdds
  <2>2. CASE t \notin Sellers'
    <3>1. Sellers' = Sellers
      BY <1>3, <1>4, <2>2 DEF Sellers, Checked
    <3>2. \A u \in Sellers : Sold'[u] = Sold[u]
      BY <1>9 DEF Sold, Sellers, Checked
    <3> QED BY <3>1, <3>2, RoomSame DEF RiskInv
  <2> QED BY <2>1, <2>2
<1>12. PnlInv'
  BY <1>1, <1>2, <1>4 DEF PnlInv
<1> QED BY <1>2, <1>5, <1>10, <1>11, <1>12 DEF RiskInv

\* A trader goes on; its order stays.
LEMMA GoesOn ==
  ASSUME NEW t \in Traders, RiskInv, NEW to,
         to \in {"idle", "checkLoss", "passed", "fillPnl", "fillCount",
                 "resetPosition", "resetCount"},
         pc' = [pc EXCEPT ![t] = to]
  PROVE  /\ pc' \in [Traders -> {"idle", "checkLoss", "passed", "fillPnl", "fillCount",
                                 "resetPosition", "resetCount"}]
         /\ pc'[t] = to /\ \A u \in Traders : u # t => pc'[u] = pc[u]
         /\ Checked' = IF to \in {"checkLoss", "passed"} THEN Checked \cup {t}
                       ELSE Checked \ {t}
         /\ Uncharged' = IF to \in {"passed", "fillPnl"} THEN Uncharged \cup {t}
                         ELSE Uncharged \ {t}
<1>1. /\ pc' \in [Traders -> {"idle", "checkLoss", "passed", "fillPnl", "fillCount",
                              "resetPosition", "resetCount"}]
      /\ pc'[t] = to /\ \A u \in Traders : u # t => pc'[u] = pc[u]
  BY DEF RiskInv, RiskType
<1> QED BY <1>1 DEF Checked, Uncharged

\* The order of t is given up after a check.
LEMMA GivesUp ==
  ASSUME NEW t \in Checked, RiskInv, UNCHANGED <<position, pnl>>,
         pc' = [pc EXCEPT ![t] = "idle"], Forget(t)
  PROVE  RiskInv'
<1>1. RiskType /\ PnlInv /\ t \in Traders
  BY DEF RiskInv, Checked
<1>2. /\ pc' \in [Traders -> {"idle", "checkLoss", "passed", "fillPnl", "fillCount",
                              "resetPosition", "resetCount"}]
      /\ Checked' = Checked \ {t} /\ Uncharged' = Uncharged \ {t}
  BY <1>1, GoesOn
<1>3. /\ order' \in [Traders -> TraderOrders \cup {NoOrder}]
      /\ \A u \in Traders : u # t => order'[u] = order[u]
  BY <1>1 DEF Forget, RiskType
<1>4. RiskType'
  BY <1>1, <1>2, <1>3 DEF RiskType, Checked, Uncharged
<1>5. Orders(Bought, Buyers, MaxOrder) /\ Orders(Sold, Sellers, MaxSell) /\ position \in Int
  BY <1>1, RiskOrders DEF OrdersInv, RiskType
<1>6. Buyers' = Buyers \ {t} /\ Sellers' = Sellers \ {t}
  BY <1>2, <1>3 DEF Buyers, Sellers, Checked
<1>7. Room(position, Bought, Buyers', MaxOrder) /\ Room(-position, Sold, Sellers', MaxSell)
  <2>1. Room(position, Bought, Buyers', MaxOrder)
    <3>1. Buyers' = Buyers \/ t \in Buyers
      BY <1>6
    <3> QED BY <1>5, <1>6, <3>1, RoomDrops DEF RiskInv
  <2>2. Room(-position, Sold, Sellers', MaxSell)
    <3>1. Sellers' = Sellers \/ t \in Sellers
      BY <1>6
    <3>2. -position \in Int
      BY <1>5
    <3> QED BY <1>5, <1>6, <3>1, <3>2, RoomDrops DEF RiskInv
  <2> QED BY <2>1, <2>2
<1>8. /\ \A u \in Buyers' : Bought'[u] = Bought[u]
      /\ \A u \in Sellers' : Sold'[u] = Sold[u]
  BY <1>3, <1>6 DEF Bought, Sold, Buyers, Sellers, Checked
<1>9. Room(position, Bought', Buyers', MaxOrder) /\ Room(-position, Sold', Sellers', MaxSell)
  BY <1>7, <1>8, RoomSame
<1>10. Covered(pnl, Uncharged')
  <2>1. pnl \in Int /\ Uncharged \in SUBSET Traders /\ Covered(pnl, Uncharged)
    BY <1>1 DEF RiskType, Uncharged, PnlInv
  <2>2. CASE t \in Uncharged
    BY <1>2, <2>1, <2>2, CoveredDrops, WorstIs
  <2>3. CASE t \notin Uncharged
    <3>1. Uncharged' = Uncharged
      BY <1>2, <2>3
    <3> QED BY <2>1, <3>1
  <2> QED BY <2>2, <2>3
<1> QED BY <1>4, <1>9, <1>10 DEF RiskInv, PnlInv

LEMMA CheckLossInv == ASSUME NEW t \in Traders, RiskInv, CheckLoss(t) PROVE RiskInv'
<1>1. RiskType /\ PnlInv
  BY DEF RiskInv
<1>2. pc[t] = "checkLoss" /\ UNCHANGED <<position, pnl>> /\ t \in Checked
  BY DEF CheckLoss, Checked
<1>3. CASE WithinLoss /\ pc' = [pc EXCEPT ![t] = "passed"] /\ UNCHANGED order
  <2>1. /\ pc' \in [Traders -> {"idle", "checkLoss", "passed", "fillPnl", "fillCount",
                                "resetPosition", "resetCount"}]
        /\ Checked' = Checked /\ Uncharged' = Uncharged \cup {t}
    <3>1. Checked' = Checked \cup {t} /\ Uncharged' = Uncharged \cup {t}
      BY <1>3, GoesOn
    <3> QED BY ZenonT(30), <1>2, <1>3, <3>1, GoesOn
  <2>2. RiskType'
    BY <1>1, <1>2, <1>3, <2>1 DEF RiskType
  <2>3. Buyers' = Buyers /\ Sellers' = Sellers
    BY <1>3, <2>1 DEF Buyers, Sellers
  <2>4. Room(position, Bought, Buyers, MaxOrder)' /\ Room(-position, Sold, Sellers, MaxSell)'
    BY <1>1, <1>2, <1>3, <2>3, SameOrders
  <2>5. Covered(pnl, Uncharged')
    <3>1. pnl \in Int /\ pnl >= -MaxLoss
      BY <1>1, <1>3 DEF RiskType, WithinLoss
    <3>2. Uncharged' \in SUBSET Traders
      BY DEF Uncharged
    <3> QED BY <3>1, <3>2, CoveredFresh
  <2> QED BY <1>2, <2>2, <2>4, <2>5 DEF RiskInv, PnlInv
<1>4. CASE pc' = [pc EXCEPT ![t] = "idle"] /\ Forget(t)
  BY <1>2, <1>4, GivesUp
<1> QED BY <1>3, <1>4 DEF CheckLoss

LEMMA FillPositionInv == ASSUME NEW t \in Traders, RiskInv, FillPosition(t) PROVE RiskInv'
<1>1. RiskType /\ PnlInv
  BY DEF RiskInv
<1>2. /\ UNCHANGED <<pnl, order>> /\ position' = position + order[t].size
      /\ pc[t] = "passed" /\ pc' = [pc EXCEPT ![t] = "fillPnl"]
      /\ t \in Checked /\ t \in Uncharged
  BY DEF FillPosition, Goto, Checked, Uncharged
<1>3. /\ pc' \in [Traders -> {"idle", "checkLoss", "passed", "fillPnl", "fillCount",
                              "resetPosition", "resetCount"}]
      /\ Checked' = Checked \ {t} /\ Uncharged' = Uncharged
  <2>1. Checked' = Checked \ {t} /\ Uncharged' = Uncharged \cup {t}
    BY <1>2, GoesOn
  <2> QED BY ZenonT(30), <1>2, <2>1, GoesOn
<1>4. /\ Orders(Bought, Buyers, MaxOrder) /\ Orders(Sold, Sellers, MaxSell)
      /\ order[t].size \in Int /\ position \in Int
      /\ Bought[t] = order[t].size /\ Sold[t] = -order[t].size
  BY <1>1, RiskOrders DEF OrdersInv, RiskType
<1>5. RiskType'
  <2>1. position' \in Int
    BY <1>2, <1>4
  <2> QED BY <1>1, <1>2, <1>3, <2>1 DEF RiskType
<1>6. Buyers' = Buyers \ {t} /\ Sellers' = Sellers \ {t} /\ Bought' = Bought /\ Sold' = Sold
  BY <1>2, <1>3 DEF Buyers, Sellers, Bought, Sold
<1>7. Room(position', Bought, Buyers', MaxOrder)
  <2>1. CASE t \in Buyers
    BY <1>2, <1>4, <1>6, <2>1, RoomDrops DEF RiskInv
  <2>2. CASE t \notin Buyers
    <3>1. order[t].size <= 0 /\ Buyers' = Buyers
      BY <1>2, <1>4, <1>6, <2>2 DEF Buyers
    <3>2. position' \in Int /\ position' <= position
      BY <1>2, <1>4, <3>1
    <3> QED BY <1>4, <3>1, <3>2, RoomFalls DEF RiskInv
  <2> QED BY <2>1, <2>2
<1>8. Room(-position', Sold, Sellers', MaxSell)
  <2>1. -position \in Int /\ -position' = -position + Sold[t]
    BY <1>2, <1>4
  <2>2. CASE t \in Sellers
    <3>1. PICK q \in Int : q = -position
      BY <2>1
    <3>2. Orders(Sold, Sellers, MaxSell) /\ Room(q, Sold, Sellers, MaxSell)
      BY <1>4, <3>1 DEF RiskInv
    <3>3. Room(q + Sold[t], Sold, Sellers \ {t}, MaxSell)
      BY <2>2, <3>2, RoomDrops
    <3> QED BY <1>6, <2>1, <3>1, <3>3
  <2>3. CASE t \notin Sellers
    <3>1. order[t].size >= 0 /\ Sellers' = Sellers
      BY <1>2, <1>4, <1>6, <2>3 DEF Sellers
    <3>2. -position' \in Int /\ -position' <= -position
      BY <1>4, <2>1, <3>1
    <3> QED BY <1>4, <2>1, <3>1, <3>2, RoomFalls DEF RiskInv
  <2> QED BY <2>2, <2>3
<1>9. PnlInv'
  BY <1>1, <1>2, <1>3 DEF PnlInv
<1> QED BY <1>5, <1>6, <1>7, <1>8, <1>9 DEF RiskInv

LEMMA FillPnlInv == ASSUME NEW t \in Traders, RiskInv, FillPnl(t) PROVE RiskInv'
<1>1. RiskType /\ PnlInv
  BY DEF RiskInv
<1>2. /\ UNCHANGED <<position, order>> /\ pnl' = pnl + Notional(order[t])
      /\ pc[t] = "fillPnl" /\ pc' = [pc EXCEPT ![t] = "fillCount"]
      /\ t \notin Checked /\ t \in Uncharged
  BY DEF FillPnl, Goto, Checked, Uncharged
<1>3. /\ pc' \in [Traders -> {"idle", "checkLoss", "passed", "fillPnl", "fillCount",
                              "resetPosition", "resetCount"}]
      /\ Checked' = Checked /\ Uncharged' = Uncharged \ {t}
  <2>1. Checked' = Checked \ {t} /\ Uncharged' = Uncharged \ {t}
    BY <1>2, GoesOn
  <2> QED BY ZenonT(30), <1>2, <2>1, GoesOn
<1>4. pnl \in Int /\ Notional(order[t]) \in Int /\ Notional(order[t]) >= WorstFill
  BY <1>1, <1>2, WorstIs DEF RiskType
<1>5. RiskType'
  <2>1. pnl' \in Int
    BY <1>2, <1>4
  <2> QED BY <1>1, <1>2, <1>3, <2>1 DEF RiskType
<1>6. Buyers' = Buyers /\ Sellers' = Sellers
  BY <1>2, <1>3 DEF Buyers, Sellers
<1>7. Room(position, Bought, Buyers, MaxOrder)' /\ Room(-position, Sold, Sellers, MaxSell)'
  BY <1>1, <1>2, <1>6, SameOrders
<1>8. Covered(pnl', Uncharged')
  <2>1. Uncharged \in SUBSET Traders /\ Covered(pnl, Uncharged)
    BY <1>1 DEF Uncharged, PnlInv
  <2> QED BY <1>2, <1>3, <1>4, <2>1, CoveredDrops
<1> QED BY <1>5, <1>7, <1>8 DEF RiskInv, PnlInv

LEMMA FillCountInv == ASSUME NEW t \in Traders, RiskInv, FillCount(t) PROVE RiskInv'
<1>1. RiskType /\ PnlInv
  BY DEF RiskInv
<1>2. /\ UNCHANGED <<position, pnl>> /\ Forget(t)
      /\ pc[t] = "fillCount" /\ pc' = [pc EXCEPT ![t] = "idle"]
      /\ t \notin Checked /\ t \notin Uncharged
  BY DEF FillCount, Goto, Checked, Uncharged
<1>3. /\ pc' \in [Traders -> {"idle", "checkLoss", "passed", "fillPnl", "fillCount",
                              "resetPosition", "resetCount"}]
      /\ Checked' = Checked /\ Uncharged' = Uncharged
  <2>1. Checked' = Checked \ {t} /\ Uncharged' = Uncharged \ {t}
    BY <1>2, GoesOn
  <2>2. Checked \ {t} = Checked /\ Uncharged \ {t} = Uncharged
    BY <1>2
  <2>3. pc' \in [Traders -> {"idle", "checkLoss", "passed", "fillPnl", "fillCount",
                             "resetPosition", "resetCount"}]
    BY <1>2, GoesOn
  <2> QED BY <2>1, <2>2, <2>3
<1>4. /\ order' \in [Traders -> TraderOrders \cup {NoOrder}]
      /\ \A u \in Traders : u # t => order'[u] = order[u]
  BY <1>1, <1>2 DEF Forget, RiskType
<1>5. \A u \in Checked \cup Uncharged : order'[u] = order[u]
  BY <1>2, <1>4 DEF Checked, Uncharged
<1>6. RiskType'
  BY <1>1, <1>2, <1>3, <1>4, <1>5 DEF RiskType
<1>7. Buyers' = Buyers /\ Sellers' = Sellers
  BY <1>3, <1>5 DEF Buyers, Sellers
<1>8. Room(position, Bought, Buyers, MaxOrder)' /\ Room(-position, Sold, Sellers, MaxSell)'
  BY <1>1, <1>2, <1>5, <1>7, SameOrders
<1>9. PnlInv'
  BY <1>1, <1>2, <1>3 DEF PnlInv
<1> QED BY <1>6, <1>8, <1>9 DEF RiskInv

LEMMA ResetInv == ASSUME NEW t \in Traders, RiskInv, ResetDay(t) PROVE RiskInv'
<1>1. RiskType /\ PnlInv
  BY DEF RiskInv
<1>2. UNCHANGED order /\ t \notin Checked /\ t \notin Uncharged
  BY DEF ResetDay, ResetPnl, ResetPosition, ResetCount, Goto, Checked, Uncharged
<1>3. PICK to \in {"idle", "resetPosition", "resetCount"} : pc' = [pc EXCEPT ![t] = to]
  BY DEF ResetDay, ResetPnl, ResetPosition, ResetCount, Goto
<1>4. /\ pc' \in [Traders -> {"idle", "checkLoss", "passed", "fillPnl", "fillCount",
                              "resetPosition", "resetCount"}]
      /\ Checked' = Checked /\ Uncharged' = Uncharged
  <2>1. Checked' = Checked \ {t} /\ Uncharged' = Uncharged \ {t}
    BY <1>3, GoesOn
  <2>2. Checked \ {t} = Checked /\ Uncharged \ {t} = Uncharged
    BY <1>2
  <2>3. pc' \in [Traders -> {"idle", "checkLoss", "passed", "fillPnl", "fillCount",
                             "resetPosition", "resetCount"}]
    BY <1>3, GoesOn
  <2> QED BY <2>1, <2>2, <2>3
<1>5. Buyers' = Buyers /\ Sellers' = Sellers /\ Bought' = Bought /\ Sold' = Sold
  BY <1>2, <1>4 DEF Buyers, Sellers, Bought, Sold
<1>6. /\ position' = position \/ position' = 0
      /\ pnl' = pnl \/ pnl' = 0
  BY DEF ResetDay, ResetPnl, ResetPosition, ResetCount
<1>7. RiskType'
  <2>1. position' \in Int /\ pnl' \in Int
    BY <1>1, <1>6 DEF RiskType
  <2> QED BY <1>1, <1>2, <1>4, <2>1 DEF RiskType
<1>8. Room(position, Bought, Buyers, MaxOrder)' /\ Room(-position, Sold, Sellers, MaxSell)'
  <2>1. Orders(Bought, Buyers, MaxOrder) /\ Orders(Sold, Sellers, MaxSell)
    BY <1>1, RiskOrders DEF OrdersInv
  <2>2. Buyers # Traders /\ Sellers # Traders
    BY <1>2 DEF Buyers, Sellers
  <2>3. Room(0, Bought, Buyers, MaxOrder)
    BY <2>1, <2>2, RoomAtZero
  <2>4. Room(0, Sold, Sellers, MaxSell)
    BY <2>1, <2>2, RoomAtZero
  <2>5. -position' = -position \/ -position' = 0
    BY <1>6
  <2>6. Room(position', Bought, Buyers, MaxOrder) /\ Room(-position', Sold, Sellers, MaxSell)
    BY <1>6, <2>3, <2>4, <2>5 DEF RiskInv
  <2> QED BY <1>5, <2>6
<1>9. Covered(pnl', Uncharged)
  <2>1. Uncharged \in SUBSET Traders /\ 0 >= -MaxLoss
    BY RiskAssumption DEF Uncharged
  <2>2. Covered(0, Uncharged)
    BY <2>1, CoveredFresh
  <2> QED BY <1>1, <1>6, <2>2 DEF PnlInv
<1> QED BY <1>4, <1>7, <1>8, <1>9 DEF RiskInv, PnlInv

\* Behind the limits: the last order to be checked saw a position within the limit,
\* whatever was checked before it is still within its share, and a reset by a
\* trader without a checked order never adds to it.
THEOREM RiskInvariance == RiskSpec => []RiskInv
<1>1. RiskInv /\ [RiskNext]_riskVars => RiskInv'
  <2> SUFFICES ASSUME RiskInv, [RiskNext]_riskVars PROVE RiskInv'
    OBVIOUS
  <2>1. ASSUME NEW t \in Traders, NEW o \in TraderOrders, CheckPosition(t, o) PROVE RiskInv'
    BY <2>1, CheckPositionInv
  <2>2. ASSUME NEW t \in Traders, CheckLoss(t) PROVE RiskInv'
    BY <2>2, CheckLossInv
  <2>3. ASSUME NEW t \in Traders, FillPosition(t) PROVE RiskInv'
    BY <2>3, FillPositionInv
  <2>4. ASSUME NEW t \in Traders, FillPnl(t) PROVE RiskInv'
    BY <2>4, FillPnlInv
  <2>5. ASSUME NEW t \in Traders, FillCount(t) PROVE RiskInv'
    BY <2>5, FillCountInv
  <2>6. ASSUME NEW t \in Traders, GiveUp(t) PROVE RiskInv'
    <3>1. /\ t \in Checked /\ UNCHANGED <<position, pnl>> /\ Forget(t)
          /\ pc' = [pc EXCEPT ![t] = "idle"]
      BY <2>6 DEF GiveUp, Goto, Checked
    <3> QED BY <3>1, GivesUp
  <2>7. ASSUME NEW t \in Traders, ResetDay(t) PROVE RiskInv'
    BY <2>7, ResetInv
  <2>8. CASE UNCHANGED riskVars
    <3>1. UNCHANGED <<position, pnl, order, pc>>
      BY <2>8 DEF riskVars
    <3>2. /\ UNCHANGED <<Checked, Buyers, Sellers, Uncharged, Bought, Sold>>
      BY <3>1 DEF Checked, Buyers, Sellers, Uncharged, Bought, Sold
    <3> QED BY <3>1, <3>2 DEF RiskInv, RiskType, PnlInv
  <2> QED BY <2>1, <2>2, <2>3, <2>4, <2>5, <2>6, <2>7, <2>8 DEF RiskNext, Check, Fill
<1> QED BY <1>1, InitRiskInv, PTL DEF RiskSpec

\* Traders that check and fill without a common lock exceed the position limit by
\* at most one order for every other of them and the loss limit by at most one fill
\* each, resets of the day included.
THEOREM OvershootIsBounded == RiskSpec => []LimitsOvershoot
<1>1. RiskInv => LimitsOvershoot
  <2> SUFFICES ASSUME RiskInv PROVE LimitsOvershoot
    OBVIOUS
  <2> DEFINE N == Cardinality(Traders)
             c == Cardinality(Uncharged)
  <2>1. position \in Int /\ pnl \in Int /\ c \in Nat /\ N \in Nat /\ c <= N
    BY TradersFinite DEF RiskInv, RiskType, Uncharged
  <2>2. position <= MaxPosition + (N - 1) * MaxOrder
    BY DEF RiskInv, Room, Bounded
  <2>3. position >= -(MaxPosition + (N - 1) * MaxSell)
    <3>1. -position <= MaxPosition + (N - 1) * MaxSell
      BY DEF RiskInv, Room, Bounded
    <3>2. (N - 1) * MaxSell \in Int /\ MaxPosition \in Int
      BY <2>1, RiskAssumption
    <3> QED BY <2>1, <3>1, <3>2
  <2>4. pnl >= -MaxLoss + N * WorstFill
    <3>1. pnl + c * WorstFill >= -MaxLoss + N * WorstFill
      BY DEF RiskInv, PnlInv, Covered
    <3>2. c * WorstFill \in Int /\ N * WorstFill \in Int /\ c * WorstFill <= 0
      BY <2>1, LossMultiples
    <3> QED BY <2>1, <3>1, <3>2, RiskAssumption
  <2> QED BY <2>2, <2>3, <2>4 DEF LimitsOvershoot, WorstFill, Losses
<1> QED BY <1>1, RiskInvariance, PTL
-----------------------------------------------------------------------------
(***************************************************************************)
(* BitScanningOrderBook: a level for every live order                      *)
(***************************************************************************)
BitType ==
  /\ level \in [Sides -> [Slots -> Nat]]
  /\ mask \in [Sides -> SUBSET Slots]
  /\ count \in [Sides -> Int]
  /\ orders \in Seq([id : OrderIds, price : Prices, side : Sides, live : BOOLEAN])

\* The first level with a price is the one in use, so that removing an order frees
\* its own.
FirstIsInUse(s) == \A l \in mask[s], k \in Slots : k < l => level[s][k] # level[s][l]

BitInv ==
  /\ BitType
  /\ NoOrderLosesLevel
  /\ LevelsAreOrders
  /\ \A s \in Sides \ shared : FirstIsInUse(s)

LEMMA BitFinite ==
  ASSUME BitType
  PROVE  /\ Slots \subseteq Nat /\ Len(orders) \in Nat /\ DOMAIN orders = 1..Len(orders)
         /\ \A s \in Sides : IsFiniteSet(mask[s]) /\ Cardinality(mask[s]) \in Nat
         /\ \A s \in Sides, p \in Nat :
              /\ IsFiniteSet(InUse(s, p)) /\ Cardinality(InUse(s, p)) \in Nat
              /\ IsFiniteSet(Live(s, p)) /\ Cardinality(Live(s, p)) \in Nat
<1>1. Slots \subseteq Nat /\ IsFiniteSet(Slots)
  BY BitBookAssumption, FS_Interval DEF Slots
<1>2. Len(orders) \in Nat /\ DOMAIN orders = 1..Len(orders)
  BY DEF BitType
<1>3. IsFiniteSet(1..Len(orders))
  BY <1>2, FS_Interval
<1>4. ASSUME NEW s \in Sides PROVE IsFiniteSet(mask[s]) /\ Cardinality(mask[s]) \in Nat
  BY <1>1, FS_Subset, FS_CardinalityType DEF BitType
<1>5. ASSUME NEW s \in Sides, NEW p \in Nat
      PROVE  /\ IsFiniteSet(InUse(s, p)) /\ Cardinality(InUse(s, p)) \in Nat
             /\ IsFiniteSet(Live(s, p)) /\ Cardinality(Live(s, p)) \in Nat
  <2>1. InUse(s, p) \subseteq mask[s] /\ Live(s, p) \subseteq 1..Len(orders)
    BY <1>2 DEF InUse, Live
  <2> QED BY <1>3, <1>4, <2>1, FS_Subset, FS_CardinalityType
<1> QED BY <1>1, <1>2, <1>4, <1>5

\* As at the start and after a reset, whatever the levels hold.
EmptyBook ==
  /\ level \in [Sides -> [Slots -> Nat]]
  /\ mask = [s \in Sides |-> {}]
  /\ count = [s \in Sides |-> 0]
  /\ orders = << >>

LEMMA EmptyBitInv == EmptyBook => BitInv
<1> SUFFICES ASSUME EmptyBook PROVE BitInv
  OBVIOUS
<1> USE DEF EmptyBook
<1>1. BitType
  BY DEF BitType
<1>2. \A s \in Sides, p \in Prices : InUse(s, p) = {} /\ Live(s, p) = {}
  BY DEF InUse, Live
<1>3. \A s \in Sides : Cardinality(mask[s]) = 0 /\ count[s] = 0
  BY FS_EmptySet
<1>4. Cardinality({}) = 0
  BY FS_EmptySet
<1>5. NoOrderLosesLevel
  <2>1. ASSUME NEW s \in Sides, NEW p \in Prices
        PROVE  Cardinality(InUse(s, p)) >= Cardinality(Live(s, p))
    <3>1. Cardinality(InUse(s, p)) = 0 /\ Cardinality(Live(s, p)) = 0
      BY <1>2, <1>4
    <3> QED BY <3>1
  <2> QED BY <2>1 DEF NoOrderLosesLevel
<1>6. LevelsAreOrders
  <2>1. ASSUME NEW s \in Sides
        PROVE  /\ \A p \in Prices : Cardinality(InUse(s, p)) = Cardinality(Live(s, p))
               /\ count[s] = Cardinality(mask[s])
    <3>1. count[s] = Cardinality(mask[s])
      BY <1>3
    <3> QED BY <1>2, <3>1
  <2> QED BY <2>1 DEF LevelsAreOrders
<1>7. \A s \in Sides : FirstIsInUse(s)
  BY DEF FirstIsInUse
<1> QED BY <1>1, <1>5, <1>6, <1>7 DEF BitInv

LEMMA AddOrderInv ==
  ASSUME NEW id \in OrderIds, NEW p \in Prices, NEW s \in Sides, BitInv, AddOrder(id, p, s)
  PROVE  BitInv'
<1> DEFINE l == Min(FreeSlots(s))
           o == [id |-> id, price |-> p, side |-> s, live |-> TRUE]
<1>1. BitType /\ NoOrderLosesLevel /\ LevelsAreOrders
  BY DEF BitInv
<1>2. p \in Nat
  BY BitBookAssumption
<1>3. /\ Len(orders) \in Nat /\ Slots \subseteq Nat /\ DOMAIN orders = 1..Len(orders)
  BY <1>1, BitFinite
<1>4. /\ FreeSlots(s) # {}
      /\ level' = [level EXCEPT ![s][l] = p]
      /\ mask' = [mask EXCEPT ![s] = @ \cup {l}]
      /\ count' = [count EXCEPT ![s] = @ + 1]
      /\ orders' = Append(orders, o)
      /\ shared' = IF Live(s, p) = {} THEN shared ELSE shared \cup {s}
  BY DEF AddOrder
<1>5. l \in Slots /\ l \notin mask[s] /\ \A k \in Slots : k < l => k \in mask[s]
  <2>1. FreeSlots(s) \in SUBSET Nat
    BY <1>3 DEF FreeSlots
  <2>2. l \in FreeSlots(s) /\ \A k \in FreeSlots(s) : l <= k
    BY <1>4, <2>1, MinOfNaturals
  <2> HIDE DEF l
  <2>3. l \in Slots /\ l \notin mask[s]
    BY <2>2 DEF FreeSlots
  <2>4. ASSUME NEW k \in Slots, k < l PROVE k \notin FreeSlots(s)
    BY <1>3, <2>2, <2>3, <2>4
  <2> QED BY <2>3, <2>4 DEF FreeSlots
<1> HIDE DEF l
<1>6. /\ level' \in [Sides -> [Slots -> Nat]] /\ mask' \in [Sides -> SUBSET Slots]
      /\ count' \in [Sides -> Int]
  BY <1>1, <1>2, <1>4, <1>5 DEF BitType
<1>7. /\ \A r \in Sides : r # s => /\ level'[r] = level[r] /\ mask'[r] = mask[r]
                                   /\ count'[r] = count[r]
      /\ level'[s][l] = p /\ \A k \in Slots : k # l => level'[s][k] = level[s][k]
      /\ mask'[s] = mask[s] \cup {l} /\ count'[s] = count[s] + 1
  BY <1>1, <1>4, <1>5 DEF BitType
<1>8. /\ orders' \in Seq([id : OrderIds, price : Prices, side : Sides, live : BOOLEAN])
      /\ Len(orders') = Len(orders) + 1
      /\ \A i \in 1..Len(orders) : orders'[i] = orders[i]
      /\ orders'[Len(orders) + 1] = o
  <2> DEFINE Rec == [id : OrderIds, price : Prices, side : Sides, live : BOOLEAN]
  <2>1. orders \in Seq(Rec) /\ o \in Rec
    BY <1>1 DEF BitType
  <2> HIDE DEF Rec, o
  <2>2. /\ orders' \in Seq(Rec) /\ Len(orders') = Len(orders) + 1
        /\ \A i \in 1..Len(orders) : orders'[i] = orders[i]
        /\ orders'[Len(orders) + 1] = o
    BY <1>4, <2>1, AppendElements
  <2> QED BY <2>2 DEF Rec
<1>9. BitType'
  BY <1>6, <1>8 DEF BitType
<1>10. ASSUME NEW r \in Sides, NEW q \in Prices, r # s \/ q # p
       PROVE  InUse(r, q)' = InUse(r, q) /\ Live(r, q)' = Live(r, q)
  <2>1. InUse(r, q)' = InUse(r, q)
    <3>1. CASE r # s
      BY <1>7, <3>1 DEF InUse
    <3>2. CASE r = s
      <4>1. q # p /\ mask'[s] = mask[s] \cup {l} /\ level'[s][l] = p
        BY <1>7, <1>10, <3>2
      <4>2. \A k \in mask[s] : level'[s][k] = level[s][k]
        <5> SUFFICES ASSUME NEW k \in mask[s] PROVE level'[s][k] = level[s][k]
          OBVIOUS
        <5>1. k \in Slots
          BY <1>1 DEF BitType
        <5>2. k # l
          BY <1>5
        <5> QED BY <1>7, <5>1, <5>2
      <4> QED BY <3>2, <4>1, <4>2 DEF InUse
    <3> QED BY <3>1, <3>2
  <2>2. DOMAIN orders' = (1..Len(orders)) \cup {Len(orders) + 1}
    BY <1>3, <1>8
  <2>3. ~(o.side = r /\ o.price = q)
    BY <1>10
  <2> QED BY <1>3, <1>8, <2>1, <2>2, <2>3 DEF Live
<1>11. InUse(s, p)' = InUse(s, p) \cup {l} /\ l \notin InUse(s, p)
  BY <1>1, <1>5, <1>7 DEF InUse, BitType
<1>12. Live(s, p)' = Live(s, p) \cup {Len(orders) + 1} /\ Len(orders) + 1 \notin Live(s, p)
  <2>1. DOMAIN orders' = (1..Len(orders)) \cup {Len(orders) + 1}
    BY <1>3, <1>8
  <2>2. o.side = s /\ o.price = p /\ o.live
    OBVIOUS
  <2>3. Len(orders) + 1 \notin DOMAIN orders
    BY <1>3
  <2> QED BY <1>3, <1>8, <2>1, <2>2, <2>3 DEF Live
<1>13. /\ Cardinality(InUse(s, p)') = Cardinality(InUse(s, p)) + 1
       /\ Cardinality(Live(s, p)') = Cardinality(Live(s, p)) + 1
       /\ Cardinality(mask'[s]) = Cardinality(mask[s]) + 1
       /\ Cardinality(InUse(s, p)) \in Nat /\ Cardinality(Live(s, p)) \in Nat
       /\ Cardinality(mask[s]) \in Nat
  <2>1. /\ IsFiniteSet(InUse(s, p)) /\ IsFiniteSet(Live(s, p)) /\ IsFiniteSet(mask[s])
        /\ Cardinality(InUse(s, p)) \in Nat /\ Cardinality(Live(s, p)) \in Nat
        /\ Cardinality(mask[s]) \in Nat
    BY <1>1, <1>2, BitFinite
  <2>2. Cardinality(InUse(s, p)') = Cardinality(InUse(s, p)) + 1
    BY <1>11, <2>1, FS_AddElement
  <2>3. Cardinality(Live(s, p)') = Cardinality(Live(s, p)) + 1
    BY <1>12, <2>1, FS_AddElement
  <2>4. Cardinality(mask'[s]) = Cardinality(mask[s]) + 1
    BY ZenonT(30), <1>5, <1>7, <2>1, FS_AddElement
  <2> QED BY <2>1, <2>2, <2>3, <2>4
<1>14. NoOrderLosesLevel'
  <2>1. ASSUME NEW r \in Sides, NEW q \in Prices
        PROVE  Cardinality(InUse(r, q)') >= Cardinality(Live(r, q)')
    <3>1. CASE r = s /\ q = p
      <4>1. Cardinality(InUse(s, p)) >= Cardinality(Live(s, p))
        BY <1>1 DEF NoOrderLosesLevel
      <4> QED BY <1>13, <3>1, <4>1
    <3>2. CASE r # s \/ q # p
      BY <1>1, <1>10, <3>2 DEF NoOrderLosesLevel
    <3> QED BY <3>1, <3>2
  <2> QED BY <2>1 DEF NoOrderLosesLevel
<1>15. LevelsAreOrders'
  <2>1. ASSUME NEW r \in Sides \ shared'
        PROVE  /\ \A q \in Prices : Cardinality(InUse(r, q)') = Cardinality(Live(r, q)')
               /\ count'[r] = Cardinality(mask'[r])
    <3>1. r \in Sides \ shared
      BY <1>4
    <3>2. /\ \A q \in Prices : Cardinality(InUse(r, q)) = Cardinality(Live(r, q))
          /\ count[r] = Cardinality(mask[r])
      BY <1>1, <3>1 DEF LevelsAreOrders
    <3>3. ASSUME NEW q \in Prices
          PROVE  Cardinality(InUse(r, q)') = Cardinality(Live(r, q)')
      <4>1. CASE r = s /\ q = p
        BY <1>13, <3>2, <4>1
      <4>2. CASE r # s \/ q # p
        BY <1>10, <3>2, <4>2
      <4> QED BY <4>1, <4>2
    <3>4. count'[r] = Cardinality(mask'[r])
      BY <1>7, <1>13, <3>2
    <3> QED BY <3>3, <3>4
  <2> QED BY <2>1 DEF LevelsAreOrders
<1>16. ASSUME NEW r \in Sides \ shared' PROVE FirstIsInUse(r)'
  <2>1. r \in Sides \ shared /\ FirstIsInUse(r)
    BY <1>4 DEF BitInv
  <2>2. CASE r # s
    BY <1>7, <2>1, <2>2 DEF FirstIsInUse
  <2>3. CASE r = s
    <3>1. InUse(s, p) = {}
      <4>1. Live(s, p) = {}
        BY <1>4, <2>3
      <4>2. Cardinality(InUse(s, p)) = 0
        <5>1. Cardinality(InUse(s, p)) = Cardinality(Live(s, p))
          BY <1>1, <2>1, <2>3 DEF LevelsAreOrders
        <5> QED BY <4>1, <5>1, FS_EmptySet
      <4>3. IsFiniteSet(InUse(s, p))
        BY <1>1, <1>2, BitFinite
      <4> QED BY <4>2, <4>3, FS_EmptySet
    <3>2. \A m \in mask[s] : level[s][m] # p
      BY <3>1 DEF InUse
    <3>3. ASSUME NEW m \in mask'[s], NEW k \in Slots, k < m
          PROVE  level'[s][k] # level'[s][m]
      <4>1. m \in Slots /\ k \in Nat /\ m \in Nat /\ l \in Nat
        BY <1>3, <1>5, <1>6
      <4>2. CASE m = l
        <5>1. k \in mask[s] /\ k # l
          BY <1>5, <3>3, <4>1, <4>2
        <5> QED BY <1>7, <3>2, <4>2, <5>1
      <4>3. CASE m # l
        <5>1. m \in mask[s] /\ level'[s][m] = level[s][m]
          BY <1>7, <4>1, <4>3
        <5>2. CASE k = l
          BY <1>7, <3>2, <5>1, <5>2
        <5>3. CASE k # l
          BY <1>7, <2>1, <2>3, <3>3, <5>1, <5>3 DEF FirstIsInUse
        <5> QED BY <5>2, <5>3
      <4> QED BY <4>2, <4>3
    <3> QED BY <2>3, <3>3 DEF FirstIsInUse
  <2> QED BY <2>2, <2>3
<1> QED BY <1>9, <1>14, <1>15, <1>16 DEF BitInv

LEMMA RemoveOrderInv ==
  ASSUME NEW id \in OrderIds, BitInv, RemoveOrder(id)
  PROVE  BitInv'
<1>1. BitType /\ NoOrderLosesLevel /\ LevelsAreOrders
  BY DEF BitInv
<1>2. /\ Len(orders) \in Nat /\ Slots \subseteq Nat /\ DOMAIN orders = 1..Len(orders)
  BY <1>1, BitFinite
<1>3. PICK i, s, p :
        /\ i = Min(Found(id)) /\ s = orders[i].side /\ p = orders[i].price
  OBVIOUS
<1> DEFINE matching == {k \in Slots : level[s][k] = p}
           m == Min(matching)
<1>4. /\ Found(id) # {} /\ UNCHANGED <<level, shared>>
      /\ orders' = [orders EXCEPT ![i].live = FALSE]
      /\ IF matching = {} THEN UNCHANGED <<mask, count>>
         ELSE /\ mask' = [mask EXCEPT ![s] = @ \ {m}]
              /\ count' = [count EXCEPT ![s] = @ - 1]
  BY <1>3 DEF RemoveOrder
<1>5. i \in Found(id)
  <2>1. Found(id) \in SUBSET Nat
    BY <1>2 DEF Found
  <2> QED BY <1>3, <1>4, <2>1, MinOfNaturals
<1>6. i \in 1..Len(orders)
  BY <1>2, <1>5 DEF Found
<1>7. /\ orders[i] \in [id : OrderIds, price : Prices, side : Sides, live : BOOLEAN]
      /\ s \in Sides /\ p \in Prices /\ p \in Nat
  <2>1. orders[i] \in [id : OrderIds, price : Prices, side : Sides, live : BOOLEAN]
    <3> DEFINE Rec == [id : OrderIds, price : Prices, side : Sides, live : BOOLEAN]
    <3>1. orders \in Seq(Rec)
      BY <1>1 DEF BitType
    <3> HIDE DEF Rec
    <3>2. orders[i] \in Rec
      BY <1>6, <3>1
    <3> QED BY <3>2 DEF Rec
  <2> QED BY <1>3, <2>1, BitBookAssumption
<1>8. i \in Live(s, p)
  BY <1>3, <1>5 DEF Live, Found
<1>9. /\ IsFiniteSet(InUse(s, p)) /\ IsFiniteSet(Live(s, p)) /\ IsFiniteSet(mask[s])
      /\ Cardinality(InUse(s, p)) \in Nat /\ Cardinality(Live(s, p)) \in Nat
      /\ Cardinality(mask[s]) \in Nat
  BY <1>1, <1>7, BitFinite
<1>10. InUse(s, p) # {}
  <2>1. Cardinality(Live(s, p)) # 0
    BY <1>8, <1>9, FS_EmptySet
  <2>2. Cardinality(InUse(s, p)) >= Cardinality(Live(s, p))
    BY <1>1, <1>7 DEF NoOrderLosesLevel
  <2>3. Cardinality(InUse(s, p)) # 0
    BY <1>9, <2>1, <2>2
  <2> QED BY <1>9, <2>3, FS_EmptySet
<1>11. m \in matching /\ \A k \in matching : m <= k
  <2>1. matching \in SUBSET Nat
    BY <1>2
  <2>2. matching # {}
    BY <1>1, <1>7, <1>10 DEF InUse, BitType
  <2> QED BY <2>1, <2>2, MinOfNaturals
<1>12. m \in Slots /\ level[s][m] = p /\ \A k \in Slots : level[s][k] = p => m <= k
  BY <1>11
<1>13. mask' = [mask EXCEPT ![s] = @ \ {m}] /\ count' = [count EXCEPT ![s] = @ - 1]
  BY <1>4, <1>11
<1> HIDE DEF m, matching
<1>14. /\ mask' \in [Sides -> SUBSET Slots] /\ mask'[s] = mask[s] \ {m}
       /\ count' \in [Sides -> Int] /\ count'[s] = count[s] - 1
       /\ \A r \in Sides : r # s => mask'[r] = mask[r] /\ count'[r] = count[r]
  BY <1>1, <1>7, <1>13 DEF BitType
<1>15. /\ orders' \in Seq([id : OrderIds, price : Prices, side : Sides, live : BOOLEAN])
       /\ DOMAIN orders' = DOMAIN orders
       /\ \A j \in DOMAIN orders : j # i => orders'[j] = orders[j]
       /\ orders'[i].side = s /\ orders'[i].price = p /\ orders'[i].live = FALSE
  <2> DEFINE Rec == [id : OrderIds, price : Prices, side : Sides, live : BOOLEAN]
             o == [orders[i] EXCEPT !.live = FALSE]
  <2>1. o \in Rec /\ o.side = s /\ o.price = p /\ o.live = FALSE
    BY <1>3, <1>7
  <2>2. orders' = [orders EXCEPT ![i] = o]
    BY <1>4
  <2>3. orders \in Seq(Rec)
    BY <1>1 DEF BitType
  <2> HIDE DEF Rec, o
  <2>4. /\ orders' \in Seq(Rec) /\ DOMAIN orders' = DOMAIN orders /\ orders'[i] = o
        /\ \A j \in DOMAIN orders : j # i => orders'[j] = orders[j]
    BY <1>2, <1>6, <2>1, <2>2, <2>3
  <2> QED BY <2>1, <2>4 DEF Rec
<1>16. BitType'
  BY <1>1, <1>4, <1>14, <1>15 DEF BitType
<1>17. ASSUME NEW r \in Sides, NEW q \in Prices, r # s \/ q # p
       PROVE  InUse(r, q)' = InUse(r, q) /\ Live(r, q)' = Live(r, q)
  <2>1. InUse(r, q)' = InUse(r, q)
    BY <1>4, <1>12, <1>14, <1>17 DEF InUse
  <2>2. Live(r, q)' = Live(r, q)
    BY <1>3, <1>15, <1>17 DEF Live
  <2> QED BY <2>1, <2>2
<1>18. InUse(s, p)' = InUse(s, p) \ {m}
  BY <1>4, <1>14 DEF InUse
<1>19. Live(s, p)' = Live(s, p) \ {i}
  BY <1>15 DEF Live
<1>20. Cardinality(Live(s, p)') = Cardinality(Live(s, p)) - 1
  BY <1>8, <1>9, <1>19, FS_RemoveElement
<1>21. m \in InUse(s, p) => Cardinality(InUse(s, p)') = Cardinality(InUse(s, p)) - 1
  BY <1>9, <1>18, FS_RemoveElement
<1>22. m \notin InUse(s, p) => InUse(s, p)' = InUse(s, p)
  BY <1>18
<1>23. NoOrderLosesLevel'
  <2>1. ASSUME NEW r \in Sides, NEW q \in Prices
        PROVE  Cardinality(InUse(r, q)') >= Cardinality(Live(r, q)')
    <3>1. CASE r = s /\ q = p
      <4>1. Cardinality(InUse(s, p)) >= Cardinality(Live(s, p))
        BY <1>1, <1>7 DEF NoOrderLosesLevel
      <4>2. CASE m \in InUse(s, p)
        BY <1>9, <1>20, <1>21, <3>1, <4>1, <4>2
      <4>3. CASE m \notin InUse(s, p)
        BY <1>9, <1>20, <1>22, <3>1, <4>1, <4>3
      <4> QED BY <4>2, <4>3
    <3>2. CASE r # s \/ q # p
      BY <1>1, <1>17, <3>2 DEF NoOrderLosesLevel
    <3> QED BY <3>1, <3>2
  <2> QED BY <2>1 DEF NoOrderLosesLevel
<1>24. s \notin shared => m \in mask[s]
  <2> SUFFICES ASSUME s \notin shared PROVE m \in mask[s]
    OBVIOUS
  <2>1. FirstIsInUse(s)
    BY <1>7 DEF BitInv
  <2>2. PICK l \in mask[s] : level[s][l] = p
    BY <1>10 DEF InUse
  <2>3. l \in Slots
    BY <1>1, <1>7 DEF BitType
  <2>4. ~(m < l)
    BY <1>12, <2>1, <2>2 DEF FirstIsInUse
  <2>5. m <= l /\ m \in Nat /\ l \in Nat
    BY <1>2, <1>12, <2>2, <2>3
  <2>6. m = l
    BY <2>4, <2>5
  <2> QED BY <2>6
<1>25. LevelsAreOrders'
  <2>1. ASSUME NEW r \in Sides \ shared'
        PROVE  /\ \A q \in Prices : Cardinality(InUse(r, q)') = Cardinality(Live(r, q)')
               /\ count'[r] = Cardinality(mask'[r])
    <3>1. r \in Sides \ shared
      BY <1>4
    <3>2. /\ \A q \in Prices : Cardinality(InUse(r, q)) = Cardinality(Live(r, q))
          /\ count[r] = Cardinality(mask[r])
      BY <1>1, <3>1 DEF LevelsAreOrders
    <3>3. r = s => m \in mask[s] /\ m \in InUse(s, p)
      BY <1>12, <1>24, <3>1 DEF InUse
    <3>4. ASSUME NEW q \in Prices
          PROVE  Cardinality(InUse(r, q)') = Cardinality(Live(r, q)')
      <4>1. CASE r = s /\ q = p
        <5>1. Cardinality(InUse(s, p)) = Cardinality(Live(s, p))
          BY <3>2, <4>1
        <5>2. Cardinality(InUse(s, p)') = Cardinality(InUse(s, p)) - 1
          BY <1>21, <3>3, <4>1
        <5> QED BY <1>20, <4>1, <5>1, <5>2
      <4>2. CASE r # s \/ q # p
        BY <1>17, <3>2, <4>2
      <4> QED BY <4>1, <4>2
    <3>5. count'[r] = Cardinality(mask'[r])
      <4>1. CASE r = s
        <5>1. Cardinality(mask[s] \ {m}) = Cardinality(mask[s]) - 1
          BY <1>9, <3>3, <4>1, FS_RemoveElement
        <5> QED BY <1>14, <3>2, <4>1, <5>1
      <4>2. CASE r # s
        BY <1>14, <3>2, <4>2
      <4> QED BY <4>1, <4>2
    <3> QED BY <3>4, <3>5
  <2> QED BY <2>1 DEF LevelsAreOrders
<1>26. ASSUME NEW r \in Sides \ shared' PROVE FirstIsInUse(r)'
  <2>1. r \in Sides \ shared /\ FirstIsInUse(r) /\ mask'[r] \subseteq mask[r]
    BY <1>4, <1>14 DEF BitInv
  <2> QED BY <1>4, <2>1 DEF FirstIsInUse
<1> QED BY <1>16, <1>23, <1>25, <1>26 DEF BitInv

\* At every price a side has as many levels in use as live orders, and as long as
\* no two of them shared a price the first level with a price is the one in use.
THEOREM BitInvariance == BitSpec => []BitInv
<1>1. BitInit => BitInv
  BY EmptyBitInv, BitBookAssumption DEF BitInit, EmptyBook
<1>2. BitInv /\ [BitNext]_bitVars => BitInv'
  <2> SUFFICES ASSUME BitInv, [BitNext]_bitVars PROVE BitInv'
    OBVIOUS
  <2>1. CASE ResetBook
    <3>1. EmptyBook'
      BY <2>1 DEF ResetBook, EmptyBook
    <3> QED BY <3>1, EmptyBitInv, PTL
  <2>2. ASSUME NEW id \in OrderIds, NEW p \in Prices, NEW s \in Sides, AddOrder(id, p, s)
        PROVE  BitInv'
    BY <2>2, AddOrderInv
  <2>3. ASSUME NEW id \in OrderIds, RemoveOrder(id) PROVE BitInv'
    BY <2>3, RemoveOrderInv
  <2>4. CASE UNCHANGED bitVars
    <3>1. UNCHANGED <<level, mask, count, orders, shared>>
      BY <2>4 DEF bitVars
    <3>2. \A s \in Sides, p \in Prices : InUse(s, p)' = InUse(s, p) /\ Live(s, p)' = Live(s, p)
      BY <3>1 DEF InUse, Live
    <3>3. BitType' /\ \A s \in Sides \ shared' : FirstIsInUse(s)'
      BY <3>1 DEF BitInv, BitType, FirstIsInUse
    <3>4. NoOrderLosesLevel' /\ LevelsAreOrders'
      BY <3>1, <3>2 DEF BitInv, NoOrderLosesLevel, LevelsAreOrders
    <3> QED BY <3>3, <3>4 DEF BitInv
  <2> QED BY <2>1, <2>2, <2>3, <2>4 DEF BitNext
<1> QED BY <1>1, <1>2, PTL DEF BitSpec

\* Removing an order frees a level by its price, and that may be another order's;
\* but no live order is left without a level.
THEOREM LevelsSuffice == BitSpec => []NoOrderLosesLevel
<1>1. BitInv => NoOrderLosesLevel
  BY DEF BitInv
<1> QED BY <1>1, BitInvariance, PTL

\* Without two live orders at a price the levels in use are those of the live
\* orders, and the count of the side is their number.
THEOREM LevelsMatch == BitSpec => []LevelsAreOrders
<1>1. BitInv => LevelsAreOrders
  BY DEF BitInv
<1> QED BY <1>1, BitInvariance, PTL
-----------------------------------------------------------------------------
(***************************************************************************)
(* BitmaskOrderBook: the level behind the first bit                        *)
(***************************************************************************)
\* A set of naturals with a bound has a largest element.
LEMMA MaxOfBounded ==
  ASSUME NEW n \in Nat, NEW S \in SUBSET (0..n), S # {}
  PROVE  Max(S) \in S /\ \A x \in S : x <= Max(S)
<1> DEFINE D == {n - x : x \in S}
<1>1. D \in SUBSET Nat /\ D # {}
  <2>1. \A x \in S : n - x \in Nat
    OBVIOUS
  <2>2. D \in SUBSET Nat
    BY <2>1
  <2>3. PICK x \in S : TRUE
    OBVIOUS
  <2>4. n - x \in D
    BY <2>3
  <2> QED BY <2>2, <2>4
<1>2. Min(D) \in D /\ \A y \in D : Min(D) <= y
  BY <1>1, MinOfNaturals
<1>3. PICK m \in S : Min(D) = n - m
  BY <1>2
<1>4. ASSUME NEW x \in S PROVE x <= m
  <2>1. n - m <= n - x
    BY <1>2, <1>3
  <2> QED BY <2>1
<1>5. S \in SUBSET Int
  OBVIOUS
<1>6. Max(S) = m
  BY <1>4, <1>5, MaxIs
<1> QED BY <1>4, <1>6

\* What an insertion of e at position k makes of s.
Inserted(r, T, s, k, e) ==
  /\ r \in Seq(T) /\ Len(r) = Len(s) + 1 /\ r[k] = e
  /\ \A i \in 1..(k - 1) : r[i] = s[i]
  /\ \A i \in (k + 1)..(Len(s) + 1) : r[i] = s[i - 1]

LEMMA InsertAtElements ==
  ASSUME NEW T, NEW s \in Seq(T), NEW e \in T, NEW k \in Nat, 1 <= k, k <= Len(s) + 1,
         NEW r, r = InsertAt(s, k, e)
  PROVE  Inserted(r, T, s, k, e)
<1> DEFINE a == SubSeq(s, 1, k - 1)
           b == SubSeq(s, k, Len(s))
           ae == a \o <<e>>
<1>1. Len(s) \in Nat /\ k \in Nat /\ 1 <= k /\ k <= Len(s) + 1
  OBVIOUS
<1>2. a \in Seq(T) /\ Len(a) = k - 1 /\ \A i \in 1..(k - 1) : a[i] = s[i]
  BY <1>1
<1>3. b \in Seq(T) /\ Len(b) = Len(s) - k + 1 /\ \A i \in 1..(Len(s) - k + 1) : b[i] = s[k + i - 1]
  BY <1>1
<1>4. <<e>> \in Seq(T) /\ Len(<<e>>) = 1 /\ <<e>>[1] = e
  OBVIOUS
<1> HIDE DEF a, b
<1>5. /\ ae \in Seq(T) /\ Len(ae) = k /\ ae[k] = e
      /\ \A i \in 1..(k - 1) : ae[i] = s[i]
  BY <1>1, <1>2, <1>4
<1> HIDE DEF ae
<1>6. /\ ae \o b \in Seq(T) /\ Len(ae \o b) = Len(s) + 1
      /\ \A i \in 1..k : (ae \o b)[i] = ae[i]
      /\ \A i \in (k + 1)..(Len(s) + 1) : (ae \o b)[i] = b[i - k]
  BY <1>1, <1>3, <1>5
<1>7. ASSUME NEW i \in (k + 1)..(Len(s) + 1) PROVE b[i - k] = s[i - 1]
  <2>1. i - k \in 1..(Len(s) - k + 1) /\ k + (i - k) - 1 = i - 1
    BY <1>1
  <2> QED BY <1>3, <2>1
<1>8. r = ae \o b
  BY DEF InsertAt, ae, a, b
<1>9. \A i \in 1..(k - 1) : r[i] = s[i]
  BY <1>1, <1>5, <1>6, <1>8
<1>10. \A i \in (k + 1)..(Len(s) + 1) : r[i] = s[i - 1]
  BY <1>6, <1>7, <1>8
<1>11. r[k] = e /\ r \in Seq(T) /\ Len(r) = Len(s) + 1
  BY <1>1, <1>5, <1>6, <1>8
<1> QED BY <1>9, <1>10, <1>11 DEF Inserted

LEMMA ToCentsBounds ==
  ASSUME NEW px \in Nat
  PROVE  /\ ToCents(px) \in Nat
         /\ 2 * (ToCents(px) * Cent) <= 2 * px + Cent
         /\ 2 * px + Cent < 2 * (ToCents(px) * Cent) + 2 * Cent
<1> DEFINE d == 2 * Cent
           n == 2 * px + Cent
<1>1. d \in Nat \ {0} /\ n \in Nat /\ Cent \in Nat
  BY BitmaskAssumption
<1>2. /\ n = d * (n \div d) + (n % d) /\ n \div d \in Nat /\ n % d \in Nat /\ n % d < d
  <2> HIDE DEF d, n
  <2> QED BY <1>1
<1>3. ToCents(px) = n \div d
  BY DEF ToCents
<1>4. d * (n \div d) = 2 * ((n \div d) * Cent)
  <2> DEFINE q == n \div d
  <2>1. q \in Nat /\ Cent \in Nat
    BY <1>1, <1>2
  <2> HIDE DEF q
  <2>2. (2 * Cent) * q = 2 * (q * Cent)
    BY <2>1
  <2> QED BY <2>2 DEF q
<1>5. (n \div d) * Cent \in Nat
  BY <1>1, <1>2
<1> HIDE DEF n, d
<1>6. /\ ToCents(px) \in Nat
      /\ 2 * (ToCents(px) * Cent) <= n
      /\ n < 2 * (ToCents(px) * Cent) + d
  BY <1>1, <1>2, <1>3, <1>4, <1>5
<1> QED BY <1>6 DEF n, d

\* Rounding keeps the order of prices, also that of a price and a number of cents.
LEMMA ToCentsOrder ==
  ASSUME NEW px \in Nat, NEW c \in Nat
  PROVE  /\ c * Cent >= px => c >= ToCents(px)
         /\ c * Cent <= px => c <= ToCents(px)
         /\ \A q \in Nat : q <= px => ToCents(q) <= ToCents(px)
<1> DEFINE t == ToCents(px)
<1>1. /\ t \in Nat /\ Cent \in Nat /\ Cent > 0
      /\ t * Cent \in Nat /\ c * Cent \in Nat
      /\ 2 * (t * Cent) <= 2 * px + Cent
      /\ 2 * px + Cent < 2 * (t * Cent) + 2 * Cent
  BY ToCentsBounds, BitmaskAssumption
<1> HIDE DEF t
<1>2. ASSUME c * Cent >= px PROVE c >= t
  <2> SUFFICES ASSUME c + 1 <= t PROVE FALSE
    BY <1>1
  <2>1. (c + 1) * Cent <= t * Cent
    BY <1>1, Multiples
  <2>2. (c + 1) * Cent = c * Cent + Cent
    BY <1>1
  <2> QED BY <1>1, <1>2, <2>1, <2>2
<1>3. ASSUME c * Cent <= px PROVE c <= t
  <2> SUFFICES ASSUME t + 1 <= c PROVE FALSE
    BY <1>1
  <2>1. (t + 1) * Cent <= c * Cent
    BY <1>1, Multiples
  <2>2. (t + 1) * Cent = t * Cent + Cent
    BY <1>1
  <2> QED BY <1>1, <1>3, <2>1, <2>2
<1>4. ASSUME NEW q \in Nat, q <= px PROVE ToCents(q) <= t
  <2> DEFINE u == ToCents(q)
  <2>1. u \in Nat /\ u * Cent \in Nat /\ 2 * (u * Cent) <= 2 * q + Cent
    BY <1>1, ToCentsBounds
  <2> HIDE DEF u
  <2>2. ASSUME t + 1 <= u PROVE FALSE
    <3>1. (t + 1) * Cent <= u * Cent
      BY <1>1, <2>1, <2>2, Multiples
    <3>2. (t + 1) * Cent = t * Cent + Cent
      BY <1>1
    <3> QED BY <1>1, <1>4, <2>1, <3>1, <3>2
  <2>3. u <= t
    BY <1>1, <2>1, <2>2
  <2> QED BY <2>3 DEF u
<1> QED BY <1>2, <1>3, <1>4 DEF t

\* The level or price a is at least as good as b.
NoWorse(s, a, b) == IF s = "bid" THEN a >= b ELSE a <= b

LEMMA NoWorseOrder ==
  ASSUME NEW s \in BookSides, NEW a \in Nat, NEW b \in Nat, NEW c \in Nat
  PROVE  /\ NoWorse(s, a, a)
         /\ NoWorse(s, a, b) \/ NoWorse(s, b, a)
         /\ NoWorse(s, a, b) /\ NoWorse(s, b, a) => a = b
         /\ NoWorse(s, a, b) /\ NoWorse(s, b, c) => NoWorse(s, a, c)
<1>1. CASE s = "bid"
  BY <1>1 DEF NoWorse
<1>2. CASE s # "bid"
  BY <1>2 DEF NoWorse
<1> QED BY <1>1, <1>2

LEMMA Rounding ==
  ASSUME NEW s \in BookSides, NEW px \in Nat, NEW c \in Nat
  PROVE  /\ ~Worse(s, c, px) => NoWorse(s, c, ToCents(px))
         /\ Worse(s, c, px) => NoWorse(s, ToCents(px), c)
         /\ \A q \in Nat : NoWorse(s, px, q) => NoWorse(s, ToCents(px), ToCents(q))
<1>1. c * Cent \in Nat /\ ToCents(px) \in Nat
  BY BitmaskAssumption, ToCentsBounds
<1>2. CASE s = "bid"
  <2>1. /\ ~(c * Cent < px) => c >= ToCents(px)
        /\ c * Cent < px => ToCents(px) >= c
    BY <1>1, ToCentsOrder
  <2>2. ASSUME NEW q \in Nat, px >= q PROVE ToCents(px) >= ToCents(q)
    BY <1>1, <2>2, ToCentsOrder, ToCentsBounds
  <2> QED BY <1>2, <2>1, <2>2 DEF Worse, NoWorse
<1>3. CASE s # "bid"
  <2>1. /\ ~(c * Cent > px) => c <= ToCents(px)
        /\ c * Cent > px => ToCents(px) <= c
    BY <1>1, ToCentsOrder
  <2>2. ASSUME NEW q \in Nat, px <= q PROVE ToCents(px) <= ToCents(q)
    BY <2>2, ToCentsOrder
  <2> QED BY <1>3, <2>1, <2>2 DEF Worse, NoWorse
<1> QED BY <1>2, <1>3

LEMMA WorseOrder ==
  ASSUME NEW s \in BookSides, NEW a \in Nat, NEW b \in Nat, NoWorse(s, a, b)
  PROVE  /\ ~Worse(s, a, b * Cent)
         /\ \A px \in Nat : ~Worse(s, b, px) => ~Worse(s, a, px)
<1>1. Cent \in Nat /\ a * Cent \in Nat /\ b * Cent \in Nat
  BY BitmaskAssumption
<1>2. CASE s = "bid"
  <2>1. b * Cent <= a * Cent
    BY <1>1, <1>2, Multiples DEF NoWorse
  <2> QED BY <1>1, <1>2, <2>1 DEF Worse
<1>3. CASE s # "bid"
  <2>1. a * Cent <= b * Cent
    BY <1>1, <1>3, Multiples DEF NoWorse
  <2> QED BY <1>1, <1>3, <2>1 DEF Worse
<1> QED BY <1>2, <1>3

PackedType ==
  /\ packed \in [BookSides -> Seq(Nat)]
  /\ bitmask \in [BookSides -> SUBSET Nat]
  /\ quoted \in [BookSides -> SUBSET Quotes]

\* The levels are in order, the first of them is the best price accepted, rounded,
\* and the first bit is set as soon as there is a level.
InOrder(line, s) == \A i, j \in 1..Len(line) : i < j => NoWorse(s, line[i], line[j])

BestOf(S, s, m) == m \in S /\ \A q \in S : NoWorse(s, m, q)

PackedSideInv(s) ==
  /\ InOrder(packed[s], s)
  /\ quoted[s] = {} => packed[s] = << >> /\ bitmask[s] = {}
  /\ quoted[s] # {} => /\ packed[s] # << >> /\ 0 \in bitmask[s]
                       /\ \E m \in Quotes : BestOf(quoted[s], s, m) /\ packed[s][1] = ToCents(m)

PackedInv == PackedType /\ \A s \in BookSides : PackedSideInv(s)

LEMMA InsertionIndexIs ==
  ASSUME NEW s \in BookSides, NEW px \in Nat, PackedType, InOrder(packed[s], s)
  PROVE  LET i == InsertionIndex(s, px)
         IN  /\ i \in 0..Len(packed[s])
             /\ \A j \in 1..i : ~Worse(s, packed[s][j], px)
             /\ \A j \in (i + 1)..Len(packed[s]) : Worse(s, packed[s][j], px)
<1> DEFINE n == Len(packed[s])
           S == {0} \cup {j \in DOMAIN packed[s] : ~Worse(s, packed[s][j], px)}
           i == Max(S)
<1>1. n \in Nat /\ DOMAIN packed[s] = 1..n /\ \A j \in 1..n : packed[s][j] \in Nat
  BY DEF PackedType
<1>2. S \in SUBSET (0..n) /\ S # {}
  BY <1>1
<1>3. i \in S /\ \A j \in S : j <= i
  <2> HIDE DEF S, n
  <2> QED BY <1>1, <1>2, MaxOfBounded
<1>4. InsertionIndex(s, px) = i
  BY DEF InsertionIndex
<1> HIDE DEF i
<1>5. i \in 0..n
  BY <1>2, <1>3
<1>6. ASSUME NEW j \in 1..i PROVE ~Worse(s, packed[s][j], px)
  <2>1. i \in 1..n /\ j \in 1..n
    BY <1>1, <1>5
  <2>2. ~Worse(s, packed[s][i], px)
    BY <1>3, <2>1
  <2>3. CASE j = i
    BY <2>2, <2>3
  <2>4. CASE j # i
    <3>1. j < i
      BY <1>5, <2>4
    <3>2. NoWorse(s, packed[s][j], packed[s][i])
      BY <2>1, <3>1 DEF InOrder
    <3> QED BY <1>1, <2>1, <2>2, <3>2, WorseOrder
  <2> QED BY <2>3, <2>4
<1>7. ASSUME NEW j \in (i + 1)..n PROVE Worse(s, packed[s][j], px)
  <2>1. j \in 1..n /\ ~(j <= i)
    BY <1>1, <1>5
  <2>2. j \notin S
    BY <1>3, <2>1
  <2> QED BY <1>1, <2>1, <2>2
<1> QED BY <1>4, <1>5, <1>6, <1>7

LEMMA InsertQuoteInv ==
  ASSUME NEW s \in BookSides, NEW px \in Quotes, PackedInv, InsertQuote(s, px)
  PROVE  PackedInv'
<1>1. PackedType /\ PackedSideInv(s) /\ px \in Nat
  BY BitmaskAssumption DEF PackedInv
<1>2. PICK i : i = InsertionIndex(s, px)
  OBVIOUS
<1> DEFINE n == Len(packed[s])
           c == ToCents(px)
<1>3. /\ i \in 0..n
      /\ \A j \in 1..i : ~Worse(s, packed[s][j], px)
      /\ \A j \in (i + 1)..n : Worse(s, packed[s][j], px)
  BY <1>1, <1>2, InsertionIndexIs DEF PackedSideInv
<1>4. /\ packed[s] \in Seq(Nat) /\ n \in Nat /\ \A j \in 1..n : packed[s][j] \in Nat
      /\ c \in Nat
  <2>1. c \in Nat
    BY <1>1, ToCentsBounds
  <2>2. packed[s] \in Seq(Nat)
    BY <1>1 DEF PackedType
  <2> HIDE DEF c
  <2> QED BY <2>1, <2>2
<1>5. /\ packed' = [packed EXCEPT ![s] = InsertAt(@, i + 1, c)]
      /\ bitmask' = [bitmask EXCEPT ![s] = @ \cup {i}]
      /\ quoted' = [quoted EXCEPT ![s] = @ \cup {px}]
  BY <1>2 DEF InsertQuote
<1> DEFINE r == InsertAt(packed[s], i + 1, c)
<1>6. i + 1 \in Nat /\ 1 <= i + 1 /\ i + 1 <= n + 1 /\ (i + 1) - 1 = i /\ (i + 1) + 1 = i + 2
  BY <1>3, <1>4
<1>7. /\ r \in Seq(Nat) /\ Len(r) = n + 1 /\ r[i + 1] = c
      /\ \A j \in 1..i : r[j] = packed[s][j]
      /\ \A j \in (i + 2)..(n + 1) : r[j] = packed[s][j - 1]
  <2> DEFINE line == packed[s]
             k == i + 1
             Cents == Nat
  <2>1. /\ line \in Seq(Cents) /\ c \in Cents /\ k \in Nat /\ 1 <= k /\ k <= Len(line) + 1
        /\ r = InsertAt(line, k, c)
    BY <1>4, <1>6
  <2> HIDE DEF c, k, line, r, Cents
  <2>2. Inserted(r, Cents, line, k, c)
    BY <2>1, InsertAtElements
  <2> QED BY <1>6, <2>2 DEF Inserted, k, line, Cents
<1> HIDE DEF r, c
<1>8. /\ packed' \in [BookSides -> Seq(Nat)] /\ packed'[s] = r
      /\ bitmask' \in [BookSides -> SUBSET Nat] /\ bitmask'[s] = bitmask[s] \cup {i}
      /\ quoted' \in [BookSides -> SUBSET Quotes] /\ quoted'[s] = quoted[s] \cup {px}
  BY <1>1, <1>3, <1>4, <1>5, <1>7 DEF PackedType, r
<1>9. \A t \in BookSides : t # s => /\ packed'[t] = packed[t] /\ bitmask'[t] = bitmask[t]
                                    /\ quoted'[t] = quoted[t]
  BY <1>1, <1>5 DEF PackedType
<1>10. /\ \A j \in 1..i : NoWorse(s, packed[s][j], c)
       /\ \A j \in (i + 1)..n : NoWorse(s, c, packed[s][j])
  <2>1. \A j \in 1..i : j \in 1..n
    BY <1>3, <1>4
  <2>2. \A j \in (i + 1)..n : j \in 1..n
    BY <1>3, <1>4
  <2> QED BY <1>1, <1>3, <1>4, <2>1, <2>2, Rounding DEF c
<1>11. InOrder(r, s)
  <2> SUFFICES ASSUME NEW j \in 1..(n + 1), NEW k \in 1..(n + 1), j < k
               PROVE  NoWorse(s, r[j], r[k])
    BY <1>7 DEF InOrder
  <2> HIDE DEF n
  <2>1. InOrder(packed[s], s)
    BY <1>1 DEF PackedSideInv
  <2>2. \A x, y \in 1..n : x < y => NoWorse(s, packed[s][x], packed[s][y])
    BY <2>1 DEF InOrder, n
  <2>3. CASE k <= i
    <3>1. j \in 1..i /\ k \in 1..i /\ j \in 1..n /\ k \in 1..n
      BY <1>3, <1>4, <2>3
    <3> QED BY <1>7, <2>2, <3>1
  <2>4. CASE k = i + 1
    <3>1. j \in 1..i
      BY <1>3, <1>4, <2>4
    <3> QED BY <1>7, <1>10, <2>4, <3>1
  <2>5. CASE k >= i + 2
    <3>1. k \in (i + 2)..(n + 1) /\ k - 1 \in 1..n /\ k - 1 \in (i + 1)..n
      BY <1>3, <1>4, <2>5
    <3>2. CASE j <= i
      <4>1. j \in 1..i /\ j \in 1..n /\ j < k - 1
        BY <1>3, <1>4, <2>5, <3>2
      <4> QED BY <1>7, <2>2, <3>1, <4>1
    <3>3. CASE j = i + 1
      BY <1>7, <1>10, <3>1, <3>3
    <3>4. CASE j >= i + 2
      <4>1. j \in (i + 2)..(n + 1) /\ j - 1 \in 1..n /\ j - 1 < k - 1
        BY <1>3, <1>4, <3>4
      <4> QED BY <1>7, <2>2, <3>1, <4>1
    <3> QED BY <1>3, <3>2, <3>3, <3>4
  <2> QED BY <1>3, <2>3, <2>4, <2>5
<1>12. r # << >> /\ 0 \in bitmask'[s]
  <2>1. r # << >>
    BY <1>4, <1>7
  <2>2. CASE quoted[s] = {}
    <3>1. packed[s] = << >>
      BY <1>1, <2>2 DEF PackedSideInv
    <3>2. i = 0
      BY <1>3, <3>1
    <3> QED BY <1>8, <2>1, <3>2
  <2>3. CASE quoted[s] # {}
    BY <1>1, <1>8, <2>1, <2>3 DEF PackedSideInv
  <2> QED BY <2>2, <2>3
<1>13. \E m \in Quotes : BestOf(quoted'[s], s, m) /\ r[1] = ToCents(m)
  <2>1. \A q \in quoted[s] : q \in Nat
    BY <1>1, BitmaskAssumption DEF PackedType
  <2>2. CASE quoted[s] = {}
    <3>1. packed[s] = << >>
      BY <1>1, <2>2 DEF PackedSideInv
    <3>2. i = 0
      BY <1>3, <3>1
    <3>3. BestOf(quoted'[s], s, px)
      BY <1>1, <1>8, <2>2, NoWorseOrder DEF BestOf
    <3> QED BY <1>7, <3>2, <3>3 DEF c
  <2>3. CASE quoted[s] # {}
    <3>1. PICK m \in Quotes : BestOf(quoted[s], s, m) /\ packed[s][1] = ToCents(m)
      BY <1>1, <2>3 DEF PackedSideInv
    <3>2. m \in Nat /\ ToCents(m) \in Nat /\ packed[s] # << >>
      BY <1>1, <2>3, <3>1, BitmaskAssumption, ToCentsBounds DEF PackedSideInv
    <3>3. 1 \in 1..n
      BY <1>4, <3>2
    <3>4. NoWorse(s, m, px) => BestOf(quoted'[s], s, m)
      BY <1>8, <3>1 DEF BestOf
    <3>5. ~NoWorse(s, m, px) => BestOf(quoted'[s], s, px) /\ NoWorse(s, px, m)
      <4> SUFFICES ASSUME ~NoWorse(s, m, px)
                   PROVE  BestOf(quoted'[s], s, px) /\ NoWorse(s, px, m)
        OBVIOUS
      <4>1. NoWorse(s, px, m) /\ NoWorse(s, px, px)
        BY <1>1, <3>2, NoWorseOrder
      <4>2. \A q \in quoted[s] : NoWorse(s, px, q)
        BY <1>1, <2>1, <3>1, <3>2, <4>1, NoWorseOrder DEF BestOf
      <4> QED BY <1>8, <4>1, <4>2 DEF BestOf
    <3>6. /\ NoWorse(s, m, px) => NoWorse(s, ToCents(m), c)
          /\ NoWorse(s, px, m) => NoWorse(s, c, ToCents(m))
      BY <1>1, <3>2, Rounding DEF c
    <3>7. NoWorse(s, ToCents(m), c) /\ NoWorse(s, c, ToCents(m)) => c = ToCents(m)
      BY <1>4, <3>2, NoWorseOrder
    <3>8. CASE i = 0
      <4>1. r[1] = c /\ NoWorse(s, c, ToCents(m))
        BY <1>7, <1>10, <3>1, <3>3, <3>8
      <4> QED BY <3>1, <3>4, <3>5, <3>6, <3>7, <4>1 DEF c
    <3>9. CASE i # 0
      <4>1. 1 \in 1..i
        BY <1>3, <3>9
      <4>2. r[1] = ToCents(m) /\ NoWorse(s, ToCents(m), c)
        BY <1>7, <1>10, <3>1, <4>1
      <4> QED BY <3>1, <3>4, <3>5, <3>6, <3>7, <4>2 DEF c
    <3> QED BY <3>8, <3>9
  <2> QED BY <2>2, <2>3
<1>14. ASSUME NEW t \in BookSides PROVE PackedSideInv(t)'
  <2>1. CASE t = s
    BY <1>8, <1>11, <1>12, <1>13, <2>1 DEF PackedSideInv
  <2>2. CASE t # s
    <3>1. PackedSideInv(t)
      BY DEF PackedInv
    <3> QED BY <1>9, <2>2, <3>1 DEF PackedSideInv
  <2> QED BY <2>1, <2>2
<1> QED BY <1>8, <1>14 DEF PackedInv, PackedType

\* Both sides stay in order whatever is rounded on the way in.
THEOREM PackedInvariance == PackedSpec => []PackedInv
<1>1. PackedInit => PackedInv
  BY DEF PackedInit, PackedInv, PackedType, PackedSideInv, InOrder
<1>2. PackedInv /\ [PackedNext]_packedVars => PackedInv'
  <2> SUFFICES ASSUME PackedInv, [PackedNext]_packedVars PROVE PackedInv'
    OBVIOUS
  <2>1. CASE Clear
    BY <2>1 DEF Clear, PackedInv, PackedType, PackedSideInv, InOrder
  <2>2. ASSUME NEW s \in BookSides, NEW px \in Quotes, InsertQuote(s, px) PROVE PackedInv'
    BY <2>2, InsertQuoteInv
  <2>3. CASE UNCHANGED packedVars
    BY <2>3 DEF packedVars, PackedInv, PackedType, PackedSideInv
  <2> QED BY <2>1, <2>2, <2>3 DEF PackedNext
<1> QED BY <1>1, <1>2, PTL DEF PackedSpec

\* The best level, read through a mask of insertion points, is the best price
\* accepted, rounded, and the levels are in order.
THEOREM BestThroughMask == PackedSpec => []BitmaskBest
<1>1. PackedInv => BitmaskBest
  <2> SUFFICES ASSUME PackedInv, NEW s \in BookSides
               PROVE  /\ BestPacked(s) =
                           IF quoted[s] = {} THEN 0
                           ELSE ToCents(IF s = "bid" THEN Max(quoted[s]) ELSE Min(quoted[s]))
                      /\ \A i \in 2..Len(packed[s]) :
                           ~Worse(s, packed[s][i - 1], packed[s][i] * Cent)
    BY DEF BitmaskBest
  <2>1. PackedType /\ PackedSideInv(s)
    BY DEF PackedInv
  <2>2. BestPacked(s) = IF quoted[s] = {} THEN 0
                        ELSE ToCents(IF s = "bid" THEN Max(quoted[s]) ELSE Min(quoted[s]))
    <3>1. CASE quoted[s] = {}
      BY <2>1, <3>1 DEF PackedSideInv, BestPacked
    <3>2. CASE quoted[s] # {}
      <4>1. PICK m \in Quotes : BestOf(quoted[s], s, m) /\ packed[s][1] = ToCents(m)
        BY <2>1, <3>2 DEF PackedSideInv
      <4>2. quoted[s] \in SUBSET Int
        <5>1. Quotes \subseteq Int
          BY BitmaskAssumption
        <5> QED BY <2>1, <5>1 DEF PackedType
      <4>3. bitmask[s] \in SUBSET Nat /\ 0 \in bitmask[s]
        BY <2>1, <3>2 DEF PackedType, PackedSideInv
      <4>4. Min(bitmask[s]) = 0
        <5>1. \A x \in bitmask[s] : 0 <= x
          BY <4>3
        <5> QED BY <4>3, <5>1, MinIs
      <4>5. BestPacked(s) = ToCents(m)
        BY <4>1, <4>3, <4>4 DEF BestPacked
      <4>6. CASE s = "bid"
        <5>1. \A q \in quoted[s] : q <= m
          BY <4>1, <4>2, <4>6 DEF BestOf, NoWorse
        <5>2. Max(quoted[s]) = m
          BY <4>1, <4>2, <5>1, MaxIs DEF BestOf
        <5> QED BY <3>2, <4>5, <4>6, <5>2
      <4>7. CASE s # "bid"
        <5>1. \A q \in quoted[s] : m <= q
          BY <4>1, <4>2, <4>7 DEF BestOf, NoWorse
        <5>2. Min(quoted[s]) = m
          BY <4>1, <4>2, <5>1, MinIs DEF BestOf
        <5> QED BY <3>2, <4>5, <4>7, <5>2
      <4> QED BY <4>6, <4>7
    <3> QED BY <3>1, <3>2
  <2>3. ASSUME NEW i \in 2..Len(packed[s])
        PROVE  ~Worse(s, packed[s][i - 1], packed[s][i] * Cent)
    <3>1. /\ Len(packed[s]) \in Nat /\ i \in 1..Len(packed[s]) /\ i - 1 \in 1..Len(packed[s])
          /\ i - 1 < i
      BY <2>1 DEF PackedType
    <3>2. packed[s][i] \in Nat /\ packed[s][i - 1] \in Nat
      BY <2>1, <3>1 DEF PackedType
    <3>3. NoWorse(s, packed[s][i - 1], packed[s][i])
      BY <2>1, <3>1 DEF PackedSideInv, InOrder
    <3> QED BY <3>2, <3>3, WorseOrder
  <2> QED BY <2>2, <2>3
<1> QED BY <1>1, PackedInvariance, PTL
-----------------------------------------------------------------------------
(***************************************************************************)
(* DashboardChart: the lines of the chart                                  *)
(***************************************************************************)
Entry == [frame : Nat, value : Int]

\* What a push of an entry at this frame makes of a line.
MovedByOne(r, line, value) ==
  /\ r \in Seq(Entry) /\ Len(r) \in Nat /\ Len(line) \in Nat
  /\ Len(r) >= 1 /\ Len(r) <= HistoryMax
  /\ Len(r) = Len(line) + 1 \/ (Len(r) = Len(line) /\ Len(line) = HistoryMax)
  /\ r[Len(r)] = [frame |-> frame, value |-> value]
  /\ \A k \in 1..(Len(r) - 1) : r[Len(r) - k] = line[Len(line) - (k - 1)]

\* Counted from its end, a line moves by one when an entry is pushed.
LEMMA PushedEntries ==
  ASSUME NEW line \in Seq(Entry), Len(line) <= HistoryMax, NEW value \in Int, frame \in Nat,
         NEW r, r = Pushed(line, value)
  PROVE  MovedByOne(r, line, value)
<1> DEFINE e == [frame |-> frame, value |-> value]
           longer == Append(line, e)
<1>1. e \in Entry
  BY DEF Entry
<1>2. HistoryMax \in Nat /\ HistoryMax >= 1
  BY ChartAssumption
<1> HIDE DEF e
<1>3. /\ longer \in Seq(Entry) /\ Len(longer) = Len(line) + 1 /\ Len(line) \in Nat
      /\ longer[Len(line) + 1] = e
      /\ \A i \in 1..Len(line) : longer[i] = line[i]
  BY <1>1
<1>4. r = IF Len(longer) > HistoryMax THEN Tail(longer) ELSE longer
  BY DEF Pushed, e
<1> HIDE DEF longer
<1>5. CASE Len(longer) > HistoryMax
  <2>1. Len(line) = HistoryMax /\ r = Tail(longer)
    BY <1>2, <1>3, <1>4, <1>5
  <2>2. /\ r \in Seq(Entry) /\ Len(r) = Len(line)
        /\ \A i \in 1..Len(line) : r[i] = longer[i + 1]
    BY <1>3, <2>1
  <2>3. ASSUME NEW k \in 1..(Len(r) - 1) PROVE r[Len(r) - k] = line[Len(line) - (k - 1)]
    <3>1. /\ Len(r) - k \in 1..Len(line) /\ (Len(r) - k) + 1 \in 1..Len(line)
          /\ (Len(r) - k) + 1 = Len(line) - (k - 1)
      BY <1>3, <2>2
    <3> QED BY <1>3, <2>2, <3>1
  <2>4. r[Len(r)] = e
    BY <1>2, <1>3, <2>1, <2>2
  <2> QED BY <1>2, <1>3, <2>1, <2>2, <2>3, <2>4 DEF e, MovedByOne
<1>6. CASE ~(Len(longer) > HistoryMax)
  <2>1. r = longer
    BY <1>4, <1>6
  <2>2. ASSUME NEW k \in 1..(Len(r) - 1) PROVE r[Len(r) - k] = line[Len(line) - (k - 1)]
    <3>1. Len(r) - k \in 1..Len(line) /\ Len(r) - k = Len(line) - (k - 1)
      BY <1>3, <2>1
    <3> QED BY <1>3, <2>1, <3>1
  <2> QED BY <1>2, <1>3, <1>6, <2>1, <2>2 DEF e, MovedByOne
<1> QED BY <1>5, <1>6

\* A smoothed value lies between the one shown and the new one.
LEMMA SmoothedBetween ==
  ASSUME NEW a \in Int, NEW b \in Int, NEW d \in Nat, d >= 2
  PROVE  LET c == a + (b - a) \div d
         IN  /\ c \in Int
             /\ a <= b => a <= c /\ c <= b
             /\ b <= a => b <= c /\ c <= a
<1> DEFINE n == b - a
           q == n \div d
           m == n % d
<1>1. n \in Int /\ n = b - a
  OBVIOUS
<1> HIDE DEF n
<1>2. n = d * q + m /\ q \in Int /\ m \in Int /\ 0 <= m /\ m < d
  BY <1>1
<1> HIDE DEF q, m
<1>3. ASSUME n >= 0 PROVE 0 <= q /\ q <= n
  <2>1. ASSUME q <= -1 PROVE FALSE
    <3>1. q * d <= (-1) * d
      BY <1>2, <2>1, Multiples
    <3> QED BY <1>2, <1>3, <3>1
  <2>2. 0 <= q
    BY <1>2, <2>1
  <2>3. q * 1 <= q * d
    BY <1>2, <2>2
  <2> QED BY <1>1, <1>2, <2>2, <2>3
<1>4. ASSUME n <= 0 PROVE q <= 0 /\ n <= q
  <2>1. ASSUME q >= 1 PROVE FALSE
    <3>1. 1 * d <= q * d
      BY <1>2, <2>1, Multiples
    <3> QED BY <1>2, <1>4, <3>1
  <2>2. q <= 0
    BY <1>2, <2>1
  <2>3. n <= q
    <3>1. CASE q = 0
      BY <1>4, <3>1
    <3>2. CASE q # 0
      <4> SUFFICES ASSUME n > q PROVE FALSE
        BY <1>1, <1>2
      <4>1. n >= q + 1 /\ n <= q * d + (d - 1)
        BY <1>1, <1>2
      <4>2. (q + 1) * d <= (q + 1) * 1
        <5> DEFINE p == -(q + 1)
        <5>1. p \in Nat /\ q + 1 = -p
          BY <1>2, <2>2, <3>2
        <5>2. 1 * p <= d * p
          BY <5>1, Multiples
        <5> HIDE DEF p
        <5>3. (-p) * d = -(d * p)
          BY <5>1
        <5> QED BY <5>1, <5>2, <5>3
      <4> QED BY <1>1, <1>2, <4>1, <4>2
    <3> QED BY <3>1, <3>2
  <2> QED BY <2>2, <2>3
<1>5. a + q \in Int /\ (a <= b => a <= a + q /\ a + q <= b) /\ (b <= a => b <= a + q /\ a + q <= a)
  BY <1>1, <1>2, <1>3, <1>4
<1> QED BY <1>5 DEF q, n

\* What is shown and drawn of a value lies between the least and the largest seen.
Between(shown, line, values, lo, hi) ==
  /\ \A x \in values : lo <= x /\ x <= hi
  /\ Unit * lo <= shown /\ shown <= Unit * hi
  /\ \A i \in 1..Len(line) : Unit * lo <= line[i].value /\ line[i].value <= Unit * hi

LineInv(shown, line, values) ==
  /\ shown \in Int
  /\ line \in Seq(Entry)
  /\ Len(line) <= HistoryMax
  /\ values \in SUBSET (Nat \ {0})
  /\ values = {} => shown = 0 /\ line = << >>
  /\ values # {} => \E lo, hi \in values : Between(shown, line, values, lo, hi)

\* The last entries of the VWAP line are of the same frames as those of the prices.
SameFrames ==
  /\ Len(vwapLine) <= Len(priceLine)
  /\ \A k \in 0..(Len(vwapLine) - 1) :
       vwapLine[Len(vwapLine) - k].frame = priceLine[Len(priceLine) - k].frame

ChartInv ==
  /\ frame \in Nat
  /\ seen \in [price : SUBSET Nat, vwap : SUBSET Nat]
  /\ LineInv(shownPrice, priceLine, seen.price)
  /\ LineInv(shownVwap, vwapLine, seen.vwap)
  /\ SameFrames
  /\ ~traded => vwapLine = << >>

LEMMA SmoothedStep ==
  ASSUME NEW shown, NEW line, NEW values, LineInv(shown, line, values), frame \in Nat,
         NEW v \in Nat \ {0}, NEW d \in Divisors
  PROVE  LET new == Smoothed(shown, v, d)
         IN  LineInv(new, Pushed(line, new), values \cup {v})
<1> DEFINE new == Smoothed(shown, v, d)
           r == Pushed(line, new)
           all == values \cup {v}
<1>1. /\ shown \in Int /\ line \in Seq(Entry) /\ Len(line) <= HistoryMax
      /\ Unit \in Nat /\ Unit > 0 /\ d \in Nat /\ d >= 2
      /\ values \in SUBSET (Nat \ {0})
  BY ChartAssumption DEF LineInv
<1>2. v * Unit \in Int /\ v * Unit = Unit * v
  BY <1>1
<1>3. new \in Int
  BY <1>1, <1>2, SmoothedBetween DEF Smoothed
<1> HIDE DEF new
<1>4. /\ r \in Seq(Entry) /\ Len(r) >= 1 /\ Len(r) <= HistoryMax /\ Len(r) \in Nat
      /\ Len(r) <= Len(line) + 1 /\ Len(line) \in Nat
      /\ r[Len(r)] = [frame |-> frame, value |-> new]
      /\ \A k \in 1..(Len(r) - 1) : r[Len(r) - k] = line[Len(line) - (k - 1)]
  <2>1. r = Pushed(line, new)
    OBVIOUS
  <2> HIDE DEF r
  <2>2. MovedByOne(r, line, new)
    BY <1>1, <1>3, <2>1, PushedEntries
  <2> QED BY <2>2 DEF MovedByOne
<1> HIDE DEF r
<1>5. ASSUME NEW i \in 1..Len(r)
      PROVE  r[i].value = new \/ \E j \in 1..Len(line) : r[i].value = line[j].value
  <2>1. CASE i = Len(r)
    BY <1>4, <2>1
  <2>2. CASE i # Len(r)
    <3> DEFINE k == Len(r) - i
    <3>1. k \in 1..(Len(r) - 1) /\ i = Len(r) - k /\ Len(line) - (k - 1) \in 1..Len(line)
      BY <1>4, <2>2
    <3> QED BY <1>4, <3>1
  <2> QED BY <2>1, <2>2
<1>6. \E lo, hi \in all : Between(new, r, all, lo, hi)
  <2>1. CASE values = {}
    <3>1. shown = 0 /\ line = << >> /\ all = {v}
      BY <2>1 DEF LineInv
    <3>2. new = Unit * v
      BY <1>2, <3>1 DEF Smoothed, new
    <3>3. \A i \in 1..Len(r) : r[i].value = new
      BY <1>5, <3>1
    <3>4. Between(new, r, all, v, v)
      BY <1>2, <3>1, <3>2, <3>3 DEF Between
    <3> QED BY <3>1, <3>4
  <2>2. CASE values # {}
    <3>1. PICK lo \in values, hi \in values : Between(shown, line, values, lo, hi)
      BY <2>2 DEF LineInv
    <3>2. lo \in Nat /\ hi \in Nat /\ lo > 0 /\ Unit * lo \in Int /\ Unit * hi \in Int
      BY <1>1
    <3>3. shown > 0
      <4>1. 1 * Unit <= lo * Unit
        BY <1>1, <3>2, Multiples
      <4> QED BY <1>1, <3>1, <3>2, <4>1 DEF Between
    <3>4. new = shown + (v * Unit - shown) \div d
      BY <1>1, <3>3 DEF Smoothed, new
    <3>5. /\ shown <= Unit * v => shown <= new /\ new <= Unit * v
          /\ Unit * v <= shown => Unit * v <= new /\ new <= shown
      BY <1>1, <1>2, <3>4, SmoothedBetween
    <3> DEFINE low == IF v <= lo THEN v ELSE lo
               high == IF hi <= v THEN v ELSE hi
    <3>6. low \in all /\ high \in all /\ \A x \in all : low <= x /\ x <= high
      <4>1. \A x \in values : x \in Nat /\ lo <= x /\ x <= hi
        BY <1>1, <3>1 DEF Between
      <4>2. low \in all /\ high \in all
        OBVIOUS
      <4>3. low <= lo /\ low <= v /\ hi <= high /\ v <= high /\ low \in Nat /\ high \in Nat
        BY <3>2
      <4> HIDE DEF low, high
      <4>4. ASSUME NEW x \in all PROVE low <= x /\ x <= high
        <5>1. CASE x = v
          BY <4>3, <5>1
        <5>2. CASE x \in values
          BY <3>2, <4>1, <4>3, <5>2
        <5> QED BY <5>1, <5>2
      <4> QED BY <4>2, <4>4
    <3>7. /\ Unit * low <= Unit * lo /\ Unit * low <= Unit * v
          /\ Unit * hi <= Unit * high /\ Unit * v <= Unit * high
          /\ Unit * low \in Int /\ Unit * high \in Int
      <4>1. /\ low \in Nat /\ high \in Nat /\ low <= lo /\ low <= v /\ hi <= high /\ v <= high
        BY <3>2
      <4> HIDE DEF low, high
      <4>2. /\ low * Unit <= lo * Unit /\ low * Unit <= v * Unit
            /\ hi * Unit <= high * Unit /\ v * Unit <= high * Unit
        BY <1>1, <3>2, <4>1, Multiples
      <4>3. /\ low * Unit = Unit * low /\ lo * Unit = Unit * lo /\ v * Unit = Unit * v
            /\ hi * Unit = Unit * hi /\ high * Unit = Unit * high
        BY <1>1, <3>2, <4>1
      <4> QED BY <1>1, <4>1, <4>2, <4>3
    <3> HIDE DEF low, high
    <3>8. Unit * low <= new /\ new <= Unit * high
      BY <1>1, <1>2, <1>3, <3>1, <3>2, <3>5, <3>7 DEF Between
    <3>9. ASSUME NEW i \in 1..Len(r)
          PROVE  Unit * low <= r[i].value /\ r[i].value <= Unit * high
      <4>1. CASE r[i].value = new
        BY <3>8, <4>1
      <4>2. ASSUME NEW j \in 1..Len(line), r[i].value = line[j].value
            PROVE  Unit * low <= r[i].value /\ r[i].value <= Unit * high
        <5>1. line[j].value \in Int
          <6>1. line[j] \in Entry
            BY <1>1
          <6> QED BY <6>1 DEF Entry
        <5>2. Unit * lo <= line[j].value /\ line[j].value <= Unit * hi
          BY <3>1 DEF Between
        <5> QED BY <3>2, <3>7, <4>2, <5>1, <5>2
      <4> QED BY <1>5, <4>1, <4>2
    <3>10. Between(new, r, all, low, high)
      BY <3>6, <3>8, <3>9 DEF Between
    <3> QED BY <3>6, <3>10
  <2> QED BY <2>1, <2>2
<1>7. all \in SUBSET (Nat \ {0}) /\ all # {}
  BY <1>1
<1>8. LineInv(new, r, all)
  BY <1>3, <1>4, <1>6, <1>7 DEF LineInv
<1> QED BY <1>8 DEF r, new

LEMMA InitChartInv == ChartInit => ChartInv
BY ChartAssumption DEF ChartInit, ChartInv, LineInv, SameFrames

LEMMA PriceFrameInv ==
  ASSUME ChartInv, NEW mid \in Mids, NEW d \in Divisors, PriceFrame(mid, d)
  PROVE  /\ frame' \in Nat
         /\ mid \in Nat
         /\ shownPrice' \in Int
         /\ LineInv(shownPrice', priceLine', seen.price \cup {mid})
<1>1. mid \in Nat \ {0}
  BY ChartAssumption DEF PriceFrame
<1>2. /\ shownPrice' = Smoothed(shownPrice, mid, d)
      /\ priceLine' = Pushed(priceLine, shownPrice')
      /\ frame' = frame + 1
  BY DEF PriceFrame
<1>3. LineInv(shownPrice, priceLine, seen.price) /\ frame \in Nat
  BY DEF ChartInv
<1>4. LineInv(shownPrice', priceLine', seen.price \cup {mid})
  BY <1>1, <1>2, <1>3, SmoothedStep
<1>5. shownPrice' \in Int
  BY <1>4 DEF LineInv
<1> QED BY <1>1, <1>2, <1>3, <1>4, <1>5

LEMMA FrameBeforeTradeInv ==
  ASSUME ChartInv, NEW mid \in Mids, NEW d \in Divisors, FrameBeforeTrade(mid, d)
  PROVE  ChartInv'
<1>1. /\ frame' \in Nat /\ mid \in Nat
      /\ LineInv(shownPrice', priceLine', seen.price \cup {mid})
  BY PriceFrameInv DEF FrameBeforeTrade
<1>2. UNCHANGED <<shownVwap, vwapLine, traded>> /\ vwapLine = << >>
  BY DEF FrameBeforeTrade, ChartInv
<1>3. /\ seen' \in [price : SUBSET Nat, vwap : SUBSET Nat]
      /\ seen'.price = seen.price \cup {mid} /\ seen'.vwap = seen.vwap
  BY <1>1 DEF FrameBeforeTrade, ChartInv
<1>4. LineInv(shownPrice, priceLine, seen.price)'
  BY <1>1, <1>3
<1>5. LineInv(shownVwap, vwapLine, seen.vwap)'
  BY <1>2, <1>3 DEF ChartInv
<1>6. SameFrames'
  <2>1. Len(priceLine') \in Nat /\ Len(vwapLine') = 0
    BY <1>1, <1>2 DEF LineInv
  <2> QED BY <2>1 DEF SameFrames
<1> QED BY <1>1, <1>2, <1>3, <1>4, <1>5, <1>6 DEF ChartInv

LEMMA FrameWithVwapInv ==
  ASSUME ChartInv, NEW mid \in Mids, NEW vwap \in Vwaps, NEW d \in Divisors,
         FrameWithVwap(mid, vwap, d)
  PROVE  ChartInv'
<1>1. /\ frame' \in Nat /\ mid \in Nat /\ shownPrice' \in Int
      /\ LineInv(shownPrice', priceLine', seen.price \cup {mid})
  BY PriceFrameInv DEF FrameWithVwap
<1>2. vwap \in Nat \ {0}
  BY ChartAssumption
<1>3. /\ shownVwap' = Smoothed(shownVwap, vwap, d)
      /\ vwapLine' = Pushed(vwapLine, shownVwap')
      /\ priceLine' = Pushed(priceLine, shownPrice')
      /\ traded'
  BY DEF FrameWithVwap, PriceFrame
<1>4. /\ LineInv(shownVwap, vwapLine, seen.vwap) /\ LineInv(shownPrice, priceLine, seen.price)
      /\ frame \in Nat
  BY DEF ChartInv
<1>5. LineInv(shownVwap', vwapLine', seen.vwap \cup {vwap})
  BY <1>2, <1>3, <1>4, SmoothedStep
<1>6. shownVwap' \in Int
  BY <1>5 DEF LineInv
<1>7. /\ seen' \in [price : SUBSET Nat, vwap : SUBSET Nat]
      /\ seen'.price = seen.price \cup {mid} /\ seen'.vwap = seen.vwap \cup {vwap}
  BY <1>1, <1>2 DEF FrameWithVwap, ChartInv
<1>8. LineInv(shownPrice, priceLine, seen.price)' /\ LineInv(shownVwap, vwapLine, seen.vwap)'
  BY <1>1, <1>5, <1>7
<1>9. SameFrames'
  <2> DEFINE v == Len(vwapLine)
             p == Len(priceLine)
             v2 == Len(vwapLine')
             p2 == Len(priceLine')
  <2>1. /\ priceLine \in Seq(Entry) /\ p <= HistoryMax
        /\ vwapLine \in Seq(Entry) /\ v <= HistoryMax
        /\ v \in Nat /\ p \in Nat /\ v <= p
    BY <1>4 DEF LineInv, ChartInv, SameFrames
  <2>2. /\ p2 \in Nat /\ p2 >= 1 /\ p2 <= HistoryMax
        /\ p2 = p + 1 \/ (p2 = p /\ p = HistoryMax)
        /\ priceLine'[p2] = [frame |-> frame, value |-> shownPrice']
        /\ \A k \in 1..(p2 - 1) : priceLine'[p2 - k] = priceLine[p - (k - 1)]
    <3>1. PICK new \in Int : new = shownPrice'
      BY <1>1
    <3>2. PICK r : r = priceLine'
      OBVIOUS
    <3>3. r = Pushed(priceLine, new)
      BY <1>3, <3>1, <3>2
    <3>4. MovedByOne(r, priceLine, new)
      BY <1>4, <2>1, <3>1, <3>3, PushedEntries
    <3> QED BY <3>1, <3>2, <3>4 DEF MovedByOne
  <2>3. /\ v2 \in Nat /\ v2 >= 1 /\ v2 <= HistoryMax
        /\ v2 = v + 1 \/ (v2 = v /\ v = HistoryMax)
        /\ vwapLine'[v2] = [frame |-> frame, value |-> shownVwap']
        /\ \A k \in 1..(v2 - 1) : vwapLine'[v2 - k] = vwapLine[v - (k - 1)]
    <3>1. PICK new \in Int : new = shownVwap'
      BY <1>6
    <3>2. PICK r : r = vwapLine'
      OBVIOUS
    <3>3. r = Pushed(vwapLine, new)
      BY <1>3, <3>1, <3>2
    <3>4. MovedByOne(r, vwapLine, new)
      BY <1>4, <2>1, <3>1, <3>3, PushedEntries
    <3> QED BY <3>1, <3>2, <3>4 DEF MovedByOne
  <2>4. \A k \in 0..(v - 1) : vwapLine[v - k].frame = priceLine[p - k].frame
    BY DEF ChartInv, SameFrames
  <2> HIDE DEF v, p, v2, p2
  <2>5. v2 <= p2 /\ v2 - 1 <= v
    <3>1. HistoryMax \in Nat
      BY ChartAssumption
    <3> QED BY <2>1, <2>2, <2>3, <3>1
  <2>6. ASSUME NEW k \in 0..(v2 - 1)
        PROVE  vwapLine'[v2 - k].frame = priceLine'[p2 - k].frame
    <3>1. CASE k = 0
      <4>1. v2 - k = v2 /\ p2 - k = p2
        BY <2>2, <2>3, <3>1
      <4> QED BY <2>2, <2>3, <4>1
    <3>2. CASE k # 0
      <4>1. k \in 1..(v2 - 1) /\ k \in 1..(p2 - 1) /\ k - 1 \in 0..(v - 1)
        BY <2>1, <2>2, <2>3, <2>5, <3>2
      <4>2. /\ vwapLine'[v2 - k] = vwapLine[v - (k - 1)]
            /\ priceLine'[p2 - k] = priceLine[p - (k - 1)]
        BY <2>2, <2>3, <4>1
      <4> QED BY <2>4, <4>1, <4>2
    <3> QED BY <3>1, <3>2
  <2> QED BY <2>5, <2>6 DEF SameFrames, v2, p2
<1> QED BY <1>1, <1>3, <1>7, <1>8, <1>9 DEF ChartInv

\* The lines hold the newest frames, a value for each, whatever the slider does.
THEOREM ChartInvariance == ChartSpec => []ChartInv
<1>1. ChartInv /\ [ChartNext]_chartVars => ChartInv'
  <2> SUFFICES ASSUME ChartInv, [ChartNext]_chartVars PROVE ChartInv'
    OBVIOUS
  <2>1. CASE FrameWithoutPrice
    <3>1. /\ UNCHANGED <<shownPrice, shownVwap, priceLine, vwapLine, traded, seen>>
          /\ frame' = frame + 1
      BY <2>1 DEF FrameWithoutPrice
    <3>2. frame' \in Nat
      BY <3>1 DEF ChartInv
    <3> QED BY <3>1, <3>2 DEF ChartInv, LineInv, SameFrames
  <2>2. ASSUME NEW mid \in Mids, NEW d \in Divisors, FrameBeforeTrade(mid, d) PROVE ChartInv'
    BY <2>2, FrameBeforeTradeInv
  <2>3. ASSUME NEW mid \in Mids, NEW vwap \in Vwaps, NEW d \in Divisors,
               FrameWithVwap(mid, vwap, d)
        PROVE  ChartInv'
    BY <2>3, FrameWithVwapInv
  <2>4. CASE UNCHANGED chartVars
    BY <2>4 DEF chartVars, ChartInv, LineInv, SameFrames
  <2> QED BY <2>1, <2>2, <2>3, <2>4 DEF ChartNext
<1> QED BY <1>1, InitChartInv, PTL DEF ChartSpec

LEMMA SuffixOfEntries ==
  ASSUME NEW s \in Seq(Entry), NEW t \in Seq(Entry), Len(s) <= Len(t),
         \A k \in 0..(Len(s) - 1) : s[Len(s) - k].frame = t[Len(t) - k].frame
  PROVE  IsSuffix(Frames(s), Frames(t))
<1> DEFINE m == Len(s)
           n == Len(t)
           a == Reverse(Frames(s))
           b == Reverse(Frames(t))
<1>1. /\ m \in Nat /\ n \in Nat /\ m <= n
      /\ DOMAIN s = 1..m /\ DOMAIN t = 1..n
  OBVIOUS
<1>2. \A i \in 1..m : s[i] \in Entry
  OBVIOUS
<1>3. \A i \in 1..n : t[i] \in Entry
  OBVIOUS
<1>4. /\ Frames(s) \in Seq(Nat) /\ Len(Frames(s)) = m
      /\ \A i \in 1..m : Frames(s)[i] = s[i].frame
  BY <1>1, <1>2 DEF Frames, Entry
<1>5. /\ Frames(t) \in Seq(Nat) /\ Len(Frames(t)) = n
      /\ \A i \in 1..n : Frames(t)[i] = t[i].frame
  BY <1>1, <1>3 DEF Frames, Entry
<1>6. /\ a \in Seq(Nat) /\ Len(a) = m
      /\ \A i \in 1..m : a[i] = s[m - (i - 1)].frame
  <2>1. \A i \in 1..m : (m - i) + 1 \in 1..m /\ (m - i) + 1 = m - (i - 1)
    BY <1>1
  <2>2. \A i \in 1..m : Frames(s)[(m - i) + 1] \in Nat
    BY <1>4, <2>1
  <2> QED BY <1>1, <1>4, <2>1, <2>2 DEF Reverse
<1>7. /\ b \in Seq(Nat) /\ Len(b) = n
      /\ \A i \in 1..n : b[i] = t[n - (i - 1)].frame
  <2>1. \A i \in 1..n : (n - i) + 1 \in 1..n /\ (n - i) + 1 = n - (i - 1)
    BY <1>1
  <2>2. \A i \in 1..n : Frames(t)[(n - i) + 1] \in Nat
    BY <1>5, <2>1
  <2> QED BY <1>1, <1>5, <2>1, <2>2 DEF Reverse
<1>8. \A i \in 1..m : a[i] = b[i]
  <2> TAKE i \in 1..m
  <2>1. i - 1 \in 0..(m - 1) /\ i \in 1..n
    BY <1>1
  <2> QED BY <1>6, <1>7, <2>1
<1> HIDE DEF a, b, m, n
<1>9. SubSeq(a, 1, m) = SubSeq(b, 1, m)
  BY <1>1, <1>6, <1>7, <1>8
<1> QED BY <1>1, <1>6, <1>7, <1>9 DEF IsSuffix, IsPrefix, a, b

\* The VWAP line is of the newest frames of the price line, and no smoothed value
\* leaves the range of the values seen.
THEOREM ChartLinesHold == ChartSpec => []ChartLines
<1>1. ASSUME NEW shown, NEW line, NEW values, LineInv(shown, line, values)
      PROVE  WithinSeen(line, values)
  <2>1. line \in Seq(Entry) /\ values \in SUBSET (Nat \ {0})
    BY <1>1 DEF LineInv
  <2>2. CASE values = {}
    BY <1>1, <2>2 DEF LineInv, WithinSeen
  <2>3. CASE values # {}
    <3>1. PICK lo \in values, hi \in values : Between(shown, line, values, lo, hi)
      BY <1>1, <2>3 DEF LineInv
    <3>2. values \in SUBSET Int /\ \A x \in values : lo <= x /\ x <= hi
      BY <2>1, <3>1 DEF Between
    <3>3. Min(values) = lo /\ Max(values) = hi
      BY <3>2, MinIs, MaxIs
    <3>4. DOMAIN line = 1..Len(line)
      BY <2>1
    <3>5. ASSUME NEW i \in 1..Len(line)
          PROVE  line[i].value >= Unit * lo /\ line[i].value <= Unit * hi
      <4>1. line[i] \in Entry
        BY <2>1
      <4>2. line[i].value \in Int
        BY <4>1 DEF Entry
      <4>3. Unit * lo \in Int /\ Unit * hi \in Int
        BY <3>2, ChartAssumption
      <4> QED BY <3>1, <4>2, <4>3 DEF Between
    <3> QED BY <3>3, <3>4, <3>5 DEF WithinSeen
  <2> QED BY <2>2, <2>3
<1>2. ChartInv => ChartLines
  <2> SUFFICES ASSUME ChartInv PROVE ChartLines
    OBVIOUS
  <2>1. WithinSeen(priceLine, seen.price) /\ WithinSeen(vwapLine, seen.vwap)
    BY <1>1 DEF ChartInv
  <2>2. priceLine \in Seq(Entry) /\ vwapLine \in Seq(Entry)
    BY DEF ChartInv, LineInv
  <2>3. IsSuffix(Frames(vwapLine), Frames(priceLine))
    BY <2>2, SuffixOfEntries DEF ChartInv, SameFrames
  <2> QED BY <2>1, <2>3 DEF ChartLines
<1> QED BY <1>2, ChartInvariance, PTL
=============================================================================
