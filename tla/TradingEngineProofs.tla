------------------------ MODULE TradingEngineProofs -------------------------
(***************************************************************************)
(* The tick buffer under the trading engine is a FIFO queue of at most     *)
(* Size - 1 ticks, its plain accesses never race and its available() can   *)
(* be acted on, for every size, every set of ticks and every delay of the  *)
(* loads; stopping the engine lets at most one more tick in.               *)
(*                                                                         *)
(* The invariant counts pushes and pops without the modulus: a push counts *)
(* from its ready flag on, which may be before its write position is       *)
(* stored.                                                                 *)
(***************************************************************************)
EXTENDS TradingEngine, TLAPS

\* The slot of the i-th push or pop, counted from 0.
Slot(i) == i % Size

\* Ticks the consumer may pop or has popped: those accepted, and the one whose
\* flag is set and whose write position is not stored yet.
Pushed == IF prod = "store" THEN Append(accepted, pushing) ELSE accepted

\* Flags cleared by pop: one more than the pops when read_pos_ is still to move.
Cleared == Len(delivered) + (IF cons = "store" THEN 1 ELSE 0)
-----------------------------------------------------------------------------
(***************************************************************************)
(* The inductive invariant of the buffer.                                  *)
(***************************************************************************)
BufferType ==
  /\ slots \in [Index -> Ticks \cup {NoTick}]
  /\ ready \in [Index -> BOOLEAN]
  /\ prod \in {"idle", "test", "write", "setReady", "store"}
  /\ cons \in {"idle", "read", "clear", "store"}
  /\ pushing \in Ticks \cup {NoTick}
  /\ prod # "idle" => pushing \in Ticks
  /\ popped \in Ticks \cup {NoTick}
  /\ seenPops \in Nat
  /\ seenPushes \in Nat
  /\ available \in [{"prod", "cons"} -> Nat \cup {Unknown}]
  /\ accepted \in Seq(Ticks)
  /\ delivered \in Seq(Ticks)

\* What the two positions are, and what each side knows of the other's.
PositionInv ==
  /\ writePos = Slot(Len(accepted))
  /\ readPos = Slot(Len(delivered))
  /\ Len(delivered) <= Len(Pushed)
  /\ cons # "idle" => /\ Len(delivered) < Len(Pushed)
                      /\ Len(delivered) <= seenPushes
  /\ seenPops <= Len(delivered)
  /\ Len(accepted) < seenPops + Size
  /\ prod \in {"write", "setReady", "store"} => Len(accepted) + 1 < seenPops + Size
  /\ seenPushes <= Len(accepted)
  /\ Len(delivered) <= seenPushes + 1

\* The flags are set for the ticks that can be popped, and for no other slot.
FlagInv ==
  /\ \A i \in Cleared..(Len(Pushed) - 1) : ready[Slot(i)]
  /\ \A i \in Len(Pushed)..(Cleared + Size - 1) : ~ready[Slot(i)]

ContentInv ==
  /\ \A i \in Len(delivered)..(Len(Pushed) - 1) : slots[Slot(i)] = Pushed[i + 1]
  /\ \A i \in 1..Len(delivered) : delivered[i] = Pushed[i]
  /\ prod = "setReady" => slots[writePos] = pushing
  /\ cons \in {"clear", "store"} => popped = Pushed[Len(delivered) + 1]

\* An answer of available() still bounds the room, or the ticks, there is.
AnswerInv ==
  /\ \A t \in {"prod", "cons"} : available[t] < Size
  /\ available["prod"] # Unknown => Len(accepted) <= seenPops + available["prod"]
  /\ available["cons"] \in 1..(Size - 2) => Len(delivered) < seenPushes

BufferInv == BufferType /\ PositionInv /\ FlagInv /\ ContentInv /\ AnswerInv

\* A tick enters late only by a push that had begun before collecting ended.
LateInv ==
  /\ late \in {0, 1}
  /\ collecting \in BOOLEAN
  /\ collecting => late = 0
  /\ late = 1 => prod \in {"store", "idle"}

IInv == BufferInv /\ LateInv
-----------------------------------------------------------------------------
(***************************************************************************)
(* Slots of the ring.                                                      *)
(***************************************************************************)
\* Quotient and remainder by the size.
LEMMA Division ==
  ASSUME NEW n \in Int
  PROVE  n = Size * (n \div Size) + (n % Size) /\ n \div Size \in Int /\ n % Size \in Index
BY BufferAssumption DEF Index

\* A number has one quotient and one remainder.
LEMMA RemainderUnique ==
  ASSUME NEW n \in Int, NEW q \in Int, NEW r \in Index, n = Size * q + r
  PROVE  n % Size = r
<1> DEFINE q2 == n \div Size
           r2 == n % Size
<1>1. /\ n = Size * q2 + r2 /\ q2 \in Int /\ r2 \in Int
      /\ 0 <= r2 /\ r2 < Size /\ Size \in Nat \ {0}
      /\ r \in Int /\ 0 <= r /\ r < Size
  BY BufferAssumption DEF Index
<1> HIDE DEF q2, r2
<1>2. r - r2 = Size * (q2 - q)
  BY <1>1
<1>3. CASE q2 - q <= -1
  BY <1>1, <1>2, <1>3
<1>4. CASE q2 - q >= 1
  BY <1>1, <1>2, <1>4
<1>5. CASE q2 = q
  BY <1>1, <1>2, <1>5
<1>6. r2 = r
  BY <1>1, <1>3, <1>4, <1>5
<1> QED BY <1>6 DEF r2

LEMMA SlotRange ==
  ASSUME NEW i \in Int
  PROVE  Slot(i) \in Index
BY BufferAssumption DEF Slot, Index

\* Positions advance with the counts, whatever the number of laps.
LEMMA SlotPlus ==
  ASSUME NEW i \in Int, NEW k \in Int
  PROVE  (Slot(i) + k) % Size = Slot(i + k)
<1> DEFINE q == i \div Size
           q2 == (Slot(i) + k) \div Size
           r2 == (Slot(i) + k) % Size
<1>1. Size \in Nat \ {0} /\ Slot(i) \in Int /\ Slot(i) + k \in Int
  BY BufferAssumption DEF Slot
<1>2. i = Size * q + Slot(i) /\ q \in Int
  BY BufferAssumption DEF Slot
<1>3. Slot(i) + k = Size * q2 + r2 /\ q2 \in Int /\ r2 \in Index
  BY <1>1, Division
<1> HIDE DEF q, q2, r2
<1>4. i + k = Size * (q + q2) + r2 /\ i + k \in Int /\ q + q2 \in Int
  BY <1>1, <1>2, <1>3 DEF Index
<1>5. (i + k) % Size = r2
  BY <1>3, <1>4, RemainderUnique
<1> QED BY <1>5 DEF Slot, r2

LEMMA SlotNext ==
  ASSUME NEW i \in Int
  PROVE  After(Slot(i)) = Slot(i + 1)
BY SlotPlus DEF After

\* The same slot again after one lap.
LEMMA SlotLap ==
  ASSUME NEW i \in Int
  PROVE  Slot(i + Size) = Slot(i)
<1> DEFINE q == i \div Size
<1>1. i = Size * q + Slot(i) /\ q \in Int /\ Slot(i) \in Index /\ Size \in Int
  BY BufferAssumption DEF Slot, Index
<1> HIDE DEF q
<1>2. i + Size = Size * (q + 1) + Slot(i) /\ i + Size \in Int /\ q + 1 \in Int
  BY <1>1 DEF Index
<1>3. (i + Size) % Size = Slot(i)
  BY <1>1, <1>2, RemainderUnique
<1> QED BY <1>3 DEF Slot

\* Two counts less than a lap apart have different slots.
LEMMA SlotsDistinct ==
  ASSUME NEW i \in Int, NEW j \in Int, i < j, j < i + Size
  PROVE  Slot(i) # Slot(j)
<1> SUFFICES ASSUME Slot(i) = Slot(j) PROVE FALSE
  OBVIOUS
<1> DEFINE qi == i \div Size
           qj == j \div Size
<1>1. /\ i = Size * qi + Slot(i) /\ qi \in Int /\ Slot(i) \in Int
      /\ j = Size * qj + Slot(j) /\ qj \in Int
      /\ Size \in Nat \ {0}
  BY BufferAssumption DEF Slot
<1> HIDE DEF qi, qj
<1>2. j - i = Size * (qj - qi)
  BY <1>1
<1>3. CASE qj - qi <= 0
  BY <1>1, <1>2, <1>3
<1>4. CASE qj - qi >= 1
  BY <1>1, <1>2, <1>4
<1> QED BY <1>1, <1>3, <1>4

\* What available() computes from two positions: the difference of the counts,
\* unless the consumer is one ahead of the pushes it knows of.
LEMMA DifferenceOfSlots ==
  ASSUME NEW wp \in Int, NEW rp \in Int
  PROVE  /\ wp - rp \in 0..(Size - 1) => Difference(Slot(wp), Slot(rp)) = wp - rp
         /\ wp + 1 = rp => Difference(Slot(wp), Slot(rp)) = Size - 1
<1>1. /\ Size \in Nat /\ Size > 1
      /\ Slot(wp) \in Int /\ 0 <= Slot(wp) /\ Slot(wp) < Size
      /\ Slot(rp) \in Int /\ 0 <= Slot(rp) /\ Slot(rp) < Size
  BY BufferAssumption, SlotRange DEF Index
<1>2. ASSUME NEW x \in Int, 0 <= x, x < 2 * Size
      PROVE  x % Size = IF x < Size THEN x ELSE x - Size
  <2>1. CASE x < Size
    <3>1. x = Size * 0 + x /\ x \in Index
      BY <1>1, <1>2, <2>1 DEF Index
    <3> QED BY <2>1, <3>1, RemainderUnique
  <2>2. CASE x >= Size
    <3>1. x = Size * 1 + (x - Size) /\ x - Size \in Index
      BY <1>1, <1>2, <2>2 DEF Index
    <3> QED BY <1>1, <1>2, <2>2, <3>1, RemainderUnique
  <2> QED BY <1>1, <1>2, <2>1, <2>2
<1>3. ASSUME wp - rp \in 0..(Size - 1)
      PROVE  Difference(Slot(wp), Slot(rp)) = wp - rp
  <2>1. Slot(wp) = (Slot(rp) + (wp - rp)) % Size
    BY SlotPlus, rp + (wp - rp) = wp
  <2>2. Slot(wp) = IF Slot(rp) + (wp - rp) < Size THEN Slot(rp) + (wp - rp)
                   ELSE Slot(rp) + (wp - rp) - Size
    BY <1>1, <1>2, <1>3, <2>1
  <2> QED BY <1>1, <1>3, <2>2 DEF Difference
<1>4. ASSUME wp + 1 = rp
      PROVE  Difference(Slot(wp), Slot(rp)) = Size - 1
  <2>1. Slot(rp) = (Slot(wp) + 1) % Size
    BY <1>4, SlotPlus
  <2>2. Slot(rp) = IF Slot(wp) + 1 < Size THEN Slot(wp) + 1 ELSE Slot(wp) + 1 - Size
    BY <1>1, <1>2, <2>1
  <2> QED BY <1>1, <2>2 DEF Difference
<1> QED BY <1>3, <1>4
-----------------------------------------------------------------------------
(***************************************************************************)
(* Every step of the buffer preserves its invariant.                       *)
(***************************************************************************)
LEMMA Counts ==
  ASSUME BufferType
  PROVE  /\ Size \in Nat /\ Size > 1
         /\ Len(accepted) \in Nat /\ Len(delivered) \in Nat
         /\ Pushed \in Seq(Ticks)
         /\ Len(Pushed) = Len(accepted) + (IF prod = "store" THEN 1 ELSE 0)
         /\ Cleared \in Nat
BY BufferAssumption DEF BufferType, Pushed, Cleared

LEMMA InitInv == BufferInit => BufferInv
<1> SUFFICES ASSUME BufferInit PROVE BufferInv
  OBVIOUS
<1> USE BufferAssumption DEF BufferInit, Unknown
<1>1. BufferType BY DEF BufferType, Index
<1>2. Len(accepted) = 0 /\ Len(delivered) = 0 /\ Len(Pushed) = 0 /\ Cleared = 0
  BY <1>1, Counts DEF Cleared
<1>3. Slot(0) = 0
  BY RemainderUnique, 0 = Size * 0 + 0, 0 \in Index DEF Slot, Index
<1>4. PositionInv BY <1>2, <1>3 DEF PositionInv
<1>5. FlagInv
  <2>1. \A i \in 0..(Size - 1) : Slot(i) \in Index
    BY SlotRange
  <2> QED BY <1>2, <2>1 DEF FlagInv
<1>6. ContentInv BY <1>2 DEF ContentInv
<1>7. AnswerInv BY <1>2 DEF AnswerInv
<1> QED BY <1>1, <1>4, <1>5, <1>6, <1>7 DEF BufferInv

LEMMA PushCallInv ==
  ASSUME BufferInv, NEW tick \in Ticks, PushCall(tick)
  PROVE  BufferInv' /\ Pushed' = Pushed
<1> USE DEF PushCall, ProdGoto
<1>a. BufferType /\ PositionInv /\ FlagInv /\ ContentInv /\ AnswerInv
  BY DEF BufferInv
<1>b. Pushed' = Pushed /\ Cleared' = Cleared
  BY DEF Pushed, Cleared
<1>1. BufferType' BY <1>a DEF BufferType
<1>2. PositionInv' BY <1>a, <1>b DEF PositionInv
<1>3. FlagInv' BY <1>a, <1>b DEF FlagInv
<1>4. ContentInv' BY <1>a, <1>b DEF ContentInv
<1>5. AnswerInv' BY <1>a DEF AnswerInv
<1> QED BY <1>b, <1>1, <1>2, <1>3, <1>4, <1>5 DEF BufferInv

LEMMA PushTestInv ==
  ASSUME BufferInv, NEW pops, PushTest(pops)
  PROVE  BufferInv' /\ Pushed' = Pushed
<1> USE DEF PushTest
<1>a. BufferType /\ PositionInv /\ FlagInv /\ ContentInv /\ AnswerInv
  BY DEF BufferInv
<1>b. Pushed' = Pushed /\ Cleared' = Cleared
  BY DEF Pushed, Cleared
<1>c. pops \in Nat /\ seenPops <= pops /\ pops <= Len(delivered) /\ seenPops \in Nat
  BY <1>a, Counts DEF BufferType
<1>d. ~IsFull(pops) => Len(accepted) + 1 < pops + Size
  <2> SUFFICES ASSUME Len(accepted) + 1 = pops + Size PROVE IsFull(pops)
    BY <1>a, <1>c, Counts DEF PositionInv
  <2>1. After(writePos) = Slot(pops + Size)
    BY <1>a, Counts, SlotNext DEF PositionInv
  <2> QED BY <1>c, <2>1, SlotLap DEF IsFull, Slot
<1>1. BufferType' BY <1>a, <1>c DEF BufferType, Unknown
<1>2. PositionInv' BY <1>a, <1>b, <1>c, <1>d, Counts DEF PositionInv
<1>3. FlagInv' BY <1>a, <1>b DEF FlagInv
<1>4. ContentInv' BY <1>a, <1>b DEF ContentInv
<1>5. AnswerInv'
  <2>1. /\ available'["cons"] = available["cons"]
        /\ available'["prod"] \in {available["prod"], Unknown}
        /\ Unknown < Size
    BY <1>a, Counts DEF BufferType, Unknown
  <2>2. available["prod"] # Unknown => available["prod"] \in Nat
    BY <1>a DEF BufferType
  <2> QED BY <1>a, <1>c, <2>1, <2>2, Counts DEF AnswerInv, Unknown
<1> QED BY <1>b, <1>1, <1>2, <1>3, <1>4, <1>5 DEF BufferInv

LEMMA PushWriteInv ==
  ASSUME BufferInv, PushWrite
  PROVE  BufferInv' /\ Pushed' = Pushed
<1> USE DEF PushWrite, ProdGoto
<1>a. BufferType /\ PositionInv /\ FlagInv /\ ContentInv /\ AnswerInv
  BY DEF BufferInv
<1>b. Pushed' = Pushed /\ Cleared' = Cleared /\ Len(Pushed) = Len(accepted)
  BY <1>a, Counts DEF Pushed, Cleared
<1>c. /\ writePos = Slot(Len(accepted)) /\ writePos \in Index
      /\ \A i \in Len(delivered)..(Len(Pushed) - 1) : Slot(i) # writePos /\ Slot(i) \in Index
  BY <1>a, <1>b, Counts, SlotRange, SlotsDistinct DEF PositionInv, BufferType
<1>1. BufferType' BY <1>a, <1>c DEF BufferType
<1>2. PositionInv' BY <1>a, <1>b DEF PositionInv
<1>3. FlagInv' BY <1>a, <1>b DEF FlagInv
<1>4. ContentInv' BY <1>a, <1>b, <1>c DEF ContentInv, BufferType
<1>5. AnswerInv' BY <1>a DEF AnswerInv
<1> QED BY <1>b, <1>1, <1>2, <1>3, <1>4, <1>5 DEF BufferInv

LEMMA PushSetReadyInv ==
  ASSUME BufferInv, PushSetReady
  PROVE  /\ BufferInv'
         /\ pushing \in Ticks
         /\ Pushed' = Append(Pushed, pushing)
         /\ Len(Pushed) - Len(delivered) < Size - 1
<1> USE DEF PushSetReady, ProdGoto
<1>a. BufferType /\ PositionInv /\ FlagInv /\ ContentInv /\ AnswerInv
  BY DEF BufferInv
<1> DEFINE n == Len(Pushed)
<1>b. /\ pushing \in Ticks /\ Pushed' = Append(Pushed, pushing) /\ Cleared' = Cleared
      /\ n = Len(accepted) /\ n \in Nat /\ Cleared \in Nat /\ Size \in Nat
      /\ Len(delivered) \in Nat /\ Cleared \in {Len(delivered), Len(delivered) + 1}
      /\ Cleared <= n /\ n + 1 < Len(delivered) + Size
  BY <1>a, Counts DEF Pushed, Cleared, BufferType, PositionInv
<1>c. /\ Len(Pushed') = n + 1
      /\ \A i \in 1..n : Pushed'[i] = Pushed[i]
      /\ Pushed'[n + 1] = pushing
  BY <1>a, <1>b, Counts
<1> HIDE DEF n
<1>d. /\ writePos = Slot(n) /\ Slot(n) \in Index
      /\ \A i \in Cleared..(Cleared + Size - 1) :
           Slot(i) \in Index /\ (i # n => Slot(i) # Slot(n))
  BY <1>a, <1>b, SlotRange, SlotsDistinct DEF PositionInv
<1>1. BufferType' BY <1>a, <1>b, <1>d DEF BufferType
<1>2. PositionInv' BY <1>a, <1>b, <1>c DEF PositionInv, n
<1>3. FlagInv'
  <2>1. ready' = [ready EXCEPT ![Slot(n)] = TRUE] /\ ready \in [Index -> BOOLEAN]
    BY <1>a, <1>d DEF BufferType
  <2>2. ASSUME NEW i \in Cleared..n PROVE ready'[Slot(i)]
    <3>1. CASE i = n BY <1>d, <2>1, <3>1
    <3>2. CASE i # n
      BY <1>a, <1>b, <1>d, <2>1, <3>2 DEF FlagInv, n
    <3> QED BY <3>1, <3>2
  <2>3. ASSUME NEW i \in (n + 1)..(Cleared + Size - 1) PROVE ~ready'[Slot(i)]
    BY <1>a, <1>b, <1>d, <2>1 DEF FlagInv, n
  <2> QED BY <1>b, <1>c, <2>2, <2>3 DEF FlagInv
<1>4. ContentInv'
  <2>1. ASSUME NEW i \in Len(delivered)..n PROVE slots[Slot(i)] = Pushed'[i + 1]
    <3>1. CASE i = n BY <1>a, <1>c, <1>d, <3>1 DEF ContentInv
    <3>2. CASE i # n
      <4>1. i \in Len(delivered)..(n - 1) /\ i + 1 \in 1..n
        BY <1>b, <3>2
      <4> QED BY <1>a, <1>c, <4>1 DEF ContentInv, n
    <3> QED BY <3>1, <3>2
  <2>2. \A i \in 1..Len(delivered) : i \in 1..n
    BY <1>a, <1>b DEF PositionInv, n
  <2>3. cons \in {"clear", "store"} => Len(delivered) + 1 \in 1..n
    BY <1>a, <1>b DEF PositionInv, n
  <2> QED BY <1>a, <1>b, <1>c, <2>1, <2>2, <2>3 DEF ContentInv
<1>5. AnswerInv' BY <1>a DEF AnswerInv
<1> QED BY <1>1, <1>2, <1>3, <1>4, <1>5, <1>b DEF BufferInv, n

LEMMA PushStoreInv ==
  ASSUME BufferInv, PushStore
  PROVE  BufferInv' /\ Pushed' = Pushed
<1> USE DEF PushStore, ProdGoto
<1>a. BufferType /\ PositionInv /\ FlagInv /\ ContentInv /\ AnswerInv
  BY DEF BufferInv
<1>b. /\ Pushed' = Pushed /\ Cleared' = Cleared /\ pushing \in Ticks
      /\ accepted' \in Seq(Ticks) /\ Len(accepted') = Len(accepted) + 1
  BY <1>a DEF Pushed, Cleared, BufferType
<1>1. BufferType' BY <1>a, <1>b DEF BufferType, Unknown
<1>2. PositionInv'
  BY <1>a, <1>b, Counts, SlotNext DEF PositionInv, BufferType
<1>3. FlagInv' BY <1>a, <1>b DEF FlagInv
<1>4. ContentInv' BY <1>a, <1>b DEF ContentInv
<1>5. AnswerInv'
  <2>1. /\ available'["cons"] = available["cons"]
        /\ available'["prod"] = Unknown
        /\ Unknown < Size
    BY <1>a, Counts DEF BufferType, Unknown
  <2> QED BY <1>a, <2>1 DEF AnswerInv
<1> QED BY <1>b, <1>1, <1>2, <1>3, <1>4, <1>5 DEF BufferInv

\* A flag that pop finds set is the flag of a tick pushed and not yet popped.
LEMMA PopReadyInv ==
  ASSUME BufferInv, PopReady
  PROVE  BufferInv' /\ Pushed' = Pushed
<1> USE DEF PopReady, ConsGoto
<1>a. BufferType /\ PositionInv /\ FlagInv /\ ContentInv /\ AnswerInv
  BY DEF BufferInv
<1>b. Pushed' = Pushed /\ Cleared' = Cleared /\ Cleared = Len(delivered)
  BY <1>a, Counts DEF Pushed, Cleared
<1>c. Len(delivered) < Len(Pushed)
  <2> SUFFICES ASSUME Len(delivered) = Len(Pushed) PROVE FALSE
    BY <1>a, Counts DEF PositionInv
  <2>1. Len(Pushed) \in Len(Pushed)..(Cleared + Size - 1)
    BY <1>a, <1>b, Counts
  <2> QED BY <1>a, <2>1 DEF FlagInv, PositionInv
<1>1. BufferType' BY <1>a, Counts DEF BufferType
<1>2. PositionInv' BY <1>a, <1>b, <1>c, Counts DEF PositionInv, BufferType
<1>3. FlagInv' BY <1>a, <1>b DEF FlagInv
<1>4. ContentInv' BY <1>a, <1>b DEF ContentInv
<1>5. AnswerInv' BY <1>a, Counts DEF AnswerInv, BufferType
<1> QED BY <1>b, <1>1, <1>2, <1>3, <1>4, <1>5 DEF BufferInv

LEMMA PopNotReadyInv ==
  ASSUME BufferInv, PopNotReady
  PROVE  BufferInv' /\ Pushed' = Pushed
<1> USE DEF PopNotReady
<1>a. BufferType /\ PositionInv /\ FlagInv /\ ContentInv /\ AnswerInv
  BY DEF BufferInv
<1>b. Pushed' = Pushed /\ Cleared' = Cleared
  BY DEF Pushed, Cleared
<1>1. BufferType' BY <1>a DEF BufferType, Unknown
<1>2. PositionInv' BY <1>a, <1>b DEF PositionInv
<1>3. FlagInv' BY <1>a, <1>b DEF FlagInv
<1>4. ContentInv' BY <1>a, <1>b DEF ContentInv
<1>5. AnswerInv'
  <2>1. /\ available'["prod"] = available["prod"]
        /\ available'["cons"] = Unknown
        /\ Unknown < Size /\ Unknown \notin 1..(Size - 2)
    BY <1>a, Counts DEF BufferType, Unknown
  <2> QED BY <1>a, <2>1 DEF AnswerInv
<1> QED BY <1>b, <1>1, <1>2, <1>3, <1>4, <1>5 DEF BufferInv

LEMMA PopReadInv ==
  ASSUME BufferInv, PopRead
  PROVE  BufferInv' /\ Pushed' = Pushed
<1> USE DEF PopRead, ConsGoto
<1>a. BufferType /\ PositionInv /\ FlagInv /\ ContentInv /\ AnswerInv
  BY DEF BufferInv
<1>b. Pushed' = Pushed /\ Cleared' = Cleared
  BY DEF Pushed, Cleared
<1>c. readPos \in Index /\ popped' = Pushed[Len(delivered) + 1]
  <2>1. Len(delivered) \in Len(delivered)..(Len(Pushed) - 1) /\ readPos = Slot(Len(delivered))
    BY <1>a, Counts DEF PositionInv
  <2> QED BY <1>a, <2>1, Counts, SlotRange DEF ContentInv
<1>1. BufferType' BY <1>a, <1>c DEF BufferType
<1>2. PositionInv' BY <1>a, <1>b DEF PositionInv
<1>3. FlagInv' BY <1>a, <1>b DEF FlagInv
<1>4. ContentInv' BY <1>a, <1>b, <1>c DEF ContentInv
<1>5. AnswerInv' BY <1>a DEF AnswerInv
<1> QED BY <1>b, <1>1, <1>2, <1>3, <1>4, <1>5 DEF BufferInv

LEMMA PopClearInv ==
  ASSUME BufferInv, PopClear
  PROVE  BufferInv' /\ Pushed' = Pushed
<1> USE DEF PopClear, ConsGoto
<1>a. BufferType /\ PositionInv /\ FlagInv /\ ContentInv /\ AnswerInv
  BY DEF BufferInv
<1> DEFINE n == Len(Pushed)
           d == Len(delivered)
<1>b. /\ Pushed' = Pushed /\ Cleared = d /\ Cleared' = d + 1
      /\ d \in Nat /\ n \in Nat /\ d < n /\ n < d + Size /\ Size \in Nat
  BY <1>a, Counts DEF Pushed, Cleared, PositionInv, BufferType
<1> HIDE DEF n, d
<1>c. /\ readPos = Slot(d) /\ Slot(d) \in Index /\ Slot(d + Size) = Slot(d)
      /\ \A i \in (d + 1)..(d + Size - 1) : Slot(i) \in Index /\ Slot(i) # Slot(d)
  <2>1. readPos = Slot(d)
    BY <1>a DEF PositionInv, d
  <2>2. Slot(d) \in Index /\ Slot(d + Size) = Slot(d)
    BY <1>b, SlotRange, SlotLap
  <2>3. ASSUME NEW i \in (d + 1)..(d + Size - 1)
        PROVE  Slot(i) \in Index /\ Slot(i) # Slot(d)
    <3>1. i \in Int /\ d \in Int /\ d < i /\ i < d + Size
      BY <1>b
    <3> QED BY <3>1, SlotRange, SlotsDistinct
  <2> QED BY <2>1, <2>2, <2>3
<1>d. ready' = [ready EXCEPT ![Slot(d)] = FALSE] /\ ready \in [Index -> BOOLEAN]
  BY <1>a, <1>c DEF BufferType
<1>1. BufferType' BY <1>a, <1>d DEF BufferType
<1>2. PositionInv' BY <1>a, <1>b DEF PositionInv
<1>3. FlagInv'
  <2>1. ASSUME NEW i \in (d + 1)..(n - 1) PROVE ready'[Slot(i)]
    BY <1>a, <1>b, <1>c, <1>d DEF FlagInv, n
  <2>2. ASSUME NEW i \in n..(d + Size) PROVE ~ready'[Slot(i)]
    <3>1. CASE i = d + Size
      BY <1>c, <1>d, <3>1
    <3>2. CASE i # d + Size
      <4>1. i \in n..(d + Size - 1) /\ i \in (d + 1)..(d + Size - 1)
        BY <1>b, <3>2
      <4> QED BY <1>a, <1>b, <1>c, <1>d, <4>1 DEF FlagInv, n
    <3> QED BY <3>1, <3>2
  <2>3. (d + 1) + Size - 1 = d + Size
    BY <1>b
  <2> QED BY <1>b, <2>1, <2>2, <2>3 DEF FlagInv, n
<1>4. ContentInv' BY <1>a, <1>b DEF ContentInv
<1>5. AnswerInv' BY <1>a DEF AnswerInv
<1> QED BY <1>b, <1>1, <1>2, <1>3, <1>4, <1>5 DEF BufferInv

LEMMA PopStoreInv ==
  ASSUME BufferInv, PopStore
  PROVE  BufferInv' /\ Pushed' = Pushed /\ Len(delivered) < Len(Pushed)
<1> USE DEF PopStore, ConsGoto
<1>a. BufferType /\ PositionInv /\ FlagInv /\ ContentInv /\ AnswerInv
  BY DEF BufferInv
<1> DEFINE d == Len(delivered)
<1>b. /\ Pushed' = Pushed /\ Cleared' = Cleared
      /\ d \in Nat /\ d < Len(Pushed) /\ popped = Pushed[d + 1] /\ popped \in Ticks
  BY <1>a, Counts DEF Pushed, Cleared, PositionInv, ContentInv, BufferType
<1>c. /\ delivered' \in Seq(Ticks) /\ Len(delivered') = d + 1
      /\ \A i \in 1..d : delivered'[i] = delivered[i]
      /\ delivered'[d + 1] = Pushed[d + 1]
  BY <1>a, <1>b DEF BufferType
<1>1. BufferType' BY <1>a, <1>c DEF BufferType, Unknown
<1>2. PositionInv'
  <2>1. readPos' = Slot(d + 1)
    BY <1>a, <1>b, SlotNext DEF PositionInv
  <2> QED BY <1>a, <1>b, <1>c, <2>1, Counts DEF PositionInv, BufferType
<1>3. FlagInv' BY <1>a, <1>b DEF FlagInv
<1>4. ContentInv'
  <2>1. \A i \in 1..(d + 1) : delivered'[i] = Pushed[i]
    BY <1>a, <1>b, <1>c DEF ContentInv
  <2> QED BY <1>a, <1>b, <1>c, <2>1 DEF ContentInv
<1>5. AnswerInv'
  <2>1. /\ available'["prod"] = available["prod"]
        /\ available'["cons"] = Unknown
        /\ Unknown < Size /\ Unknown \notin 1..(Size - 2)
    BY <1>a, Counts DEF BufferType, Unknown
  <2> QED BY <1>a, <2>1 DEF AnswerInv
<1> QED BY <1>b, <1>1, <1>2, <1>3, <1>4, <1>5 DEF BufferInv

LEMMA ProdAvailableInv ==
  ASSUME BufferInv, NEW pops, ProdAvailable(pops)
  PROVE  BufferInv' /\ Pushed' = Pushed
<1> USE DEF ProdAvailable
<1>a. BufferType /\ PositionInv /\ FlagInv /\ ContentInv /\ AnswerInv
  BY DEF BufferInv
<1>b. Pushed' = Pushed /\ Cleared' = Cleared /\ Len(Pushed) = Len(accepted)
  BY <1>a, Counts DEF Pushed, Cleared
<1>c. pops \in Nat /\ seenPops <= pops /\ pops <= Len(delivered) /\ seenPops \in Nat
  BY <1>a, Counts DEF BufferType
<1>d. Difference(writePos, pops % Size) = Len(accepted) - pops
  <2>1. Len(accepted) - pops \in 0..(Size - 1)
    BY <1>a, <1>b, <1>c, Counts DEF PositionInv
  <2> QED BY <1>a, <1>c, <2>1, DifferenceOfSlots, Counts DEF PositionInv, Slot
<1>e. /\ available'["prod"] = Len(accepted) - pops /\ available'["cons"] = available["cons"]
      /\ Len(accepted) - pops \in Nat /\ Len(accepted) - pops < Size
  BY <1>a, <1>b, <1>c, <1>d, Counts DEF BufferType, PositionInv
<1>1. BufferType' BY <1>a, <1>c, <1>d, <1>e DEF BufferType
<1>2. PositionInv' BY <1>a, <1>b, <1>c, Counts DEF PositionInv
<1>3. FlagInv' BY <1>a, <1>b DEF FlagInv
<1>4. ContentInv' BY <1>a, <1>b DEF ContentInv
<1>5. AnswerInv' BY <1>a, <1>c, <1>e, Counts DEF AnswerInv
<1> QED BY <1>b, <1>1, <1>2, <1>3, <1>4, <1>5 DEF BufferInv

\* The consumer may have popped one tick more than it knows to be pushed: the
\* difference then wraps to the largest value, Size - 1.
LEMMA ConsAvailableInv ==
  ASSUME BufferInv, NEW pushes, ConsAvailable(pushes)
  PROVE  BufferInv' /\ Pushed' = Pushed
<1> USE DEF ConsAvailable
<1>a. BufferType /\ PositionInv /\ FlagInv /\ ContentInv /\ AnswerInv
  BY DEF BufferInv
<1> DEFINE d == Len(delivered)
           answer == Difference(pushes % Size, readPos)
<1>b. Pushed' = Pushed /\ Cleared' = Cleared
  BY DEF Pushed, Cleared
<1>c. /\ pushes \in Nat /\ seenPushes <= pushes /\ pushes <= Len(accepted)
      /\ seenPushes \in Nat /\ d \in Nat /\ Size \in Nat /\ Size > 1
      /\ d <= pushes + 1 /\ pushes - d < Size
  BY <1>a, Counts DEF BufferType, PositionInv
<1>d. answer = IF d = pushes + 1 THEN Size - 1 ELSE pushes - d
  <2>1. answer = Difference(Slot(pushes), Slot(d))
    BY <1>a DEF PositionInv, Slot
  <2>2. pushes - d \in 0..(Size - 1) \/ pushes + 1 = d
    BY <1>c
  <2>3. pushes \in Int /\ d \in Int
    BY <1>c
  <2>4. /\ pushes - d \in 0..(Size - 1) => Difference(Slot(pushes), Slot(d)) = pushes - d
        /\ pushes + 1 = d => Difference(Slot(pushes), Slot(d)) = Size - 1
    BY <2>3, DifferenceOfSlots
  <2> HIDE DEF d, answer
  <2> QED BY <1>c, <2>1, <2>2, <2>3, <2>4
<1> HIDE DEF answer
<1>e. /\ available' = [available EXCEPT !["cons"] = answer]
      /\ available'["prod"] = available["prod"] /\ available'["cons"] = answer
  BY <1>a DEF BufferType, answer
<1>f. answer \in Nat /\ answer < Size /\ (answer \in 1..(Size - 2) => d < pushes)
  BY <1>c, <1>d
<1>1. BufferType' BY <1>a, <1>c, <1>e, <1>f DEF BufferType
<1>2. PositionInv' BY <1>a, <1>b, <1>c, Counts DEF PositionInv
<1>3. FlagInv' BY <1>a, <1>b DEF FlagInv
<1>4. ContentInv' BY <1>a, <1>b DEF ContentInv
<1>5. AnswerInv' BY <1>a, <1>e, <1>f DEF AnswerInv
<1> QED BY <1>b, <1>1, <1>2, <1>3, <1>4, <1>5 DEF BufferInv
-----------------------------------------------------------------------------
(***************************************************************************)
(* Invariance.                                                             *)
(***************************************************************************)
\* What the engine's two threads do to the buffer.
BufferNext ==
  \/ \E tick \in Ticks : PushCall(tick)
  \/ PushStep
  \/ PopReady
  \/ PopNotReady
  \/ PopStep
  \/ Available

LEMMA NextIsBufferNext == [Next]_vars => BufferNext \/ UNCHANGED bufferVars
BY DEF Next, Network, Drain, Control, ProcessTrade, ContinuePush, LinkOpens, LinkEnds,
       RunReturns, DrainPop, DrainEnd, ContinuePop, StartDataCollection, StopDataCollection,
       Disconnect, Reconnect, ReconnectEnd, RunBacktest, RunBacktestEnd, AskAvailable,
       BufferNext, vars

LEMMA BufferNextInv ==
  ASSUME BufferInv, BufferNext \/ UNCHANGED bufferVars
  PROVE  BufferInv'
<1>1. CASE \E tick \in Ticks : PushCall(tick)
  BY <1>1, PushCallInv
<1>2. CASE PushStep
  BY <1>2, PushTestInv, PushWriteInv, PushSetReadyInv, PushStoreInv DEF PushStep
<1>3. CASE PopReady \/ PopNotReady \/ PopStep
  BY <1>3, PopReadyInv, PopNotReadyInv, PopReadInv, PopClearInv, PopStoreInv DEF PopStep
<1>4. CASE Available
  BY <1>4, ProdAvailableInv, ConsAvailableInv DEF Available
<1>5. CASE UNCHANGED bufferVars
  <2> USE <1>5 DEF bufferVars
  <2>1. Pushed' = Pushed /\ Cleared' = Cleared
    BY DEF Pushed, Cleared
  <2>2. BufferType' BY DEF BufferInv, BufferType
  <2>3. PositionInv' BY <2>1 DEF BufferInv, PositionInv
  <2>4. FlagInv' BY <2>1 DEF BufferInv, FlagInv
  <2>5. ContentInv' BY <2>1 DEF BufferInv, ContentInv
  <2>6. AnswerInv' BY DEF BufferInv, AnswerInv
  <2> QED BY <2>2, <2>3, <2>4, <2>5, <2>6 DEF BufferInv
<1> QED BY <1>1, <1>2, <1>3, <1>4, <1>5 DEF BufferNext

\* Only a push begun while the engine collected is under way when it stops.
LEMMA LateNextInv ==
  ASSUME BufferType, LateInv, [Next]_vars
  PROVE  LateInv'
<1> USE DEF LateInv
<1>1. ASSUME NEW tick \in Ticks, ProcessTrade(tick) PROVE LateInv'
  BY <1>1 DEF ProcessTrade, PushCall, ProdGoto, engineVars
<1>2. CASE ContinuePush
  <2>1. ASSUME NEW pops, PushTest(pops) PROVE LateInv'
    BY <1>2, <2>1 DEF ContinuePush, PushTest
  <2>2. CASE PushWrite
    BY <1>2, <2>2 DEF ContinuePush, PushWrite, ProdGoto
  <2>3. CASE PushSetReady
    BY <1>2, <2>3 DEF ContinuePush, PushSetReady, ProdGoto
  <2>4. CASE PushStore
    BY <1>2, <2>4 DEF ContinuePush, PushStore, ProdGoto
  <2> QED BY <1>2, <2>1, <2>2, <2>3, <2>4 DEF ContinuePush, PushStep
<1>3. CASE LinkOpens \/ LinkEnds \/ RunReturns
  BY <1>3 DEF LinkOpens, LinkEnds, RunReturns, bufferVars
<1>4. CASE Drain
  BY <1>4 DEF Drain, DrainPop, DrainEnd, ContinuePop, PopReady, PopNotReady, PopStep,
              PopRead, PopClear, PopStore, engineVars
<1>5. CASE Control
  <2> USE DEF bufferVars
  <2>1. CASE StartDataCollection
    BY <2>1 DEF StartDataCollection
  <2>2. CASE StopDataCollection \/ Disconnect
    BY <2>2 DEF StopDataCollection, Disconnect
  <2>3. CASE Reconnect \/ ReconnectEnd
    BY <2>3 DEF Reconnect, ReconnectEnd
  <2>4. CASE RunBacktest \/ RunBacktestEnd
    BY <2>4 DEF RunBacktest, RunBacktestEnd
  <2> QED BY <1>5, <2>1, <2>2, <2>3, <2>4 DEF Control
<1>6. CASE AskAvailable
  BY <1>6 DEF AskAvailable, Available, ProdAvailable, ConsAvailable, engineVars
<1>7. CASE UNCHANGED vars
  BY <1>7 DEF vars, bufferVars, engineVars
<1> QED BY <1>1, <1>2, <1>3, <1>4, <1>5, <1>6, <1>7 DEF Next, Network

\* The invariant holds in every reachable state of the engine and its buffer.
THEOREM EngineInvariance == Spec => []IInv
<1>1. Init => IInv
  BY InitInv DEF Init, BufferInit, IInv, LateInv
<1>2. IInv /\ [Next]_vars => IInv'
  BY NextIsBufferNext, BufferNextInv, LateNextInv DEF IInv, BufferInv
<1> QED BY <1>1, <1>2, PTL DEF Spec
-----------------------------------------------------------------------------
(***************************************************************************)
(* The safety properties that TLC checks follow from the invariant.        *)
(***************************************************************************)

\* The plain accesses to a slot in push and pop of TickBuffer.h never race: a
\* tick is being read below the write position, and less than a lap below it.
THEOREM EngineRaceFree == Spec => []NoSlotRace
<1>1. ASSUME IInv PROVE NoSlotRace
  <2> SUFFICES ASSUME prod = "write", cons = "read" PROVE writePos # readPos
    BY DEF NoSlotRace
  <2>1. BufferType /\ PositionInv
    BY <1>1 DEF IInv, BufferInv
  <2>2. /\ Len(delivered) < Len(accepted) /\ Len(accepted) < Len(delivered) + Size
        /\ Len(delivered) \in Int /\ Len(accepted) \in Int
    BY <2>1, Counts DEF PositionInv, BufferType
  <2>3. Slot(Len(delivered)) # Slot(Len(accepted))
    BY <2>2, SlotsDistinct
  <2> QED BY <2>1, <2>3 DEF PositionInv
<1> QED BY <1>1, EngineInvariance, PTL

\* What available() of TickBuffer.h answers below its largest value is kept:
\* the producer's next push finds room and the consumer's next pop a tick.
THEOREM AnswersHold == Spec => []AvailableIsUsable
<1>1. ASSUME IInv PROVE AvailableIsUsable
  <2>1. BufferType /\ PositionInv /\ FlagInv /\ AnswerInv
    BY <1>1 DEF IInv, BufferInv
  <2>2. ASSUME available["prod"] \in 0..(Size - 2), prod = "test",
               NEW pops \in seenPops..Len(delivered)
        PROVE  ~IsFull(pops)
    <3>1. /\ pops \in Int /\ Len(accepted) + 1 \in Int
          /\ pops < Len(accepted) + 1 /\ Len(accepted) + 1 < pops + Size
      BY SMTT(30), <2>1, <2>2, Counts DEF AnswerInv, PositionInv, BufferType, Unknown
    <3>2. Slot(pops) # Slot(Len(accepted) + 1)
      BY <3>1, SlotsDistinct
    <3>3. After(writePos) = Slot(Len(accepted) + 1)
      BY <2>1, Counts, SlotNext DEF PositionInv
    <3> QED BY <3>2, <3>3 DEF IsFull, Slot
  <2>3. ASSUME available["cons"] \in 1..(Size - 2), cons = "idle"
        PROVE  ready[readPos] /\ seenPushes > Len(delivered)
    <3>1. Len(delivered) < seenPushes /\ Len(delivered) \in Cleared..(Len(Pushed) - 1)
      BY <2>1, <2>3, Counts DEF AnswerInv, PositionInv, BufferType, Cleared
    <3>2. ready[readPos]
      BY <2>1, <3>1 DEF FlagInv, PositionInv
    <3>3. seenPushes \in Nat /\ Len(delivered) \in Nat
      BY <2>1, Counts DEF BufferType
    <3> QED BY <3>1, <3>2, <3>3
  <2> QED BY <2>1, <2>2, <2>3 DEF AvailableIsUsable, AnswerInv
<1> QED BY <1>1, EngineInvariance, PTL

\* stop_data_collection and disconnect do not interrupt process_trade, but at
\* most the one trade it was storing still enters the buffer.
THEOREM StopIsPrompt == Spec => []StopLetsOneIn
<1>1. IInv => StopLetsOneIn
  BY DEF IInv, LateInv, StopLetsOneIn
<1> QED BY <1>1, EngineInvariance, PTL
-----------------------------------------------------------------------------
(***************************************************************************)
(* The buffer implements BoundedQueue.                                     *)
(***************************************************************************)
\* The abstract queue is what was pushed and not yet popped.
Backlog ==
  /\ Filled = Len(Pushed) - Len(delivered)
  /\ Filled \in Nat
  /\ Queued \in Seq(Ticks)
  /\ Len(Queued) = Filled
  /\ \A i \in 1..Filled : Queued[i] = Pushed[Len(delivered) + i]

LEMMA QueuedIsBacklog == BufferInv => Backlog
<1> SUFFICES ASSUME BufferInv PROVE Backlog
  OBVIOUS
<1> DEFINE d == Len(delivered)
<1>1. BufferType /\ PositionInv /\ ContentInv
  BY DEF BufferInv
<1>2. /\ Filled = Len(Pushed) - d /\ Filled \in Nat
      /\ d \in Nat /\ Len(Pushed) \in Nat /\ Pushed \in Seq(Ticks)
  BY <1>1, Counts DEF Filled, PositionInv
<1>3. ASSUME NEW i \in 1..Filled
      PROVE  /\ slots[(readPos + i - 1) % Size] = Pushed[d + i]
             /\ Pushed[d + i] \in Ticks
  <2>1. (readPos + i - 1) % Size = Slot(d + i - 1)
    <3>1. readPos = Slot(d) /\ i - 1 \in Int /\ d \in Int /\ Slot(d) \in Int
      BY <1>1, <1>2, SlotRange DEF PositionInv, Index
    <3>2. (Slot(d) + (i - 1)) % Size = Slot(d + (i - 1))
      BY <3>1, SlotPlus
    <3>3. readPos + i - 1 = Slot(d) + (i - 1) /\ d + i - 1 = d + (i - 1)
      BY <1>2, <3>1
    <3> QED BY <3>2, <3>3
  <2>2. d + i - 1 \in d..(Len(Pushed) - 1) /\ (d + i - 1) + 1 = d + i /\ d + i \in 1..Len(Pushed)
    BY <1>2
  <2> QED BY <1>1, <1>2, <2>1, <2>2 DEF ContentInv
<1>4. Queued = [i \in 1..Filled |-> Pushed[d + i]]
  BY <1>3 DEF Queued
<1> QED BY <1>2, <1>3, <1>4 DEF Backlog

LEMMA QueuedIsBacklogNext == BufferInv' => Backlog'
BY QueuedIsBacklog, PTL

\* A step that neither sets a flag nor moves the read position is invisible.
LEMMA QuietStep ==
  ASSUME BufferInv, BufferInv', Pushed' = Pushed, delivered' = delivered
  PROVE  Queued' = Queued
<1>1. /\ Filled' = Filled
      /\ \A i \in 1..Filled : Queued'[i] = Queued[i]
  BY QueuedIsBacklog, QueuedIsBacklogNext DEF Backlog
<1> QED BY <1>1 DEF Queued

\* Setting the ready flag in push is the abstract Put.
LEMMA PushSetReadyPuts ==
  ASSUME BufferInv, BufferInv', PushSetReady
  PROVE  Abstract!Next
<1> DEFINE n == Len(Pushed)
           d == Len(delivered)
           appended == Append(Queued, pushing)
<1>1. /\ pushing \in Ticks /\ Pushed' = Append(Pushed, pushing) /\ n - d < Size - 1
      /\ delivered' = delivered /\ d \in Nat /\ n \in Nat /\ Pushed \in Seq(Ticks)
  BY PushSetReadyInv, Counts DEF PushSetReady, BufferInv
<1>2. Backlog /\ Backlog'
  BY QueuedIsBacklog, QueuedIsBacklogNext
<1>3. /\ Queued \in Seq(Ticks) /\ Len(Queued) = n - d
      /\ Queued' \in Seq(Ticks) /\ Len(Queued') = n - d + 1
  BY <1>1, <1>2 DEF Backlog
<1>4. /\ appended \in Seq(Ticks) /\ Len(appended) = n - d + 1
      /\ \A i \in 1..(n - d) : appended[i] = Queued[i]
      /\ appended[n - d + 1] = pushing
  BY <1>1, <1>3
<1> HIDE DEF appended
<1>5. ASSUME NEW i \in 1..(n - d + 1) PROVE Queued'[i] = appended[i]
  <2>1. Queued'[i] = Pushed'[d + i]
    <3>1. Len(delivered)' = d /\ i \in 1..Filled'
      BY <1>1, <1>2, <1>3 DEF Backlog
    <3>2. Queued'[i] = Pushed'[Len(delivered)' + i]
      BY <1>2, <3>1 DEF Backlog
    <3> QED BY <3>1, <3>2
  <2>2. CASE i <= n - d
    <3>1. i \in 1..(n - d) /\ d + i \in 1..n
      BY <1>1, <2>2
    <3>2. Pushed'[d + i] = Pushed[d + i]
      BY <1>1, <3>1
    <3> QED BY <1>2, <1>4, <2>1, <3>1, <3>2 DEF Backlog
  <2>3. CASE i = n - d + 1
    <3>1. Pushed'[d + i] = pushing
      BY <1>1, <2>3
    <3> QED BY <1>4, <2>1, <2>3, <3>1
  <2> QED BY SMTT(30), <1>1, <2>2, <2>3
<1>6. Queued' = appended
  BY <1>3, <1>4, <1>5
<1>7. Abstract!Put(pushing)
  BY <1>1, <1>3, <1>6 DEF Abstract!Put, appended
<1> QED BY <1>1, <1>7 DEF Abstract!Next

\* Storing read_pos_ in pop is the abstract Get.
LEMMA PopStoreGets ==
  ASSUME BufferInv, BufferInv', PopStore
  PROVE  Abstract!Next
<1> DEFINE n == Len(Pushed)
           d == Len(delivered)
<1>1. /\ Pushed' = Pushed /\ d < n /\ d \in Nat /\ n \in Nat /\ Len(delivered') = d + 1
  BY PopStoreInv, Counts DEF PopStore, BufferInv, BufferType
<1>2. Backlog /\ Backlog'
  BY QueuedIsBacklog, QueuedIsBacklogNext
<1>3. /\ Queued \in Seq(Ticks) /\ Len(Queued) = n - d
      /\ Queued' \in Seq(Ticks) /\ Len(Queued') = n - d - 1
  BY <1>1, <1>2 DEF Backlog
<1>4. /\ Tail(Queued) \in Seq(Ticks) /\ Len(Tail(Queued)) = n - d - 1
      /\ \A i \in 1..(n - d - 1) : Tail(Queued)[i] = Queued[i + 1]
  BY <1>1, <1>3
<1>5. ASSUME NEW i \in 1..(n - d - 1) PROVE Queued'[i] = Tail(Queued)[i]
  <2>1. Queued'[i] = Pushed[d + 1 + i]
    <3>1. Len(delivered)' = d + 1 /\ i \in 1..Filled'
      BY <1>1, <1>2, <1>3 DEF Backlog
    <3>2. Queued'[i] = Pushed'[Len(delivered)' + i]
      BY <1>2, <3>1 DEF Backlog
    <3> QED BY <1>1, <3>1, <3>2
  <2>2. i + 1 \in 1..(n - d) /\ d + (i + 1) = d + 1 + i
    BY <1>1
  <2>3. Queued[i + 1] = Pushed[d + 1 + i]
    BY <1>2, <2>2 DEF Backlog
  <2> QED BY <1>4, <2>1, <2>3
<1>6. Queued' = Tail(Queued)
  BY <1>3, <1>4, <1>5
<1>7. Abstract!Get
  BY <1>1, <1>3, <1>6 DEF Abstract!Get
<1> QED BY <1>7 DEF Abstract!Next

\* The buffer that process_trade and process_pending_ticks share implements a
\* FIFO queue of at most Size - 1 ticks: a push takes effect with its ready
\* flag, a pop with the read position, and every other step of the engine, its
\* control calls and available() included, is invisible.
THEOREM EngineRefinement == Spec => ImplementsBoundedQueue
<1>1. Init => Abstract!Init
  BY DEF Init, BufferInit, Abstract!Init, Queued, Filled
<1>2. ASSUME IInv, IInv', [Next]_vars PROVE [Abstract!Next]_Queued
  <2> USE QuietStep DEF IInv
  <2>1. CASE PushSetReady
    BY <1>2, <2>1, PushSetReadyPuts
  <2>2. CASE PopStore
    BY <1>2, <2>2, PopStoreGets
  <2>3. ASSUME NEW tick \in Ticks, PushCall(tick) PROVE Queued' = Queued
    BY <1>2, <2>3, PushCallInv DEF PushCall
  <2>4. ASSUME NEW pops, PushTest(pops) PROVE Queued' = Queued
    BY <1>2, <2>4, PushTestInv DEF PushTest
  <2>5. CASE PushWrite \/ PushStore
    BY <1>2, <2>5, PushWriteInv, PushStoreInv DEF PushWrite, PushStore
  <2>6. CASE PopReady \/ PopNotReady \/ PopRead \/ PopClear
    BY <1>2, <2>6, PopReadyInv, PopNotReadyInv, PopReadInv, PopClearInv
    DEF PopReady, PopNotReady, PopRead, PopClear
  <2>7. ASSUME NEW n, ProdAvailable(n) \/ ConsAvailable(n) PROVE Queued' = Queued
    BY <1>2, <2>7, ProdAvailableInv, ConsAvailableInv DEF ProdAvailable, ConsAvailable
  <2>8. CASE UNCHANGED bufferVars
    BY <2>8 DEF bufferVars, Queued, Filled
  <2> QED
    BY <1>2, <2>1, <2>2, <2>3, <2>4, <2>5, <2>6, <2>7, <2>8, NextIsBufferNext
    DEF BufferNext, PushStep, PopStep, Available
<1> QED
  BY <1>1, <1>2, EngineInvariance, PTL DEF Spec, ImplementsBoundedQueue, Abstract!Spec
=============================================================================
