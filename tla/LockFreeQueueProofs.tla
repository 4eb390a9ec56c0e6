------------------------ MODULE LockFreeQueueProofs -------------------------
(***************************************************************************)
(* With one producer and one consumer, LockFreeQueue is a FIFO queue of at *)
(* most Capacity items, whatever the capacity, the items and the delays of *)
(* its loads.                                                              *)
(***************************************************************************)
EXTENDS LockFreeQueue, TLAPS

-----------------------------------------------------------------------------
(***************************************************************************)
(* The inductive invariant: what each side knows of the shared indices.    *)
(***************************************************************************)
IndexInv ==
  /\ head <= tail
  /\ tail <= head + Capacity
  /\ Len(accepted) = tail
  /\ Len(delivered) = head

ContentInv ==
  /\ \A i \in head..(tail - 1) : slots[Slot(i)] = accepted[i + 1]
  /\ \A i \in 1..head : delivered[i] = accepted[i]

ProducerInv(p) ==
  /\ seen[p] <= head
  /\ tail <= seen[p] + Capacity
  /\ pc[p] \in {"idle", "pushTail", "pushTest", "pushStore", "sizeHead"}
  /\ pc[p] \in {"pushTail", "pushTest", "pushStore"} => loc[p].head = seen[p]
  /\ pc[p] \in {"pushTest", "pushStore", "sizeHead"} => loc[p].tail = tail
  /\ pc[p] = "pushStore" => /\ tail < seen[p] + Capacity
                            /\ loc[p].item \in Items
                            /\ slots[Slot(tail)] = loc[p].item
  /\ kind = "SPSCQueue" /\ pc[p] \in {"pushTail", "pushTest", "pushStore"}
       => synced[p] = seen[p]
  /\ sizeRead[p] # Unknown => /\ tail <= seen[p] + sizeRead[p]
                              /\ sizeRead[p] <= Capacity

ConsumerInv(c) ==
  /\ head <= seen[c]
  /\ seen[c] <= tail
  /\ pc[c] \in {"idle", "popTail", "popTest", "popStore", "sizeHead"}
  /\ pc[c] \in {"popTail", "popTest", "popStore"} => loc[c].head = head
  /\ pc[c] \in {"popTest", "popStore", "sizeHead"} => loc[c].tail = seen[c]
  /\ pc[c] = "popStore" => /\ head < seen[c]
                           /\ head < synced[c]
                           /\ loc[c].item = accepted[head + 1]
  /\ sizeRead[c] # Unknown => /\ sizeRead[c] <= seen[c] - head
                              /\ sizeRead[c] <= Capacity

IInv ==
  /\ TypeOK
  /\ IndexInv
  /\ ContentInv
  /\ \A p \in Producers : ProducerInv(p)
  /\ \A c \in Consumers : ConsumerInv(c)
-----------------------------------------------------------------------------
(***************************************************************************)
(* Slots of the ring.                                                      *)
(***************************************************************************)
LEMMA SlotRange ==
  ASSUME NEW index \in Nat
  PROVE  Slot(index) \in 0..(Capacity - 1)
BY QueueAssumption DEF Slot

\* Two indices less than a lap apart have different slots.
LEMMA SlotsDistinct ==
  ASSUME NEW i \in Nat, NEW j \in Nat, i < j, j < i + Capacity
  PROVE  Slot(i) # Slot(j)
<1>1. SUFFICES ASSUME i % Capacity = j % Capacity PROVE FALSE
  BY DEF Slot
<1> DEFINE qi == i \div Capacity
           qj == j \div Capacity
<1>2. /\ i = Capacity * qi + (i % Capacity) /\ qi \in Int
      /\ j = Capacity * qj + (j % Capacity) /\ qj \in Int
      /\ Capacity \in Nat \ {0}
  BY QueueAssumption
<1> HIDE DEF qi, qj
<1>3. j - i = Capacity * (qj - qi)
  BY <1>1, <1>2
<1>4. CASE qj - qi <= 0
  BY <1>2, <1>3, <1>4
<1>5. CASE qj - qi >= 1
  BY <1>2, <1>3, <1>5
<1> QED BY <1>2, <1>4, <1>5

-----------------------------------------------------------------------------
(***************************************************************************)
(* Every step preserves the inductive invariant.                           *)
(***************************************************************************)
LEMMA InitIInv == Init => IInv
<1> SUFFICES ASSUME Init PROVE IInv
  OBVIOUS
<1> USE QueueAssumption DEF Init, Threads, Unknown
<1>1. TypeOK BY DEF TypeOK
<1>2. IndexInv BY DEF IndexInv
<1>3. ContentInv BY DEF ContentInv
<1>4. \A p \in Producers : ProducerInv(p) BY DEF ProducerInv
<1>5. \A c \in Consumers : ConsumerInv(c) BY DEF ConsumerInv
<1> QED BY <1>1, <1>2, <1>3, <1>4, <1>5 DEF IInv

LEMMA LoadHeadType ==
  ASSUME TypeOK, NEW t \in Threads, NEW h, NEW acquires, LoadHead(t, h, acquires)
  PROVE  /\ h \in Nat
         /\ loc' \in [Threads -> [head : Nat, tail : Nat, item : Items \cup {NoItem}]]
         /\ seen' \in [Threads -> Nat]
         /\ synced' \in [Threads -> Nat]
<1>1. h \in Nat
  BY DEF TypeOK, LoadHead, HeadReads
<1>2. [loc[t] EXCEPT !.head = h] \in [head : Nat, tail : Nat, item : Items \cup {NoItem}]
  BY <1>1 DEF TypeOK
<1>3. loc' = [loc EXCEPT ![t] = [loc[t] EXCEPT !.head = h]]
  BY DEF LoadHead, TypeOK
<1> QED BY <1>1, <1>2, <1>3 DEF TypeOK, LoadHead

LEMMA LoadTailType ==
  ASSUME TypeOK, NEW t \in Threads, NEW i, NEW acquires, LoadTail(t, i, acquires)
  PROVE  /\ i \in Nat
         /\ loc' \in [Threads -> [head : Nat, tail : Nat, item : Items \cup {NoItem}]]
         /\ seen' \in [Threads -> Nat]
         /\ synced' \in [Threads -> Nat]
<1>1. i \in Nat
  BY DEF TypeOK, LoadTail, TailReads
<1>2. [loc[t] EXCEPT !.tail = i] \in [head : Nat, tail : Nat, item : Items \cup {NoItem}]
  BY <1>1 DEF TypeOK
<1>3. loc' = [loc EXCEPT ![t] = [loc[t] EXCEPT !.tail = i]]
  BY DEF LoadTail, TypeOK
<1> QED BY <1>1, <1>2, <1>3 DEF TypeOK, LoadTail

LEMMA PushLoadHeadInv ==
  ASSUME SingleProducerConsumer, IInv, NEW p \in Producers, PushLoadHead(p)
  PROVE  IInv'
<1> USE QueueAssumption DEF IInv, PushLoadHead, IndexAcquires, Goto, LoadHead, HeadReads, Threads
<1>1. TypeOK' BY LoadHeadType DEF TypeOK
<1>2. IndexInv' BY DEF IndexInv
<1>3. ContentInv' BY DEF ContentInv
<1>4. \A q \in Producers : ProducerInv(q)'
  BY SMTT(30) DEF SingleProducerConsumer, ProducerInv, TypeOK, IndexInv, Unknown
<1>5. \A c \in Consumers : ConsumerInv(c)'
  BY DEF ConsumerInv, TypeOK, Unknown
<1> QED BY <1>1, <1>2, <1>3, <1>4, <1>5

LEMMA PushLoadTailInv ==
  ASSUME SingleProducerConsumer, IInv, NEW p \in Producers, PushLoadTail(p)
  PROVE  IInv'
<1> USE QueueAssumption DEF IInv, PushLoadTail, Goto, Threads, LoadTail, TailReads
<1>1. TypeOK'
  BY LoadTailType DEF TypeOK
<1>2. IndexInv'
  BY DEF IndexInv
<1>3. ContentInv'
  BY DEF ContentInv
<1>4. \A q \in Producers : ProducerInv(q)'
  BY DEF SingleProducerConsumer, ProducerInv, TypeOK, IndexInv, Unknown
<1>5. \A d \in Consumers : ConsumerInv(d)'
  BY DEF SingleProducerConsumer, ConsumerInv, TypeOK, IndexInv, Unknown
<1> QED BY <1>1, <1>2, <1>3, <1>4, <1>5

LEMMA PushFullInv ==
  ASSUME SingleProducerConsumer, IInv, NEW p \in Producers, PushFull(p)
  PROVE  IInv'
<1> USE QueueAssumption DEF IInv, PushFull, Goto, Threads
<1>1. TypeOK'
  BY DEF TypeOK, Unknown
<1>2. IndexInv'
  BY DEF IndexInv
<1>3. ContentInv'
  BY DEF ContentInv
<1>4. \A q \in Producers : ProducerInv(q)'
  BY DEF SingleProducerConsumer, ProducerInv, TypeOK, IndexInv, Unknown
<1>5. \A d \in Consumers : ConsumerInv(d)'
  BY DEF SingleProducerConsumer, ConsumerInv, TypeOK, IndexInv, Unknown
<1> QED BY <1>1, <1>2, <1>3, <1>4, <1>5

LEMMA PushWriteInv ==
  ASSUME SingleProducerConsumer, IInv, NEW p \in Producers, NEW item \in Items,
         PushWrite(p, item)
  PROVE  IInv'
<1> USE QueueAssumption DEF IInv, PushWrite, Goto, Threads
<1>a. /\ loc[p].tail = tail /\ loc[p].head = seen[p]
      /\ head \in Nat /\ tail \in Nat /\ seen[p] \in Nat
      /\ seen[p] <= head /\ head <= tail
  BY DEF ProducerInv, TypeOK, IndexInv
<1>b. tail < seen[p] + Capacity
  BY <1>a DEF HasRoom, Minus
<1>c. \A i \in head..(tail - 1) : Slot(i) # Slot(tail)
  BY <1>a, <1>b, SlotsDistinct
<1>d. slots' = [slots EXCEPT ![Slot(tail)] = item] /\ Slot(tail) \in 0..(Capacity - 1)
  BY <1>a, SlotRange
<1>1. TypeOK'
  BY SlotRange DEF TypeOK
<1>2. IndexInv'
  BY DEF IndexInv
<1>3. ContentInv'
  <2>1. \A i \in head..(tail - 1) : slots'[Slot(i)] = slots[Slot(i)]
    BY <1>a, <1>c, <1>d, SlotRange DEF TypeOK
  <2> QED BY <2>1 DEF ContentInv
<1>4. \A q \in Producers : ProducerInv(q)'
  <2>1. slots'[Slot(tail)] = item
    BY <1>d DEF TypeOK
  <2>2. loc'[p].item = item /\ loc'[p].head = loc[p].head /\ loc'[p].tail = loc[p].tail
    BY DEF TypeOK
  <2>3. ProducerInv(p)'
    BY <1>a, <1>b, <2>1, <2>2 DEF ProducerInv, TypeOK, Unknown
  <2> QED BY <2>3 DEF SingleProducerConsumer
<1>5. \A d \in Consumers : ConsumerInv(d)'
  BY DEF SingleProducerConsumer, ConsumerInv, TypeOK, IndexInv, Unknown
<1> QED BY <1>1, <1>2, <1>3, <1>4, <1>5

LEMMA PushStoreInv ==
  ASSUME SingleProducerConsumer, IInv, NEW p \in Producers, PushStore(p)
  PROVE  IInv'
<1> USE QueueAssumption DEF IInv, PushStore, Goto, Threads
<1>a. /\ loc[p].tail = tail /\ loc[p].item \in Items /\ accepted \in Seq(Items)
      /\ tail \in Nat /\ head \in Nat /\ Len(accepted) = tail
  BY DEF ProducerInv, TypeOK, IndexInv
<1>b. /\ accepted' \in Seq(Items)
      /\ \A i \in 1..tail : accepted'[i] = accepted[i]
  BY <1>a
<1>1. TypeOK'
  BY <1>a, <1>b DEF TypeOK, Unknown
<1>2. IndexInv'
  BY DEF IndexInv, ProducerInv, TypeOK
<1>3. ContentInv'
  BY DEF ContentInv, IndexInv, ProducerInv, TypeOK
<1>4. \A q \in Producers : ProducerInv(q)'
  BY DEF SingleProducerConsumer, ProducerInv, TypeOK, IndexInv, Unknown
<1>5. \A d \in Consumers : ConsumerInv(d)'
  <2> SUFFICES ASSUME NEW d \in Consumers PROVE ConsumerInv(d)'
    OBVIOUS
  <2>1. /\ pc'[d] = pc[d] /\ sizeRead'[d] = sizeRead[d] /\ loc' = loc /\ seen' = seen
        /\ d \in Threads /\ head' = head /\ tail' = tail + 1 /\ seen[d] \in Nat
    BY <1>a DEF TypeOK
  <2>2. ConsumerInv(d) /\ (head < seen[d] => accepted'[head + 1] = accepted[head + 1])
    BY <1>a, <1>b, <2>1 DEF ConsumerInv
  <2> QED BY <1>a, <2>1, <2>2 DEF ConsumerInv, Unknown
<1> QED BY <1>1, <1>2, <1>3, <1>4, <1>5

LEMMA PopLoadHeadInv ==
  ASSUME SingleProducerConsumer, IInv, NEW c \in Consumers, PopLoadHead(c)
  PROVE  IInv'
<1> USE QueueAssumption DEF IInv, PopLoadHead, Goto, Threads, LoadHead, HeadReads
<1>1. TypeOK'
  BY LoadHeadType DEF TypeOK
<1>2. IndexInv'
  BY DEF IndexInv
<1>3. ContentInv'
  BY DEF ContentInv
<1>4. \A q \in Producers : ProducerInv(q)'
  BY SMTT(30) DEF SingleProducerConsumer, ProducerInv, TypeOK, IndexInv, Unknown
<1>5. \A d \in Consumers : ConsumerInv(d)'
  BY DEF SingleProducerConsumer, ConsumerInv, TypeOK, IndexInv, Unknown
<1> QED BY <1>1, <1>2, <1>3, <1>4, <1>5

LEMMA PopLoadTailInv ==
  ASSUME SingleProducerConsumer, IInv, NEW c \in Consumers, PopLoadTail(c)
  PROVE  IInv'
<1> USE QueueAssumption DEF IInv, PopLoadTail, IndexAcquires, Goto, Threads, LoadTail, TailReads
<1>1. TypeOK'
  BY LoadTailType DEF TypeOK
<1>2. IndexInv'
  BY DEF IndexInv
<1>3. ContentInv'
  BY DEF ContentInv
<1>4. \A q \in Producers : ProducerInv(q)'
  BY DEF SingleProducerConsumer, ProducerInv, TypeOK, IndexInv, Unknown
<1>5. \A d \in Consumers : ConsumerInv(d)'
  BY SMTT(30) DEF SingleProducerConsumer, ConsumerInv, TypeOK, IndexInv, Unknown
<1> QED BY <1>1, <1>2, <1>3, <1>4, <1>5

LEMMA PopEmptyInv ==
  ASSUME SingleProducerConsumer, IInv, NEW c \in Consumers, PopEmpty(c)
  PROVE  IInv'
<1> USE QueueAssumption DEF IInv, PopEmpty, Goto, Threads
<1>1. TypeOK'
  BY DEF TypeOK, Unknown
<1>2. IndexInv'
  BY DEF IndexInv
<1>3. ContentInv'
  BY DEF ContentInv
<1>4. \A q \in Producers : ProducerInv(q)'
  BY DEF SingleProducerConsumer, ProducerInv, TypeOK, IndexInv, Unknown
<1>5. \A d \in Consumers : ConsumerInv(d)'
  BY DEF SingleProducerConsumer, ConsumerInv, TypeOK, IndexInv, Unknown
<1> QED BY <1>1, <1>2, <1>3, <1>4, <1>5

LEMMA PopReadInv ==
  ASSUME SingleProducerConsumer, IInv, NEW c \in Consumers, PopRead(c)
  PROVE  IInv'
<1> USE QueueAssumption DEF IInv, PopRead, AcquireFence, Goto, Threads
<1>1. TypeOK'
  BY SlotRange DEF TypeOK
<1>2. IndexInv'
  BY DEF IndexInv
<1>3. ContentInv'
  BY DEF ContentInv
<1>4. \A q \in Producers : ProducerInv(q)'
  BY DEF SingleProducerConsumer, ProducerInv, TypeOK, IndexInv, Unknown
<1>5. \A d \in Consumers : ConsumerInv(d)'
  <2>1. /\ loc[c].head = head /\ loc[c].tail = seen[c] /\ seen[c] \in Nat
        /\ head \in Nat /\ tail \in Nat /\ seen[c] <= tail
    BY DEF ConsumerInv, TypeOK
  <2>2. head < seen[c]
    BY <2>1 DEF HasItem
  <2>3. slots[Slot(head)] = accepted[head + 1]
    BY <2>1, <2>2 DEF ContentInv
  <2>4. /\ loc'[c].item = accepted[head + 1] /\ loc'[c].head = head
        /\ loc'[c].tail = seen[c]
    BY <2>1, <2>3 DEF TypeOK
  <2>5. ConsumerInv(c)'
    BY <2>1, <2>2, <2>4 DEF ConsumerInv, TypeOK, Unknown
  <2> QED BY <2>5 DEF SingleProducerConsumer
<1> QED BY <1>1, <1>2, <1>3, <1>4, <1>5

LEMMA PopStoreInv ==
  ASSUME SingleProducerConsumer, IInv, NEW c \in Consumers, PopStore(c)
  PROVE  IInv'
<1> USE QueueAssumption DEF IInv, PopStore, Goto, Threads
<1>a. /\ loc[c].head = head /\ head \in Nat /\ tail \in Nat /\ head < tail
      /\ Len(accepted) = tail /\ loc[c].item = accepted[head + 1]
  BY DEF ConsumerInv, TypeOK, IndexInv
<1>b. loc[c].item \in Items
  BY <1>a DEF TypeOK
<1>1. TypeOK'
  BY <1>a, <1>b DEF TypeOK, Unknown
<1>2. IndexInv'
  BY DEF IndexInv, ConsumerInv, TypeOK
<1>3. ContentInv'
  BY DEF ContentInv, IndexInv, ConsumerInv, TypeOK
<1>4. \A q \in Producers : ProducerInv(q)'
  <2> SUFFICES ASSUME NEW q \in Producers PROVE ProducerInv(q)'
    OBVIOUS
  <2>1. /\ pc'[q] = pc[q] /\ sizeRead'[q] = sizeRead[q] /\ q \in Threads
        /\ head' = head + 1 /\ tail' = tail /\ seen[q] \in Nat
    BY <1>a DEF TypeOK
  <2>2. ProducerInv(q)
    OBVIOUS
  <2> QED BY <1>a, <2>1, <2>2 DEF ProducerInv, Unknown
<1>5. \A d \in Consumers : ConsumerInv(d)'
  BY DEF SingleProducerConsumer, ConsumerInv, TypeOK, IndexInv, Unknown
<1> QED BY <1>1, <1>2, <1>3, <1>4, <1>5

LEMMA SizeLoadTailInv ==
  ASSUME SingleProducerConsumer, IInv, NEW t \in Threads, SizeLoadTail(t)
  PROVE  IInv'
<1> USE QueueAssumption DEF IInv, SizeLoadTail, Goto, Threads, LoadTail, TailReads
<1>1. TypeOK'
  BY LoadTailType DEF TypeOK
<1>2. IndexInv'
  BY DEF IndexInv
<1>3. ContentInv'
  BY DEF ContentInv
<1>4. \A q \in Producers : ProducerInv(q)'
  <2>1. CASE t \in Producers
    <3>1. loc'[t].tail = tail /\ loc'[t].head = loc[t].head /\ seen' = seen
      BY <2>1 DEF TypeOK
    <3> QED BY <2>1, <3>1 DEF SingleProducerConsumer, ProducerInv, TypeOK
  <2>2. CASE t \in Consumers
    BY <2>2 DEF ProducerInv, TypeOK
  <2> QED BY <2>1, <2>2
<1>5. \A d \in Consumers : ConsumerInv(d)'
  BY SMTT(30) DEF SingleProducerConsumer, ConsumerInv, TypeOK, IndexInv, Unknown
<1> QED BY <1>1, <1>2, <1>3, <1>4, <1>5

LEMMA SizeLoadHeadInv ==
  ASSUME SingleProducerConsumer, IInv, NEW t \in Threads, SizeLoadHead(t)
  PROVE  IInv'
<1> USE QueueAssumption DEF IInv, SizeLoadHead, Goto, Threads
<1>a. PICK h \in HeadReads(t) :
        /\ LoadHead(t, h, TRUE)
        /\ sizeRead' = [sizeRead EXCEPT ![t] = SizeOf(loc[t].tail, h)]
  OBVIOUS
<1>b. /\ h \in Nat /\ head \in Nat /\ tail \in Nat /\ seen[t] \in Nat
      /\ loc[t].tail \in Nat /\ t \in Threads
  BY <1>a, LoadHeadType DEF TypeOK
<1>c. SizeOf(loc[t].tail, h) \in Nat
  BY <1>b DEF SizeOf
<1>d. sizeRead'[t] = SizeOf(loc[t].tail, h) /\ SizeOf(loc[t].tail, h) # Unknown
  BY <1>a, <1>c DEF TypeOK, Unknown
<1>1. TypeOK'
  BY <1>a, <1>c, LoadHeadType DEF TypeOK
<1>2. IndexInv'
  BY DEF IndexInv
<1>3. ContentInv'
  BY DEF ContentInv
<1>4. \A q \in Producers : ProducerInv(q)'
  <2>1. CASE t \in Producers
    <3>1. /\ seen'[t] = h /\ seen[t] <= h /\ h <= head
          /\ loc[t].tail = tail /\ tail <= seen[t] + Capacity
      BY <1>a, <1>b, <2>1 DEF LoadHead, HeadReads, ProducerInv, TypeOK
    <3>2. ProducerInv(t)'
      BY <1>b, <1>d, <2>1, <3>1 DEF ProducerInv, TypeOK, SizeOf
    <3> QED BY <2>1, <3>2 DEF SingleProducerConsumer
  <2>2. CASE t \in Consumers
    BY <1>a, <2>2 DEF LoadHead, HeadReads, ProducerInv, TypeOK
  <2> QED BY <2>1, <2>2
<1>5. \A d \in Consumers : ConsumerInv(d)'
  <2>1. CASE t \in Consumers
    <3>1. /\ seen' = seen /\ h = head /\ loc[t].tail = seen[t]
          /\ head <= seen[t] /\ seen[t] <= tail /\ tail <= head + Capacity
      BY <1>a, <1>b, <2>1 DEF LoadHead, HeadReads, ConsumerInv, TypeOK, IndexInv
    <3>2. ConsumerInv(t)'
      BY <1>b, <1>d, <2>1, <3>1 DEF ConsumerInv, TypeOK, SizeOf
    <3> QED BY <2>1, <3>2 DEF SingleProducerConsumer
  <2>2. CASE t \in Producers
    BY <1>a, <2>2 DEF LoadHead, HeadReads, ConsumerInv, TypeOK
  <2> QED BY <2>1, <2>2
<1> QED BY <1>1, <1>2, <1>3, <1>4, <1>5

LEMMA StutterInv == IInv /\ UNCHANGED vars => IInv'
BY DEF IInv, vars, TypeOK, IndexInv, ContentInv, ProducerInv, ConsumerInv, HasRoom

LEMMA NextInv ==
  ASSUME SingleProducerConsumer, IInv, [Next]_vars
  PROVE  IInv'
<1>1. ASSUME NEW p \in Producers, Push(p) PROVE IInv'
  BY <1>1, PushLoadHeadInv, PushLoadTailInv, PushFullInv, PushWriteInv, PushStoreInv
  DEF Push
<1>2. ASSUME NEW c \in Consumers, Pop(c) PROVE IInv'
  BY <1>2, PopLoadHeadInv, PopLoadTailInv, PopEmptyInv, PopReadInv, PopStoreInv
  DEF Pop
<1>3. ASSUME NEW t \in Threads, Size(t) PROVE IInv'
  BY <1>3, SizeLoadTailInv, SizeLoadHeadInv DEF Size
<1> QED BY <1>1, <1>2, <1>3, StutterInv DEF Next

\* The inductive invariant holds in every reachable state of a queue used by
\* one producer and one consumer.
THEOREM Invariance ==
  ASSUME SingleProducerConsumer
  PROVE  Spec => []IInv
<1>1. Init => IInv
  BY InitIInv
<1>2. IInv /\ [Next]_vars => IInv'
  BY NextInv
<1> QED BY <1>1, <1>2, PTL DEF Spec

-----------------------------------------------------------------------------
(***************************************************************************)
(* The safety properties that TLC checks follow from the invariant.        *)
(***************************************************************************)

\* push and pop of LockFreeQueue.h keep every variable in its type; pop never
\* returns a slot that was not written.
THEOREM TypeCorrect ==
  ASSUME SingleProducerConsumer
  PROVE  Spec => []TypeOK
<1>1. IInv => TypeOK
  BY DEF IInv
<1> QED BY <1>1, Invariance, PTL

\* pop returns what push accepted, in order, without loss or duplication.
THEOREM Fifo ==
  ASSUME SingleProducerConsumer
  PROVE  Spec => []DeliveredInOrder
<1>1. IInv => DeliveredInOrder
  BY DEF IInv, TypeOK, IndexInv, ContentInv, DeliveredInOrder
<1> QED BY <1>1, Invariance, PTL

\* The plain accesses of the slots are ordered: in SPSCQueue and SPSCRingBuffer
\* in both directions, in LockFreeQueue every read of a slot after its write.
THEOREM RaceFree ==
  ASSUME SingleProducerConsumer
  PROVE  Spec => []NoSlotRace
<1>1. ASSUME IInv PROVE NoSlotRace
  <2>1. ReadFollowsWrite
    BY <1>1 DEF IInv, ConsumerInv, ReadFollowsWrite
  <2>2. ASSUME kind = "SPSCQueue", NEW p \in Producers, pc[p] = "pushStore"
        PROVE  loc[p].tail < synced[p] + Capacity
    BY <1>1, <2>2 DEF IInv, ProducerInv
  <2> QED BY <2>1, <2>2 DEF NoSlotRace, WriteFollowsRead
<1> QED BY <1>1, Invariance, PTL

\* size() never exceeds the capacity, and the caller's next operation finds the
\* item or the room that size() promised.
THEOREM SizeHint ==
  ASSUME SingleProducerConsumer
  PROVE  Spec => []SizeIsUsable
<1>1. ASSUME IInv PROVE SizeIsUsable
  <2> SUFFICES ASSUME NEW t \in Threads
               PROVE  /\ sizeRead[t] <= Capacity
                      /\ pc[t] = "popTest" /\ sizeRead[t] > 0 => HasItem(t)
                      /\ pc[t] = "pushTest" /\ sizeRead[t] \in 0..(Capacity - 1)
                           => HasRoom(t)
    BY DEF SizeIsUsable
  <2>1. /\ head \in Nat /\ tail \in Nat /\ seen[t] \in Nat
        /\ sizeRead[t] \in Nat \cup {Unknown} /\ Capacity \in Nat \ {0}
    BY <1>1, QueueAssumption DEF IInv, TypeOK
  <2>2. CASE t \in Producers
    <3>1. ProducerInv(t) /\ IndexInv
      BY <1>1, <2>2 DEF IInv
    <3> QED BY <2>1, <3>1 DEF ProducerInv, IndexInv, HasRoom, Minus, Unknown
  <2>3. CASE t \in Consumers
    <3>1. ConsumerInv(t) /\ IndexInv
      BY <1>1, <2>3 DEF IInv
    <3> QED BY <2>1, <3>1 DEF ConsumerInv, IndexInv, HasItem, Unknown
  <2> QED BY <2>2, <2>3 DEF Threads
<1> QED BY <1>1, Invariance, PTL
-----------------------------------------------------------------------------
(***************************************************************************)
(* The ring buffer implements BoundedQueue.                                *)
(***************************************************************************)

\* The live part of the ring is the undelivered part of what was accepted.
Backlog ==
  /\ Queued \in Seq(Items)
  /\ Len(Queued) = tail - head
  /\ \A i \in 1..(tail - head) : Queued[i] = accepted[head + i]

LEMMA QueuedIsBacklog == IInv => Backlog
<1> SUFFICES ASSUME IInv PROVE Backlog
  OBVIOUS
<1>1. /\ head \in Nat /\ tail \in Nat /\ head <= tail /\ accepted \in Seq(Items)
      /\ Len(accepted) = tail
  BY DEF IInv, TypeOK, IndexInv
<1>2. ASSUME NEW i \in 1..(tail - head)
      PROVE  slots[Slot(head + i - 1)] = accepted[head + i] /\ accepted[head + i] \in Items
  <2>1. head + i - 1 \in head..(tail - 1) /\ (head + i - 1) + 1 = head + i
    BY <1>1
  <2> QED BY <1>1, <2>1 DEF IInv, ContentInv
<1>3. Queued = [i \in 1..(tail - head) |-> accepted[head + i]]
  BY <1>2 DEF Queued
<1>4. tail - head \in Nat
  BY <1>1
<1> QED BY <1>2, <1>3, <1>4 DEF Backlog

LEMMA QueuedIsBacklogNext == IInv' => Backlog'
BY QueuedIsBacklog, PTL

\* A step that moves neither index leaves the abstract queue alone.
LEMMA QuietStep ==
  ASSUME IInv, IInv', head' = head, tail' = tail, accepted' = accepted
  PROVE  Queued' = Queued
<1>1. \A i \in 1..(tail - head) : Queued'[i] = Queued[i]
  BY QueuedIsBacklog, QueuedIsBacklogNext DEF Backlog
<1> QED BY <1>1 DEF Queued

\* The store of tail_ in push is the abstract Put.
LEMMA PushStorePuts ==
  ASSUME IInv, IInv', NEW p \in Producers, PushStore(p)
  PROVE  loc[p].item \in Items /\ Abstract!Put(loc[p].item)
<1>1. /\ head \in Nat /\ tail \in Nat /\ head <= tail /\ accepted \in Seq(Items)
      /\ Len(accepted) = tail /\ Capacity \in Nat
  BY QueueAssumption DEF IInv, TypeOK, IndexInv
<1>2. /\ loc[p].tail = tail /\ loc[p].item \in Items
      /\ tail < seen[p] + Capacity /\ seen[p] <= head /\ seen[p] \in Nat
  BY DEF IInv, TypeOK, ProducerInv, PushStore, Goto, Threads
<1>3. /\ head' = head /\ tail' = tail + 1
      /\ accepted' = Append(accepted, loc[p].item)
  BY <1>2 DEF PushStore
<1>4. Backlog /\ Backlog'
  BY QueuedIsBacklog, QueuedIsBacklogNext
<1>5. Queued' = Append(Queued, loc[p].item)
  <2> DEFINE appended == Append(Queued, loc[p].item)
  <2>1. /\ Queued \in Seq(Items) /\ Len(Queued) = tail - head
        /\ Queued' \in Seq(Items) /\ Len(Queued') = tail + 1 - head
    BY <1>1, <1>3, <1>4 DEF Backlog
  <2>2. /\ appended \in Seq(Items) /\ Len(appended) = tail + 1 - head
        /\ \A i \in 1..(tail - head) : appended[i] = Queued[i]
        /\ appended[tail + 1 - head] = loc[p].item
    BY <1>1, <1>2, <2>1
  <2> HIDE DEF appended
  <2>3. ASSUME NEW i \in 1..(tail + 1 - head) PROVE Queued'[i] = accepted'[head + i]
    BY <1>1, <1>3, <1>4 DEF Backlog
  <2>4. ASSUME NEW i \in 1..(tail + 1 - head) PROVE Queued'[i] = appended[i]
    <3>1. CASE i <= tail - head
      <4>1. i \in 1..(tail - head) /\ head + i \in 1..tail
        BY <1>1, <3>1
      <4>2. accepted'[head + i] = accepted[head + i]
        BY <1>1, <1>2, <1>3, <4>1
      <4> QED BY <1>4, <2>2, <2>3, <4>1, <4>2 DEF Backlog
    <3>2. CASE i = tail + 1 - head
      <4>1. accepted'[head + i] = loc[p].item
        BY <1>1, <1>2, <1>3, <3>2
      <4> QED BY <2>2, <2>3, <3>2, <4>1
    <3> QED BY <1>1, <3>1, <3>2
  <2>5. Queued' = appended
    BY <2>1, <2>2, <2>4
  <2> QED BY <2>5 DEF appended
<1> QED BY <1>1, <1>2, <1>4, <1>5 DEF Backlog, Abstract!Put

\* The store of head_ in pop is the abstract Get.
LEMMA PopStoreGets ==
  ASSUME IInv, IInv', NEW c \in Consumers, PopStore(c)
  PROVE  Abstract!Get
<1>1. /\ head \in Nat /\ tail \in Nat /\ head < tail
      /\ head' = head + 1 /\ tail' = tail /\ accepted' = accepted
  BY DEF IInv, TypeOK, ConsumerInv, PopStore, Goto, Threads
<1>2. Backlog /\ Backlog'
  BY QueuedIsBacklog, QueuedIsBacklogNext
<1>3. /\ Queued \in Seq(Items) /\ Len(Queued) = tail - head
      /\ Queued' \in Seq(Items) /\ Len(Queued') = tail - head - 1
  BY <1>1, <1>2 DEF Backlog
<1>4. /\ Tail(Queued) \in Seq(Items) /\ Len(Tail(Queued)) = tail - head - 1
      /\ \A i \in 1..(tail - head - 1) : Tail(Queued)[i] = Queued[i + 1]
  BY <1>1, <1>3
<1>5. ASSUME NEW i \in 1..(tail - head - 1) PROVE Queued'[i] = Tail(Queued)[i]
  <2>1. Queued'[i] = accepted[head + 1 + i]
    BY <1>1, <1>2 DEF Backlog
  <2>2. i + 1 \in 1..(tail - head) /\ head + (i + 1) = head + 1 + i
    BY <1>1
  <2>3. Queued[i + 1] = accepted[head + 1 + i]
    BY <1>2, <2>2 DEF Backlog
  <2> QED BY <1>4, <2>1, <2>3
<1>6. Queued' = Tail(Queued)
  BY <1>3, <1>4, <1>5
<1> QED BY <1>1, <1>3, <1>6 DEF Abstract!Get

\* A queue used by one producer and one consumer implements a bounded FIFO
\* queue: push returning true is a Put, pop returning true is a Get, every
\* other step is invisible.
THEOREM Refinement ==
  ASSUME SingleProducerConsumer
  PROVE  Spec => ImplementsBoundedQueue
<1>1. Init => Abstract!Init
  BY DEF Init, Abstract!Init, Queued
<1>2. ASSUME IInv, IInv', [Next]_vars PROVE [Abstract!Next]_Queued
  <2>1. ASSUME NEW p \in Producers, PushStore(p) PROVE Abstract!Next
    BY <1>2, <2>1, PushStorePuts DEF Abstract!Next
  <2>2. ASSUME NEW c \in Consumers, PopStore(c) PROVE Abstract!Next
    BY <1>2, <2>2, PopStoreGets DEF Abstract!Next
  <2>3. CASE head' = head /\ tail' = tail /\ accepted' = accepted
    BY <1>2, <2>3, QuietStep
  <2> QED
    BY <1>2, <2>1, <2>2, <2>3
    DEF Next, Push, Pop, Size, vars, PushLoadHead, PushLoadTail, PushFull, PushWrite,
        PopLoadHead, PopLoadTail, PopEmpty, PopRead, SizeLoadTail, SizeLoadHead
<1>3. Spec => []IInv
  BY Invariance
<1> QED BY <1>1, <1>2, <1>3, PTL DEF Spec, ImplementsBoundedQueue, Abstract!Spec
=============================================================================
