---------------------------- MODULE LockFreeQueue ---------------------------
(***************************************************************************)
(* LockFreeQueue<T, Capacity> of include/LockFreeQueue.h, one atomic       *)
(* access per step, under any number of calling threads.  SPSCQueue        *)
(* (include/HFT.h) and SPSCRingBuffer (include/HFTPerf.h) have the same    *)
(* steps with a thread's own index loaded first; a thread's own index      *)
(* cannot change under it when it is the only one on its side, so the      *)
(* order of the two loads makes no difference there.  What differs is that *)
(* their loads of the other side's index acquire, while push of            *)
(* LockFreeQueue loads head_ relaxed and has no acquire fence after it.    *)
(*                                                                         *)
(* Memory model: a load of the other side's index may return an old value, *)
(* but never one older than the thread has already seen (coherence).  The  *)
(* accesses of the slots are plain: an access of the other side happens    *)
(* before a thread's next step only if an acquire load (or a relaxed one   *)
(* followed by an acquire fence) has read the index stored after it;       *)
(* synced is the newest such index.  Where two accesses of a slot are not  *)
(* ordered, C++ gives the program no meaning; the values are then those    *)
(* of compiled code, which performs no store before the branch it is       *)
(* behind.  The threads of one side see each other's stores at once: that  *)
(* is exact for one thread per side, and for several a subset of what      *)
(* hardware can do.                                                        *)
(***************************************************************************)
EXTENDS Integers, Sequences

CONSTANTS
  Producers,   \* threads that call push
  Consumers,   \* threads that call pop
  Items,       \* values pushed
  NoItem,      \* content of a slot that was never written
  Capacity,
  IndexMod,    \* 2^w for a w-bit std::size_t
  MaxPush      \* bound: successful pushes in a behaviour

Threads == Producers \cup Consumers

ASSUME QueueAssumption ==
  /\ Producers \cap Consumers = {}
  /\ NoItem \notin Items
  /\ Capacity \in Nat \ {0}
  /\ IndexMod \in Nat
  /\ MaxPush \in Nat
  /\ MaxPush + Capacity < IndexMod

\* The intended use: one thread on each side.
SingleProducerConsumer ==
  /\ \A p, q \in Producers : p = q
  /\ \A c, d \in Consumers : c = d

VARIABLES
  slots,      \* slots_
  head,       \* head_, index of the next item to pop
  tail,       \* tail_, index of the next item to push
  pc,         \* where each thread stands in push, pop or size
  loc,        \* each thread's local head, tail and item
  seen,       \* newest value each thread has read of the other side's index
  synced,     \* newest of them that orders the other side's accesses before the thread's
  sizeRead,   \* what size() last told each thread, until its next push or pop
  accepted,   \* history: items whose push returned true
  delivered,  \* history: items returned by pop
  kind        \* the class this queue is an object of; never changes

vars == <<slots, head, tail, pc, loc, seen, synced, sizeRead, accepted, delivered, kind>>

Kinds == {"LockFreeQueue", "SPSCQueue"}

Unknown == -1   \* no size() result to rely on

\* Unsigned subtraction of two indices.
Minus(a, b) == IF a >= b THEN a - b ELSE IndexMod + a - b

Slot(index) == index % Capacity

HeadReads(t) == IF t \in Producers THEN (seen[t]..head) \cup {head} ELSE {head}
TailReads(t) == IF t \in Consumers THEN (seen[t]..tail) \cup {tail} ELSE {tail}

\* Thread t moves on from one program point to another.
Goto(t, from, to) == pc[t] = from /\ pc' = [pc EXCEPT ![t] = to]

Init ==
  /\ slots = [s \in 0..(Capacity - 1) |-> NoItem]
  /\ head = 0
  /\ tail = 0
  /\ pc = [t \in Threads |-> "idle"]
  /\ loc = [t \in Threads |-> [head |-> 0, tail |-> 0, item |-> NoItem]]
  /\ seen = [t \in Threads |-> 0]
  /\ synced = [t \in Threads |-> 0]
  /\ sizeRead = [t \in Threads |-> Unknown]
  /\ accepted = << >>
  /\ delivered = << >>
  /\ kind \in Kinds
  /\ kind = "SPSCQueue" => SingleProducerConsumer

LoadHead(t, h, acquires) ==
  /\ h \in HeadReads(t)
  /\ loc' = [loc EXCEPT ![t].head = h]
  /\ seen' = IF t \in Producers THEN [seen EXCEPT ![t] = h] ELSE seen
  /\ synced' = IF t \in Producers /\ acquires THEN [synced EXCEPT ![t] = h] ELSE synced

LoadTail(t, i, acquires) ==
  /\ i \in TailReads(t)
  /\ loc' = [loc EXCEPT ![t].tail = i]
  /\ seen' = IF t \in Consumers THEN [seen EXCEPT ![t] = i] ELSE seen
  /\ synced' = IF t \in Consumers /\ acquires THEN [synced EXCEPT ![t] = i] ELSE synced

\* push and pop of LockFreeQueue load the other side's index relaxed.
IndexAcquires == kind = "SPSCQueue"
-----------------------------------------------------------------------------
(***************************************************************************)
(* push                                                                    *)
(***************************************************************************)
PushLoadHead(p) ==
  /\ Len(accepted) < MaxPush
  /\ Goto(p, "idle", "pushTail")
  /\ \E h \in HeadReads(p) : LoadHead(p, h, IndexAcquires)
  /\ UNCHANGED <<slots, head, tail, sizeRead, accepted, delivered, kind>>

PushLoadTail(p) ==
  /\ Goto(p, "pushTail", "pushTest")
  /\ \E i \in TailReads(p) : LoadTail(p, i, TRUE)
  /\ UNCHANGED <<slots, head, tail, sizeRead, accepted, delivered, kind>>

\* Mutant: one item too many.
HasRoomOrFull(p) == Minus(loc[p].tail, loc[p].head) <= Capacity

HasRoom(p) == Minus(loc[p].tail, loc[p].head) < Capacity

PushFull(p) ==
  /\ Goto(p, "pushTest", "idle")
  /\ ~HasRoom(p)
  /\ sizeRead' = [sizeRead EXCEPT ![p] = Unknown]
  /\ UNCHANGED <<slots, head, tail, loc, seen, accepted, delivered, synced, kind>>

PushWrite(p, item) ==
  /\ Goto(p, "pushTest", "pushStore")
  /\ HasRoom(p)
  /\ slots' = [slots EXCEPT ![Slot(loc[p].tail)] = item]
  /\ loc' = [loc EXCEPT ![p].item = item]
  /\ UNCHANGED <<head, tail, seen, sizeRead, accepted, delivered, synced, kind>>

PushStore(p) ==
  /\ Goto(p, "pushStore", "idle")
  /\ tail' = loc[p].tail + 1
  /\ accepted' = Append(accepted, loc[p].item)
  /\ sizeRead' = [sizeRead EXCEPT ![p] = Unknown]
  /\ UNCHANGED <<slots, head, loc, seen, delivered, synced, kind>>

Push(p) ==
  \/ PushLoadHead(p)
  \/ PushLoadTail(p)
  \/ PushFull(p)
  \/ \E item \in Items : PushWrite(p, item)
  \/ PushStore(p)
-----------------------------------------------------------------------------
(***************************************************************************)
(* pop.  clear() is a consumer that pops until pop fails.                  *)
(***************************************************************************)
PopLoadHead(c) ==
  /\ Goto(c, "idle", "popTail")
  /\ \E h \in HeadReads(c) : LoadHead(c, h, TRUE)
  /\ UNCHANGED <<slots, head, tail, sizeRead, accepted, delivered, kind>>

PopLoadTail(c) ==
  /\ Goto(c, "popTail", "popTest")
  /\ \E i \in TailReads(c) : LoadTail(c, i, IndexAcquires)
  /\ UNCHANGED <<slots, head, tail, sizeRead, accepted, delivered, kind>>

\* Mutant: the last item is never popped.
HasTwoItems(c) == loc[c].tail > loc[c].head + 1

HasItem(c) == loc[c].tail > loc[c].head

PopEmpty(c) ==
  /\ Goto(c, "popTest", "idle")
  /\ ~HasItem(c)
  /\ sizeRead' = [sizeRead EXCEPT ![c] = Unknown]
  /\ UNCHANGED <<slots, head, tail, loc, seen, accepted, delivered, synced, kind>>

\* Mutant: pop without the fence.
AcquireFenceMissing(c) == synced

\* What the consumer has seen so far now orders the producer's accesses.
AcquireFence(c) == [synced EXCEPT ![c] = seen[c]]

PopRead(c) ==
  /\ Goto(c, "popTest", "popStore")
  /\ HasItem(c)
  /\ synced' = AcquireFence(c)
  /\ loc' = [loc EXCEPT ![c].item = slots[Slot(loc[c].head)]]
  /\ UNCHANGED <<slots, head, tail, seen, sizeRead, accepted, delivered, kind>>

\* Mutant: pop skips to the tail it has read.
PopStoreSkip(c) ==
  /\ Goto(c, "popStore", "idle")
  /\ head' = loc[c].tail
  /\ delivered' = Append(delivered, loc[c].item)
  /\ sizeRead' = [sizeRead EXCEPT ![c] = Unknown]
  /\ UNCHANGED <<slots, tail, loc, seen, accepted, synced, kind>>

PopStore(c) ==
  /\ Goto(c, "popStore", "idle")
  /\ head' = loc[c].head + 1
  /\ delivered' = Append(delivered, loc[c].item)
  /\ sizeRead' = [sizeRead EXCEPT ![c] = Unknown]
  /\ UNCHANGED <<slots, tail, loc, seen, accepted, synced, kind>>

Pop(c) ==
  \/ PopLoadHead(c)
  \/ PopLoadTail(c)
  \/ PopEmpty(c)
  \/ PopRead(c)
  \/ PopStore(c)
-----------------------------------------------------------------------------
(***************************************************************************)
(* size, called by either side; is_empty() is size() = 0.                  *)
(***************************************************************************)
SizeLoadTail(t) ==
  /\ Goto(t, "idle", "sizeHead")
  /\ \E i \in TailReads(t) : LoadTail(t, i, TRUE)
  /\ UNCHANGED <<slots, head, tail, sizeRead, accepted, delivered, kind>>

SizeOf(i, h) == IF i > h THEN i - h ELSE 0

SizeLoadHead(t) ==
  /\ Goto(t, "sizeHead", "idle")
  /\ \E h \in HeadReads(t) :
       /\ LoadHead(t, h, TRUE)
       /\ sizeRead' = [sizeRead EXCEPT ![t] = SizeOf(loc[t].tail, h)]
  /\ UNCHANGED <<slots, head, tail, accepted, delivered, kind>>

Size(t) == SizeLoadTail(t) \/ SizeLoadHead(t)
-----------------------------------------------------------------------------
Next ==
  \/ \E p \in Producers : Push(p)
  \/ \E c \in Consumers : Pop(c)
  \/ \E t \in Threads : Size(t)

Spec == Init /\ [][Next]_vars

\* A started push or pop is carried on, consumers keep polling, and a store
\* becomes visible to a polling consumer in the end.  Nobody has to push.
PopLoadTailFresh(c) == PopLoadTail(c) /\ loc'[c].tail = tail

Fairness ==
  /\ \A p \in Producers : WF_vars(Push(p) /\ pc[p] # "idle")
  /\ \A c \in Consumers :
       /\ SF_vars(PopLoadHead(c))
       /\ SF_vars(PopLoadTailFresh(c))
       /\ WF_vars(pc[c] # "idle" /\ (Pop(c) \/ Size(c)))

FairSpec == Spec /\ Fairness
-----------------------------------------------------------------------------
(***************************************************************************)
(* Correctness                                                             *)
(***************************************************************************)
\* Types.  In particular pop never returns a slot that was never written.
TypeOK ==
  /\ slots \in [0..(Capacity - 1) -> Items \cup {NoItem}]
  /\ head \in Nat
  /\ tail \in Nat
  /\ pc \in [Threads -> {"idle", "pushTail", "pushTest", "pushStore",
                         "popTail", "popTest", "popStore", "sizeHead"}]
  /\ loc \in [Threads -> [head : Nat, tail : Nat, item : Items \cup {NoItem}]]
  /\ seen \in [Threads -> Nat]
  /\ synced \in [Threads -> Nat]
  /\ sizeRead \in [Threads -> Nat \cup {Unknown}]
  /\ accepted \in Seq(Items)
  /\ delivered \in Seq(Items)
  /\ kind \in Kinds

\* What pop returns is what push accepted, in the same order: nothing is lost,
\* duplicated, reordered or read before it was written.
DeliveredInOrder ==
  /\ Len(delivered) <= Len(accepted)
  /\ \A i \in 1..Len(delivered) : delivered[i] = accepted[i]

\* The consumer's plain read of a slot is ordered after the producer's write of
\* it, because of the acquire fence between the load of tail_ and the read.
ReadFollowsWrite ==
  \A c \in Consumers : pc[c] = "popStore" => loc[c].head < synced[c]

\* The producer's plain write of a slot is ordered after the consumer's read of
\* what was in it a lap before.
WriteFollowsRead ==
  \A p \in Producers : pc[p] = "pushStore" => loc[p].tail < synced[p] + Capacity

\* The plain accesses of a slot are ordered (no data race): in SPSCQueue and
\* SPSCRingBuffer in both directions, in LockFreeQueue the reads after the writes.
NoSlotRace ==
  /\ ReadFollowsWrite
  /\ kind = "SPSCQueue" => WriteFollowsRead

\* What ARCHITECTURE.md:135-142 claims under "Thread Safety" for LockFreeQueue as
\* well: push may reuse a slot only after the pop that emptied it.
SlotReuseIsOrdered == WriteFollowsRead

\* size() may be stale but a caller can act on it: it never exceeds Capacity,
\* after a non-zero size() the consumer's next pop finds an item, and after a
\* size() below Capacity the producer's next push finds room.
SizeIsUsable ==
  \A t \in Threads :
    /\ sizeRead[t] <= Capacity
    /\ pc[t] = "popTest" /\ sizeRead[t] > 0 => HasItem(t)
    /\ pc[t] = "pushTest" /\ sizeRead[t] \in 0..(Capacity - 1) => HasRoom(t)

\* The ring buffer implements a FIFO queue of at most Capacity items.
Queued == [i \in 1..(tail - head) |-> slots[Slot(head + i - 1)]]
Abstract == INSTANCE BoundedQueue WITH queue <- Queued
ImplementsBoundedQueue == Abstract!Spec

\* Once every call has returned, what was accepted and not yet delivered is
\* still in the queue.
NoItemLost ==
  (\A t \in Threads : pc[t] = "idle") =>
    Len(accepted) - Len(delivered) = SizeOf(tail, head)

\* An accepted item is delivered as long as consumers keep polling.
EveryItemDelivered ==
  \A i \in 1..MaxPush : Len(accepted) >= i ~> Len(delivered) >= i
=============================================================================
