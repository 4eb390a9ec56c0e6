------------------------------ MODULE TickBuffer -----------------------------
(***************************************************************************)
(* TickBuffer of include/TickBuffer.h: a ring of SIZE slots whose `ready'  *)
(* flags, not the write position, tell the consumer that a tick is there.  *)
(* One producer and one consumer; one shared access per step.              *)
(*                                                                         *)
(* Memory model: a load of what the other thread writes may return an old  *)
(* value, but none older than the thread has seen or than acquire and      *)
(* release order for it.  Positions are kept modulo Size; how many pushes  *)
(* and pops a thread knows of is counted without the modulus.              *)
(***************************************************************************)
EXTENDS Integers, Sequences

CONSTANTS
  Size,      \* SIZE
  Ticks,     \* values pushed
  NoTick,    \* content of a slot that was never written
  MaxPush    \* bound: successful pushes in a behaviour

ASSUME BufferAssumption ==
  /\ Size \in Nat /\ Size > 1
  /\ NoTick \notin Ticks
  /\ MaxPush \in Nat

VARIABLES
  slots,       \* slots_: the tick of each slot
  ready,       \* slots_: the ready flag of each slot
  writePos,    \* write_pos_
  readPos,     \* read_pos_
  prod,        \* where the producer stands in push
  cons,        \* where the consumer stands in pop
  pushing,     \* the tick being pushed
  popped,      \* the tick being popped
  seenPops,    \* stores of read_pos_ that the producer has seen
  seenPushes,  \* stores of write_pos_ that the consumer must have seen
  available,   \* what available() last told "prod" and "cons", until their next call
  accepted,    \* history: ticks whose push returned true
  delivered    \* history: ticks returned by pop

bufferVars == <<slots, ready, writePos, readPos, prod, cons, pushing, popped,
                seenPops, seenPushes, available, accepted, delivered>>

Unknown == -1   \* no available() result to rely on

Index == 0..(Size - 1)

BufferInit ==
  /\ slots = [i \in Index |-> NoTick]
  /\ ready = [i \in Index |-> FALSE]
  /\ writePos = 0
  /\ readPos = 0
  /\ prod = "idle"
  /\ cons = "idle"
  /\ pushing = NoTick
  /\ popped = NoTick
  /\ seenPops = 0
  /\ seenPushes = 0
  /\ available = [t \in {"prod", "cons"} |-> Unknown]
  /\ accepted = << >>
  /\ delivered = << >>

After(pos) == (pos + 1) % Size

ProdGoto(from, to) == prod = from /\ prod' = to
ConsGoto(from, to) == cons = from /\ cons' = to
-----------------------------------------------------------------------------
(***************************************************************************)
(* push                                                                    *)
(***************************************************************************)
PushCall(tick) ==
  /\ Len(accepted) < MaxPush
  /\ ProdGoto("idle", "test")
  /\ pushing' = tick
  /\ UNCHANGED <<slots, ready, writePos, readPos, cons, popped, seenPops, seenPushes,
                 available, accepted, delivered>>

\* Mutant: push does not test for room.
IsFullNever(pops) == FALSE

IsFull(pops) == After(writePos) = pops % Size

\* The load of read_pos_ and the test.
PushTest(pops) ==
  /\ prod = "test"
  /\ pops \in seenPops..Len(delivered)
  /\ seenPops' = pops
  /\ prod' = IF IsFull(pops) THEN "idle" ELSE "write"
  /\ available' = IF IsFull(pops) THEN [available EXCEPT !["prod"] = Unknown] ELSE available
  /\ UNCHANGED <<slots, ready, writePos, readPos, cons, pushing, popped, seenPushes,
                 accepted, delivered>>

PushWrite ==
  /\ ProdGoto("write", "setReady")
  /\ slots' = [slots EXCEPT ![writePos] = pushing]
  /\ UNCHANGED <<ready, writePos, readPos, cons, pushing, popped, seenPops, seenPushes,
                 available, accepted, delivered>>

\* Mutant: the flag is not set.
PushSetReadyNot ==
  /\ ProdGoto("setReady", "store")
  /\ UNCHANGED <<slots, ready, writePos, readPos, cons, pushing, popped, seenPops, seenPushes,
                 available, accepted, delivered>>

\* From here on the consumer can pop the tick.
PushSetReady ==
  /\ ProdGoto("setReady", "store")
  /\ ready' = [ready EXCEPT ![writePos] = TRUE]
  /\ UNCHANGED <<slots, writePos, readPos, cons, pushing, popped, seenPops, seenPushes,
                 available, accepted, delivered>>

PushStore ==
  /\ ProdGoto("store", "idle")
  /\ writePos' = After(writePos)
  /\ accepted' = Append(accepted, pushing)
  /\ available' = [available EXCEPT !["prod"] = Unknown]
  /\ UNCHANGED <<slots, ready, readPos, cons, pushing, popped, seenPops, seenPushes, delivered>>

PushStep ==
  \/ \E pops \in 0..MaxPush : PushTest(pops)
  \/ PushWrite
  \/ PushSetReady
  \/ PushStore
-----------------------------------------------------------------------------
(***************************************************************************)
(* pop                                                                     *)
(***************************************************************************)
\* The load of the flag returns TRUE.  The pushes before this one are then
\* known to the consumer.
PopReady ==
  /\ ConsGoto("idle", "read")
  /\ ready[readPos]
  /\ seenPushes' = IF seenPushes < Len(delivered) THEN Len(delivered) ELSE seenPushes
  /\ UNCHANGED <<slots, ready, writePos, readPos, prod, pushing, popped, seenPops,
                 available, accepted, delivered>>

\* The load returns FALSE: it may be old, unless write_pos_ has told the
\* consumer of the tick.
PopNotReady ==
  /\ cons = "idle"
  /\ ready[readPos] => seenPushes <= Len(delivered)
  /\ available' = [available EXCEPT !["cons"] = Unknown]
  /\ UNCHANGED <<slots, ready, writePos, readPos, prod, cons, pushing, popped, seenPops,
                 seenPushes, accepted, delivered>>

PopRead ==
  /\ ConsGoto("read", "clear")
  /\ popped' = slots[readPos]
  /\ UNCHANGED <<slots, ready, writePos, readPos, prod, pushing, seenPops, seenPushes,
                 available, accepted, delivered>>

PopClear ==
  /\ ConsGoto("clear", "store")
  /\ ready' = [ready EXCEPT ![readPos] = FALSE]
  /\ UNCHANGED <<slots, writePos, readPos, prod, pushing, popped, seenPops, seenPushes,
                 available, accepted, delivered>>

PopStore ==
  /\ ConsGoto("store", "idle")
  /\ readPos' = After(readPos)
  /\ delivered' = Append(delivered, popped)
  /\ available' = [available EXCEPT !["cons"] = Unknown]
  /\ UNCHANGED <<slots, ready, writePos, prod, pushing, popped, seenPops, seenPushes, accepted>>

PopStep == PopRead \/ PopClear \/ PopStore
-----------------------------------------------------------------------------
(***************************************************************************)
(* available.  A thread's own position is exact.                           *)
(***************************************************************************)
\* Mutant: a wrapped write position is not carried over.
DifferenceAbsolute(wp, rp) == IF wp >= rp THEN wp - rp ELSE rp - wp
Difference(wp, rp) == IF wp >= rp THEN wp - rp ELSE Size - rp + wp

ProdAvailable(pops) ==
  /\ prod = "idle"
  /\ pops \in seenPops..Len(delivered)
  /\ seenPops' = pops
  /\ available' = [available EXCEPT !["prod"] = Difference(writePos, pops % Size)]
  /\ UNCHANGED <<slots, ready, writePos, readPos, prod, cons, pushing, popped, seenPushes,
                 accepted, delivered>>

ConsAvailable(pushes) ==
  /\ cons = "idle"
  /\ pushes \in seenPushes..Len(accepted)
  /\ seenPushes' = pushes
  /\ available' = [available EXCEPT !["cons"] = Difference(pushes % Size, readPos)]
  /\ UNCHANGED <<slots, ready, writePos, readPos, prod, cons, pushing, popped, seenPops,
                 accepted, delivered>>

Available == \E n \in 0..MaxPush : ProdAvailable(n) \/ ConsAvailable(n)
-----------------------------------------------------------------------------
(***************************************************************************)
(* Correctness                                                             *)
(***************************************************************************)
\* The plain writes of a slot's fields in push never meet the plain reads of
\* the same slot in pop: one flag and one position each way are enough.
NoSlotRace == ~(prod = "write" /\ cons = "read" /\ writePos = readPos)

\* available() can be acted on except at its largest value: below it the
\* producer's next push finds room, and between 0 and it the consumer's next
\* pop finds a tick.  (The largest value may come from an empty buffer, when a
\* tick was popped before the write position was stored.)
AvailableIsUsable ==
  /\ \A t \in {"prod", "cons"} : available[t] < Size
  /\ available["prod"] \in 0..(Size - 2) /\ prod = "test" =>
       \A pops \in seenPops..Len(delivered) : ~IsFull(pops)
  /\ available["cons"] \in 1..(Size - 2) /\ cons = "idle" =>
       ready[readPos] /\ seenPushes > Len(delivered)

\* The buffer implements a FIFO queue of at most Size - 1 ticks: a push takes
\* effect with the flag, a pop with the read position.
Filled == Len(accepted) + (IF prod = "store" THEN 1 ELSE 0) - Len(delivered)
Queued == [i \in 1..Filled |-> slots[(readPos + i - 1) % Size]]
Abstract == INSTANCE BoundedQueue WITH queue <- Queued, Items <- Ticks, Capacity <- Size - 1
ImplementsBoundedQueue == Abstract!Spec
=============================================================================
