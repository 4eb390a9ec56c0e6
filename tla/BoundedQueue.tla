---------------------------- MODULE BoundedQueue ----------------------------
(***************************************************************************)
(* What the queues of QuantSimX promise their callers: a first-in          *)
(* first-out buffer of at most Capacity items.  A push that finds the      *)
(* buffer full and a pop that finds it empty change nothing, so they are   *)
(* stuttering steps here.                                                  *)
(***************************************************************************)
EXTENDS Naturals, Sequences

CONSTANTS Items, Capacity

VARIABLE queue

Init == queue = << >>

Put(item) ==
  /\ Len(queue) < Capacity
  /\ queue' = Append(queue, item)

Get ==
  /\ queue # << >>
  /\ queue' = Tail(queue)

Next == (\E item \in Items : Put(item)) \/ Get

Spec == Init /\ [][Next]_queue
=============================================================================
