------------------------------ MODULE LevelMap ------------------------------
(***************************************************************************)
(* What an order book promises: for each side a quantity per price, at     *)
(* most MaxLevels prices of which are non-zero.  A level is set by naming  *)
(* its price; no other level moves.  A new price that finds the side full  *)
(* is not taken (a stuttering step).                                       *)
(***************************************************************************)
EXTENDS Naturals, FiniteSets

CONSTANTS Sides, Prices, Quantities, MaxLevels

VARIABLE depth   \* depth[s][p]: quantity of side s at price p, 0 if none

Quoted(s) == {p \in Prices : depth[s][p] # 0}

Init == depth = [s \in Sides |-> [p \in Prices |-> 0]]

Clear == depth' = [s \in Sides |-> [p \in Prices |-> 0]]

SetLevel(s, p, q) ==
  /\ q # 0 /\ p \notin Quoted(s) => Cardinality(Quoted(s)) < MaxLevels
  /\ depth' = [depth EXCEPT ![s][p] = q]

Next ==
  \/ Clear
  \/ \E s \in Sides, p \in Prices, q \in Quantities \cup {0} : SetLevel(s, p, q)

Spec == Init /\ [][Next]_depth
=============================================================================
