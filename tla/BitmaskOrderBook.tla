-------------------------- MODULE BitmaskOrderBook ---------------------------
(***************************************************************************)
(* BitmaskOrderBook of include/HFTPerf.h: two sorted arrays that are only  *)
(* inserted into, and a bit mask per side from which the best level is     *)
(* read.  A price is compared as it came and stored rounded to a cent      *)
(* (PackedOrder).  Ids, quantities and flags travel with the prices and    *)
(* are left out.  The masks have no initial value; use starts with clear().*)
(***************************************************************************)
EXTENDS Integers, FiniteSetsExt, SequencesExt

CONSTANTS
  Quotes,       \* prices, in fractions of a cent
  Cent,         \* as many of which make a cent
  PackedLevels  \* MAX_LEVELS

ASSUME BitmaskAssumption ==
  /\ Quotes \subseteq Nat \ {0}
  /\ Cent \in Nat \ {0}
  /\ PackedLevels \in Nat

BookSides == {"bid", "ask"}

VARIABLES
  packed,   \* bids_, asks_ up to bid_cnt_, ask_cnt_: the stored cents
  bitmask,  \* bid_mask_, ask_mask_: numbers of the bits set
  quoted    \* history: prices accepted since clear()

packedVars == <<packed, bitmask, quoted>>

\* set_price.
ToCents(px) == (2 * px + Cent) \div (2 * Cent)

PackedInit ==
  /\ packed = [s \in BookSides |-> << >>]
  /\ bitmask = [s \in BookSides |-> {}]
  /\ quoted = [s \in BookSides |-> {}]

Clear ==
  /\ packed' = [s \in BookSides |-> << >>]
  /\ bitmask' = [s \in BookSides |-> {}]
  /\ quoted' = [s \in BookSides |-> {}]

Worse(s, cents, px) == IF s = "bid" THEN cents * Cent < px ELSE cents * Cent > px

\* Mutant: a new level goes to the end.
InsertionIndexEnd(s, px) == Len(packed[s])

\* From the end past all levels that are worse.
InsertionIndex(s, px) ==
  Max({0} \cup {i \in DOMAIN packed[s] : ~Worse(s, packed[s][i], px)})

InsertQuote(s, px) ==
  /\ Len(packed[s]) < PackedLevels
  /\ LET i == InsertionIndex(s, px)
     IN  /\ packed' = [packed EXCEPT ![s] = InsertAt(@, i + 1, ToCents(px))]
         /\ bitmask' = [bitmask EXCEPT ![s] = @ \cup {i}]
  /\ quoted' = [quoted EXCEPT ![s] = @ \cup {px}]

BestPacked(s) == IF bitmask[s] = {} THEN 0 ELSE packed[s][Min(bitmask[s]) + 1]

PackedNext ==
  \/ Clear
  \/ \E s \in BookSides, px \in Quotes : InsertQuote(s, px)

PackedSpec == PackedInit /\ [][PackedNext]_packedVars
-----------------------------------------------------------------------------
\* The bits set are those of insertion points, not of the levels in use; and an
\* unrounded price is compared with rounded ones.  The best level read through
\* the mask is nevertheless the best price accepted, rounded, and the levels
\* behind it are in order.
BitmaskBest ==
  \A s \in BookSides :
    /\ BestPacked(s) = IF quoted[s] = {} THEN 0
                       ELSE ToCents(IF s = "bid" THEN Max(quoted[s]) ELSE Min(quoted[s]))
    /\ \A i \in 2..Len(packed[s]) : ~Worse(s, packed[s][i - 1], packed[s][i] * Cent)
=============================================================================
