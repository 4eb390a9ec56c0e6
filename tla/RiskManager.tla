----------------------------- MODULE RiskManager -----------------------------
(***************************************************************************)
(* RiskManager of include/RiskManager.h under several trading threads.     *)
(* Each atomic access is a step; on_fill and reset hold the mutex,         *)
(* check_order does not.                                                   *)
(*                                                                         *)
(* Assumed of the callers: a trader has an order checked and, if it        *)
(* passes, reports its fill or gives it up before it has another checked.  *)
(* The code does not ask for this: nothing in it ties a fill to a check.   *)
(* The limits are those set before trading; set_limits, a plain copy       *)
(* without the mutex, is left out.                                         *)
(***************************************************************************)
EXTENDS Integers, FiniteSetsExt

CONSTANTS
  Traders,      \* threads
  Sizes,        \* signed order sizes, in cents
  OrderPrices,  \* order prices, in cents
  Scale,        \* 10000
  MaxSell,      \* no sell in Sizes is larger
  MaxOrder,     \* max_order_size_cents
  MaxPosition,  \* max_position_size_cents
  MaxLoss,      \* max_daily_loss_cents
  MaxFills      \* bound: fills in a behaviour

ASSUME RiskAssumption ==
  /\ IsFiniteSet(Traders) /\ Traders # {}
  /\ Sizes \subseteq Int /\ IsFiniteSet(Sizes)
  /\ OrderPrices \subseteq Int /\ IsFiniteSet(OrderPrices)
  /\ \A s \in Sizes : -s <= MaxSell
  /\ Scale \in Nat \ {0}
  /\ {MaxSell, MaxOrder, MaxPosition, MaxLoss, MaxFills} \subseteq Nat

NoOrder == [size |-> 0, price |-> 0]

VARIABLES
  position,  \* open_position_cents_
  pnl,       \* daily_pnl_cents_
  fills,     \* orders_today_
  order,     \* each trader's order
  pc,        \* where each trader stands in check_order, on_fill or reset
  total      \* bound: fills since the start

riskVars == <<position, pnl, fills, order, pc, total>>

Magnitude(n) == IF n < 0 THEN -n ELSE n

\* Division of C++: towards zero.
Notional(o) ==
  LET n == o.size * o.price
  IN  IF n < 0 THEN -((-n) \div Scale) ELSE n \div Scale

Goto(t, from, to) == pc[t] = from /\ pc' = [pc EXCEPT ![t] = to]

Forget(t) == order' = [order EXCEPT ![t] = NoOrder]

\* mutex_ is held.
Locked == \E t \in Traders : pc[t] \in {"fillPnl", "fillCount", "resetPosition", "resetCount"}

RiskInit ==
  /\ position = 0
  /\ pnl = 0
  /\ fills = 0
  /\ order = [t \in Traders |-> NoOrder]
  /\ pc = [t \in Traders |-> "idle"]
  /\ total = 0
-----------------------------------------------------------------------------
(***************************************************************************)
(* check_order                                                             *)
(***************************************************************************)
\* Mutant: without the absolute value a short position is not limited.
FitsPositionLong(size) == position + size <= MaxPosition
FitsPosition(size) == Magnitude(position + size) <= MaxPosition

\* Only a buy is limited by MaxOrder.
CheckPosition(t, o) ==
  /\ Goto(t, "idle", "checkLoss")
  /\ o.size <= MaxOrder
  /\ FitsPosition(o.size)
  /\ o.price > 0
  /\ order' = [order EXCEPT ![t] = o]
  /\ UNCHANGED <<position, pnl, fills, total>>

WithinLoss == pnl >= -MaxLoss

CheckLoss(t) ==
  /\ pc[t] = "checkLoss"
  /\ IF WithinLoss THEN pc' = [pc EXCEPT ![t] = "passed"] /\ UNCHANGED order
     ELSE pc' = [pc EXCEPT ![t] = "idle"] /\ Forget(t)
  /\ UNCHANGED <<position, pnl, fills, total>>
-----------------------------------------------------------------------------
(***************************************************************************)
(* on_fill, or the order is given up                                       *)
(***************************************************************************)
FillPosition(t) ==
  /\ total < MaxFills
  /\ ~Locked
  /\ Goto(t, "passed", "fillPnl")
  /\ position' = position + order[t].size
  /\ total' = total + 1
  /\ UNCHANGED <<pnl, fills, order>>

FillPnl(t) ==
  /\ Goto(t, "fillPnl", "fillCount")
  /\ pnl' = pnl + Notional(order[t])
  /\ UNCHANGED <<position, fills, order, total>>

FillCount(t) ==
  /\ Goto(t, "fillCount", "idle")
  /\ fills' = fills + 1
  /\ Forget(t)
  /\ UNCHANGED <<position, pnl, total>>

GiveUp(t) ==
  /\ Goto(t, "passed", "idle")
  /\ Forget(t)
  /\ UNCHANGED <<position, pnl, fills, total>>
-----------------------------------------------------------------------------
(***************************************************************************)
(* reset                                                                   *)
(***************************************************************************)
ResetPnl(t) ==
  /\ ~Locked
  /\ Goto(t, "idle", "resetPosition")
  /\ pnl' = 0
  /\ UNCHANGED <<position, fills, order, total>>

ResetPosition(t) ==
  /\ Goto(t, "resetPosition", "resetCount")
  /\ position' = 0
  /\ UNCHANGED <<pnl, fills, order, total>>

ResetCount(t) ==
  /\ Goto(t, "resetCount", "idle")
  /\ fills' = 0
  /\ UNCHANGED <<position, pnl, order, total>>

TraderOrders == [size : Sizes, price : OrderPrices]

Check(t) == (\E o \in TraderOrders : CheckPosition(t, o)) \/ CheckLoss(t)
Fill(t) == FillPosition(t) \/ FillPnl(t) \/ FillCount(t) \/ GiveUp(t)
ResetDay(t) == ResetPnl(t) \/ ResetPosition(t) \/ ResetCount(t)

RiskNext == \E t \in Traders : Check(t) \/ Fill(t) \/ ResetDay(t)

RiskSpec == RiskInit /\ [][RiskNext]_riskVars
-----------------------------------------------------------------------------
\* The limits are not exact: orders checked together all pass.  The position
\* limit is exceeded by at most one order for every other trader, where a buy is
\* at most MaxOrder and a sell as large as any; the loss limit by at most one
\* fill for every trader.  Resets between a check and its fill do not add to it.
LimitsOvershoot ==
  LET all == Cardinality(Traders)
      worst == Min({0} \cup {Notional(o) : o \in TraderOrders})
  IN  /\ position <= MaxPosition + (all - 1) * MaxOrder
      /\ position >= -(MaxPosition + (all - 1) * MaxSell)
      /\ pnl >= -MaxLoss + all * worst
=============================================================================
