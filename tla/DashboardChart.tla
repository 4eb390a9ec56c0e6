---------------------------- MODULE DashboardChart ---------------------------
(***************************************************************************)
(* The histories that DashboardUI::render keeps for its chart              *)
(* (src/DashboardUI.cpp): a smoothed mid price for every frame with a      *)
(* price, and a smoothed VWAP for those since the first trade.  The chart  *)
(* draws the two lines by position, both from its left edge.               *)
(* rsi_history_ is pushed with price_history_ and left out.                *)
(***************************************************************************)
EXTENDS Integers, FiniteSetsExt, SequencesExt

CONSTANTS
  Mids,        \* mid prices, 0 for an empty book
  Vwaps,       \* positive VWAPs
  Divisors,    \* the slider's smoothing factors are their inverses
  Unit,        \* all of them divide Unit as often as there are frames
  HistoryMax,  \* PRICE_HISTORY_MAX
  MaxFrames    \* bound: frames

ASSUME ChartAssumption ==
  /\ Mids \subseteq Nat
  /\ Vwaps \subseteq Nat \ {0}
  /\ \A d \in Divisors : d \in Nat /\ d >= 2
  /\ {Unit, HistoryMax} \subseteq Nat \ {0}
  /\ MaxFrames \in Nat

VARIABLES
  frame,      \* frames rendered
  shownPrice, \* displayed_price_, times Unit
  shownVwap,  \* displayed_vwap_, times Unit
  priceLine,  \* price_history_, with the frame of each entry
  vwapLine,   \* vwap_history_, with the frame of each entry
  traded,     \* VWAP is positive: there has been a sample
  seen        \* history: mid prices and VWAPs of the frames so far

chartVars == <<frame, shownPrice, shownVwap, priceLine, vwapLine, traded, seen>>

ChartInit ==
  /\ frame = 0
  /\ shownPrice = 0
  /\ shownVwap = 0
  /\ priceLine = << >>
  /\ vwapLine = << >>
  /\ traded = FALSE
  /\ seen = [price |-> {}, vwap |-> {}]

\* Mutant: the first value is smoothed as well.
SmoothedFromZero(shown, value, d) == shown + (value * Unit - shown) \div d

Smoothed(shown, value, d) ==
  IF shown <= 0 THEN value * Unit ELSE shown + (value * Unit - shown) \div d

Pushed(line, value) ==
  LET longer == Append(line, [frame |-> frame, value |-> value])
  IN  IF Len(longer) > HistoryMax THEN Tail(longer) ELSE longer

FrameWithoutPrice ==
  /\ frame < MaxFrames
  /\ 0 \in Mids
  /\ frame' = frame + 1
  /\ UNCHANGED <<shownPrice, shownVwap, priceLine, vwapLine, traded, seen>>

PriceFrame(mid, d) ==
  /\ frame < MaxFrames
  /\ mid > 0
  /\ frame' = frame + 1
  /\ shownPrice' = Smoothed(shownPrice, mid, d)
  /\ priceLine' = Pushed(priceLine, shownPrice')

\* There is no VWAP before the first sample.
FrameBeforeTrade(mid, d) ==
  /\ ~traded
  /\ PriceFrame(mid, d)
  /\ seen' = [seen EXCEPT !.price = @ \cup {mid}]
  /\ UNCHANGED <<shownVwap, vwapLine, traded>>

FrameWithVwap(mid, vwap, d) ==
  /\ PriceFrame(mid, d)
  /\ shownVwap' = Smoothed(shownVwap, vwap, d)
  /\ vwapLine' = Pushed(vwapLine, shownVwap')
  /\ traded' = TRUE
  /\ seen' = [price |-> seen.price \cup {mid}, vwap |-> seen.vwap \cup {vwap}]

ChartNext ==
  \/ FrameWithoutPrice
  \/ \E mid \in Mids, d \in Divisors :
       \/ FrameBeforeTrade(mid, d)
       \/ \E vwap \in Vwaps : FrameWithVwap(mid, vwap, d)

ChartSpec == ChartInit /\ [][ChartNext]_chartVars
-----------------------------------------------------------------------------
Frames(line) == [i \in DOMAIN line |-> line[i].frame]

WithinSeen(line, values) ==
  \A i \in DOMAIN line : /\ line[i].value >= Unit * Min(values)
                         /\ line[i].value <= Unit * Max(values)

\* The VWAP line belongs to the newest frames of the price line.  The chart draws
\* it from the left edge, too early by the difference of the lengths, until both
\* are full.  Whatever the slider does, a smoothed value never leaves the range
\* of the values seen.
ChartLines ==
  /\ IsSuffix(Frames(vwapLine), Frames(priceLine))
  /\ WithinSeen(priceLine, seen.price)
  /\ WithinSeen(vwapLine, seen.vwap)
=============================================================================
