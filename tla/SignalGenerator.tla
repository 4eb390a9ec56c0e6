--------------------------- MODULE SignalGenerator ---------------------------
(***************************************************************************)
(* SignalGenerator::update (src/SignalGenerator.cpp), used by main on live *)
(* samples and by Backtester on bars.  A generator is a record of what it  *)
(* remembers; an input says whether the price is above VWAP and gives RSI  *)
(* as a fraction.                                                          *)
(***************************************************************************)
EXTENDS Integers

CONSTANTS
  Oversold,    \* rsi_oversold_
  Overbought   \* rsi_overbought_

ASSUME ThresholdAssumption ==
  /\ Oversold \in Nat
  /\ Overbought \in Nat
  /\ Oversold < Overbought

\* fed says that prev_price_ > 0: prices are positive.
NewGenerator == [above |-> FALSE, low |-> FALSE, high |-> FALSE, fed |-> FALSE]

IsLow(rsi) == rsi.num < Oversold * rsi.den
IsHigh(rsi) == rsi.num > Overbought * rsi.den

CrossedUp(g, in) == in.above /\ ~g.above /\ g.fed
CrossedDown(g, in) == ~in.above /\ g.above /\ g.fed

\* RSI was oversold at the last input and is above the threshold now.
LeftOversold(g, in) == in.rsi.num > Oversold * in.rsi.den /\ g.low
LeftOverbought(g, in) == in.rsi.num < Overbought * in.rsi.den /\ g.high

\* A SELL found overwrites a BUY found.
SignalOf(g, in) ==
  IF CrossedDown(g, in) \/ LeftOverbought(g, in) THEN "SELL"
  ELSE IF CrossedUp(g, in) \/ LeftOversold(g, in) THEN "BUY"
  ELSE "NONE"

\* Whether the reason recorded with the signal is a crossing of VWAP.
ByCrossing(g, in) ==
  CASE SignalOf(g, in) = "SELL" -> CrossedDown(g, in)
    [] SignalOf(g, in) = "BUY" -> CrossedUp(g, in)
    [] OTHER -> FALSE

\* Mutant: the zones are entered but never left.
UpdatedSticky(g, in) ==
  [above |-> in.above, low |-> IsLow(in.rsi) \/ g.low, high |-> IsHigh(in.rsi) \/ g.high,
   fed |-> TRUE]

\* Mutant: update returns with the signal, before it stores what it saw.
UpdatedUnlessSignal(g, in) ==
  IF SignalOf(g, in) # "NONE" THEN g
  ELSE [above |-> in.above, low |-> IsLow(in.rsi), high |-> IsHigh(in.rsi), fed |-> TRUE]

\* What update remembers of this input; nothing is kept of earlier ones.
Updated(g, in) ==
  [above |-> in.above, low |-> IsLow(in.rsi), high |-> IsHigh(in.rsi), fed |-> TRUE]
=============================================================================
