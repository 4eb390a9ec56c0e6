-------------------------- MODULE TradingAlgorithms --------------------------
(***************************************************************************)
(* The ten strategies of src/TradingAlgorithms.cpp on the base class of    *)
(* include/TradingAlgorithms.h.  An object is one of them for its life; it *)
(* is fed ticks (update), reset, and asked for its signals.                *)
(*                                                                         *)
(* Arithmetic is exact: a comparison of averages or percentages is         *)
(* multiplied out.  Reasons and the copies of prices in a signal are left  *)
(* out, as are histories that nothing reads (vwap_history_, all but the    *)
(* newest entry of price_history_).                                        *)
(*                                                                         *)
(* The file passes a third argument to emit_signal, which is declared with *)
(* two; it is taken to be dropped.                                         *)
(***************************************************************************)
EXTENDS Integers, FiniteSetsExt, SequencesExt

CONSTANTS
  Param,          \* Param[a]: the parameters of algorithm a
  Thresholds,     \* the numbers that configure may read from its text
  TimeMod,        \* 2^64, the range of a time stamp
  Offered(_, _),  \* Offered(a, f): ticks the market may bring a after feed f
  MaxTicks,       \* bound: MaxTicks[a] ticks for algorithm a
  MaxResets       \* bound: resets at different times

Crossovers == {"macd", "sma", "delta"}
ShortOpeners == {"vwap", "spike", "volatility"}
LongOnly == {"rsi", "burst", "trend", "spread"} \cup Crossovers
Algorithms == LongOnly \cup ShortOpeners

ASSUME AlgorithmsAssumption ==
  /\ Algorithms \subseteq DOMAIN Param
  /\ MaxTicks \in [Algorithms -> Nat]
  /\ MaxResets \in Nat
  /\ TimeMod \in Nat /\ Param["burst"].window \in 0..(TimeMod - 1)
  /\ Param["sma"].slow \in Nat /\ Param["spike"].window \in Nat
  /\ Param["trend"].period \in Nat \ {0} /\ Param["trend"].multiplier \in Nat
  /\ Param["delta"].window \in Nat /\ Param["delta"].window >= 2
  /\ Param["volatility"].lookback >= 2

VARIABLES
  alg,         \* which algorithm the object is
  mem,         \* its private members but in_position_
  inPosition,  \* in_position_
  signals,     \* signals_
  last,        \* last_signal_
  feed,        \* history: all ticks of its life
  resets       \* history: lengths of the feed at which it was reset

out == <<inPosition, signals, last>>
algorithmVars == <<alg, mem, out, feed, resets>>

\* The members of a new object, and those that reset() sets back.
Fresh ==
  [rsi        |-> [low |-> Param["rsi"].low, high |-> Param["rsi"].high],
   macd       |-> [fast |-> 0, slow |-> 0, macd |-> 0, signal |-> 0],
   sma        |-> [prices |-> << >>, above |-> FALSE],
   burst      |-> [prices |-> << >>, entry |-> 0],
   trend      |-> [price |-> 0, ranges |-> << >>, upper |-> 0, lower |-> 0],
   vwap       |-> << >>,
   spike      |-> [sizes |-> << >>],
   delta      |-> [deltas |-> << >>, sum |-> 0],
   spread     |-> << >>,
   volatility |-> [prices |-> << >>, returns |-> << >>]]

Cleared ==
  [rsi |-> {}, macd |-> {"fast", "slow"}, sma |-> {"prices"}, burst |-> {"prices"},
   trend |-> {"ranges"}, vwap |-> {}, spike |-> {"sizes"}, delta |-> {"deltas"},
   spread |-> {}, volatility |-> {"returns"}]

AlgorithmsInit ==
  /\ alg \in Algorithms
  /\ mem = Fresh[alg]
  /\ inPosition = FALSE
  /\ signals = << >>
  /\ last = "NONE"
  /\ feed = << >>
  /\ resets = {}
-----------------------------------------------------------------------------
(***************************************************************************)
(* What the strategies share                                               *)
(***************************************************************************)
P == Param[alg]

Abs(n) == IF n < 0 THEN -n ELSE n

Sum(s) == FoldLeft(LAMBDA x, y : x + y, 0, s)

\* Mutant: one entry too many is left.
NewestAndOne(s, n) == SubSeq(s, Max({1, Len(s) - n}), Len(s))

\* A deque after push_back and pop_front down to n entries.
Newest(s, n) == SubSeq(s, Max({1, Len(s) - n + 1}), Len(s))

Emit(sig) ==
  IF sig = "NONE" THEN UNCHANGED <<signals, last>>
  ELSE signals' = Append(signals, sig) /\ last' = sig

\* Mutant: a sale does not leave the position.
DecideStaying(opening, closes) ==
  LET sig == IF ~inPosition THEN opening ELSE IF closes THEN "SELL" ELSE "NONE"
  IN  Emit(sig) /\ inPosition' = (inPosition \/ sig # "NONE")

\* Out of a position an algorithm may open one, in one it may only sell.
Decide(opening, closes) ==
  LET sig == IF ~inPosition THEN opening ELSE IF closes THEN "SELL" ELSE "NONE"
  IN  /\ Emit(sig)
      /\ inPosition' = IF sig = "NONE" THEN inPosition ELSE ~inPosition

Hold == UNCHANGED out

Ignore == Hold /\ UNCHANGED mem

BuyIf(condition) == IF condition THEN "BUY" ELSE "NONE"

\* Mutant: the line must have been above before it is bought.
CrossingConfirmed(was, is) == Decide(BuyIf(is /\ was), was /\ ~is)

\* Of a line and its signal line, or of a value and its threshold.
Crossing(was, is) == Decide(BuyIf(is /\ ~was), was /\ ~is)
-----------------------------------------------------------------------------
RSIMeanReversion(t) ==
  /\ alg = "rsi"
  /\ UNCHANGED mem
  /\ IF t.rsi <= 0 THEN Hold
     ELSE Decide(BuyIf(t.rsi < mem.low), t.rsi > mem.high)

\* Exact as long as the scale of the prices is a large enough power of two.
Ema(old, new, n) == (2 * new + (n - 1) * old) \div (n + 1)

MacdMemory(price) ==
  LET now == price * P.scale
      fast == Ema(mem.fast, now, P.fast)
      slow == Ema(mem.slow, now, P.slow)
  IN  IF mem.fast = 0 THEN [fast |-> now, slow |-> now, macd |-> 0, signal |-> 0]
      ELSE [fast |-> fast, slow |-> slow, macd |-> fast - slow,
            signal |-> Ema(mem.signal, fast - slow, P.signal)]

MACDCrossover(t) ==
  /\ alg = "macd"
  /\ IF t.price <= 0 THEN Ignore
     ELSE /\ mem' = MacdMemory(t.price)
          /\ IF mem.fast = 0 THEN Hold
             ELSE LET signal == Ema(mem.signal, mem'.macd, P.signal)
                  IN  Crossing(mem.macd > mem.signal, mem'.macd > signal)

\* above stands for prev_fast_sma_ > prev_slow_sma_, their only use.
FastAbove(prices) ==
  P.slow * Sum(Newest(prices, P.fast)) > P.fast * Sum(Newest(prices, P.slow))

DualSMA(t) ==
  /\ alg = "sma"
  /\ IF t.price <= 0 THEN Ignore
     ELSE LET prices == Newest(Append(mem.prices, t.price), P.slow)
          IN  IF Len(prices) < P.slow
              THEN mem' = [mem EXCEPT !.prices = prices] /\ Hold
              ELSE /\ mem' = [prices |-> prices, above |-> FastAbove(prices)]
                   /\ Crossing(mem.above, FastAbove(prices))

\* Unsigned: before time P.window it is in the far future.
Cutoff(time) == (time - P.window) % TimeMod

BurstPrices(t) ==
  LET kept == SelectInSeq(mem.prices, LAMBDA e : e.time >= Cutoff(t.time))
  IN  Append(IF kept = 0 THEN << >> ELSE SubSeq(mem.prices, kept, Len(mem.prices)), t)

MomentumBurst(t) ==
  /\ alg = "burst"
  /\ IF t.price <= 0 THEN Ignore
     ELSE LET prices == BurstPrices(t)
              earliest == Head(prices).price
              Rises(base) == 100 * (t.price - base) > P.percent * base
              Falls(base) == 100 * (t.price - base) < -P.percent * base
              enters == ~inPosition /\ Rises(earliest)
          IN  /\ mem' = [prices |-> prices,
                         entry |-> IF Len(prices) >= 2 /\ enters THEN t.price ELSE mem.entry]
              /\ IF Len(prices) < 2 THEN Hold
                 ELSE Decide(BuyIf(Rises(earliest)), Falls(mem.entry) \/ Falls(earliest))

\* Prices and bands are multiplied by the period.  A price is compared with the
\* bands of the tick before; the new bands never widen.
Supertrend(t) ==
  /\ alg = "trend"
  /\ IF t.price <= 0 THEN Ignore
     ELSE LET ranges == IF mem.price = 0 THEN mem.ranges
                        ELSE Newest(Append(mem.ranges, Abs(t.price - mem.price)), P.period)
              now == P.period * t.price
              width == P.multiplier * Sum(ranges)
              first == mem.upper <= 0
          IN  IF Len(ranges) < P.period
              THEN mem' = [mem EXCEPT !.price = t.price, !.ranges = ranges] /\ Hold
              ELSE /\ mem' = [price |-> t.price, ranges |-> ranges,
                              upper |-> IF first THEN now + width ELSE Min({now + width, mem.upper}),
                              lower |-> IF first THEN now - width ELSE Max({now - width, mem.lower})]
                   /\ Decide(BuyIf(now > mem.upper), now < mem.lower)

VWAPBreakout(t) ==
  /\ alg = "vwap"
  /\ UNCHANGED mem
  /\ IF t.vwap <= 0 \/ t.price <= 0 THEN Hold
     ELSE LET change == 100 * (t.price - t.vwap)
              threshold == P.percent * t.vwap
          IN  Decide(IF change > threshold THEN "BUY"
                     ELSE IF change < -threshold THEN "SELL" ELSE "NONE",
                     2 * Abs(change) < threshold)

TradeSizeSpike(t) ==
  /\ alg = "spike"
  /\ IF t.volume <= 0 THEN Ignore
     ELSE LET sizes == Newest(Append(mem.sizes, t.volume), P.window)
              scaled == P.window * t.volume
          IN  /\ mem' = [sizes |-> sizes]
              /\ IF Len(sizes) < P.window THEN Hold
                 ELSE Decide(IF scaled <= P.multiplier * Sum(sizes) THEN "NONE"
                             ELSE IF t.buy THEN "BUY" ELSE "SELL",
                             2 * scaled < 3 * Sum(sizes))

DeltaMomentum(t) ==
  /\ alg = "delta"
  /\ LET sum == IF t.buy THEN mem.sum + t.volume ELSE mem.sum - t.volume
     IN  /\ mem' = [sum |-> sum, deltas |-> Newest(Append(mem.deltas, sum), P.window)]
         /\ IF mem.deltas = << >> THEN Hold
            ELSE Crossing(Last(mem.deltas) > P.threshold, sum > P.threshold)

SpreadCompression(t) ==
  /\ alg = "spread"
  /\ UNCHANGED mem
  /\ IF t.bid <= 0 \/ t.ask <= 0 THEN Hold
     ELSE LET spread == 20000 * (t.ask - t.bid)
              sum == t.ask + t.bid
          IN  Decide(BuyIf(spread < P.narrow * sum), spread > P.wide * sum)

Infinite == -1

\* The size of a relative change, times a common multiple of all prices.
Return(price, before) ==
  IF before = 0 THEN Infinite ELSE Abs(P.multiple * (price - before)) \div before

\* An infinite return makes the deviation no number, and every comparison false.
VolatilityMomentum(t) ==
  /\ alg = "volatility"
  /\ IF t.price <= 0 \/ Len(mem.prices) < 2
     THEN Hold /\ mem' = [mem EXCEPT !.prices = Newest(Append(@, t.price), 2)]
     ELSE LET before == Last(mem.prices)
              now == Return(t.price, before)
              returns == Newest(Append(mem.returns, now), P.lookback)
              sum == Sum(returns)
              variance == P.lookback * FoldLeft(LAMBDA x, y : x + y * y, 0, returns) - sum * sum
              calm == 4 * variance < sum * sum
              burst == P.lookback * now > P.burst * sum
          IN  /\ mem' = [prices |-> <<before, t.price>>, returns |-> returns]
              /\ IF Len(returns) < P.lookback \/ Contains(returns, Infinite) THEN Hold
                 ELSE Decide(IF ~(calm /\ burst) THEN "NONE"
                             ELSE IF t.price > before THEN "BUY" ELSE "SELL",
                             variance > 4 * sum * sum)
-----------------------------------------------------------------------------
Update(t) ==
  /\ Len(feed) < MaxTicks[alg]
  /\ feed' = Append(feed, t)
  /\ UNCHANGED <<alg, resets>>
  /\ \/ RSIMeanReversion(t)
     \/ MACDCrossover(t)
     \/ DualSMA(t)
     \/ MomentumBurst(t)
     \/ Supertrend(t)
     \/ VWAPBreakout(t)
     \/ TradeSizeSpike(t)
     \/ DeltaMomentum(t)
     \/ SpreadCompression(t)
     \/ VolatilityMomentum(t)

\* No reset() touches in_position_.
Reset ==
  /\ Cardinality(resets) < MaxResets
  /\ mem' = [m \in DOMAIN mem |-> IF m \in Cleared[alg] THEN Fresh[alg][m] ELSE mem[m]]
  /\ signals' = << >>
  /\ last' = "NONE"
  /\ resets' = resets \cup {Len(feed)}
  /\ UNCHANGED <<alg, inPosition, feed>>

ClearSignals ==
  /\ signals' = << >>
  /\ UNCHANGED <<alg, mem, inPosition, last, feed, resets>>

\* The only algorithm with a configure of its own.  It reads at most two numbers;
\* a word in the place of one counts as 0 and ends the reading, and a threshold for
\* which nothing is left to read stays as it was.
Configure(th) ==
  /\ alg = "rsi"
  /\ mem' = [low |-> IF Len(th) >= 1 THEN th[1] ELSE mem.low,
             high |-> IF Len(th) >= 2 THEN th[2] ELSE mem.high]
  /\ UNCHANGED <<alg, out, feed, resets>>

AlgorithmsNext ==
  \/ \E t \in Offered(alg, feed) : Update(t)
  \/ Reset
  \/ ClearSignals
  \/ \E th \in Thresholds : Configure(th)

AlgorithmsSpec == AlgorithmsInit /\ [][AlgorithmsNext]_algorithmVars
-----------------------------------------------------------------------------
(***************************************************************************)
(* Correctness                                                             *)
(***************************************************************************)
\* In the seven algorithms that only buy to open, signals_ alternates between BUY
\* and SELL, and last_signal_, which clear_signals leaves, is BUY exactly when the
\* object is in a position: its position is never closed twice or bought into
\* twice.  (A reset empties both and keeps the position, so nothing is said of
\* the first signal after it.)
LongSignalsAlternate ==
  alg \in LongOnly =>
    /\ \A i \in DOMAIN signals : i > 1 => signals[i] # signals[i - 1]
    /\ signals # << >> => last = signals[Len(signals)]
    /\ last # "NONE" => (inPosition <=> last = "BUY")

Above ==
  CASE alg = "macd"  -> mem.macd > mem.signal
    [] alg = "sma"   -> mem.above
    [] alg = "delta" -> mem.deltas # << >> /\ Last(mem.deltas) > P.threshold
    [] OTHER         -> FALSE

\* MACD and delta make no comparison on the first tick after start or reset.
Compares ==
  CASE alg = "macd"  -> mem.fast # 0
    [] alg = "delta" -> mem.deltas # << >>
    [] OTHER         -> TRUE

\* A crossover algorithm is in a position when its fast line is above the slow
\* one.  Only the tick after a start or a reset can put the two out of step (a
\* crossing is missed); a later tick leaves them so at worst until the next
\* crossing.
PositionFollowsIndicator ==
  [][(alg \in Crossovers /\ Compares /\ feed' # feed)
     => \/ inPosition' = Above'
        \/ inPosition' = inPosition /\ Above' = Above]_algorithmVars

\* Sets of indices of the feed, and values at such indices in their order.
SinceReset == {i \in DOMAIN feed : \A r \in resets : r < i}
Accepted(field) == {i \in DOMAIN feed : feed[i][field] > 0}

LastOf(I, n) == {i \in I : Cardinality({j \in I : j > i}) < n}
Nth(I, k) == CHOOSE i \in I : Cardinality({j \in I : j < i}) = k - 1
InOrder(I, values) == [k \in 1..Cardinality(I) |-> values[Nth(I, k)]]
FieldAt(I, field) == InOrder(I, [i \in I |-> feed[i][field]])

\* Those of the indices I that are no longer before the newest than the window.
Recent(I) == {i \in I : \A j \in I : j > i => feed[i].time >= feed[j].time - P.window}

\* The prices, sizes and bursts an algorithm looks at are those of the newest ticks
\* it accepted since the last reset, in their order, as many as its window holds:
\* no tick is skipped, kept too long, or left from before the reset.  A burst's
\* window is one of time; before time P.window its cutoff wraps around, and
\* nothing is said of such a time.
WindowsHoldNewest ==
  /\ alg = "sma" =>
       mem.prices = FieldAt(LastOf(Accepted("price") \cap SinceReset, P.slow), "price")
  /\ alg = "spike" =>
       mem.sizes = FieldAt(LastOf(Accepted("volume") \cap SinceReset, P.window), "volume")
  /\ alg = "burst" =>
       LET I == Accepted("price") \cap SinceReset
       IN  (\A i \in I : feed[i].time >= P.window) => mem.prices = InOrder(Recent(I), feed)
=============================================================================
