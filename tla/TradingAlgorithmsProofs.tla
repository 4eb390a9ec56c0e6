----------------------- MODULE TradingAlgorithmsProofs -----------------------
(***************************************************************************)
(* For all parameters, all feeds of ticks and any resets: the signals of   *)
(* a strategy that only buys to open alternate, a crossover strategy is in *)
(* a position when its fast line is above the slow one, and the windows of *)
(* a strategy hold the newest ticks it accepted.                           *)
(***************************************************************************)
EXTENDS TradingAlgorithms, FiniteSetTheorems, WellFoundedInduction, TLAPS

-----------------------------------------------------------------------------
(***************************************************************************)
(* Signals                                                                 *)
(***************************************************************************)
Sig == {"BUY", "SELL"}

AlternateInv ==
  /\ alg \in Algorithms
  /\ inPosition \in BOOLEAN
  /\ signals \in Seq(Sig)
  /\ LongSignalsAlternate

Emits(sig) ==
  signals' = Append(signals, sig) /\ last' = sig

\* A signal that opens a position.
Opens ==
  /\ ~inPosition /\ inPosition' = TRUE
  /\ \/ Emits("BUY")
     \/ alg \in ShortOpeners /\ Emits("SELL")

\* All that a tick can do to the signals and the position.
Moves == Hold \/ Opens \/ (inPosition /\ inPosition' = FALSE /\ Emits("SELL"))

LEMMA BuyIfMoves ==
  ASSUME inPosition \in BOOLEAN, NEW buys \in BOOLEAN, NEW closes \in BOOLEAN,
         Decide(BuyIf(buys), closes)
  PROVE  Moves
BY DEF Decide, BuyIf, Emit, Moves, Hold, Opens, Emits, out

LEMMA ShortMoves ==
  ASSUME inPosition \in BOOLEAN, alg \in ShortOpeners,
         NEW opening \in {"BUY", "SELL", "NONE"}, NEW closes \in BOOLEAN,
         Decide(opening, closes)
  PROVE  Moves
BY DEF Decide, Emit, Moves, Hold, Opens, Emits, out

LEMMA AppendSignal ==
  ASSUME NEW s \in Seq(Sig), NEW sig \in Sig
  PROVE  /\ Append(s, sig) \in Seq(Sig) /\ Len(Append(s, sig)) = Len(s) + 1 /\ Len(s) \in Nat
         /\ \A i \in 1..Len(s) : Append(s, sig)[i] = s[i]
         /\ Append(s, sig)[Len(s) + 1] = sig
OBVIOUS

LEMMA MovesInv ==
  ASSUME AlternateInv, Moves, UNCHANGED alg
  PROVE  AlternateInv'
<1>1. CASE Hold
  BY <1>1 DEF Hold, out, AlternateInv, LongSignalsAlternate
<1>2. ASSUME NEW sig \in Sig, Emits(sig), inPosition' = ~inPosition,
             alg \in LongOnly => (sig = "BUY" <=> ~inPosition)
      PROVE  AlternateInv'
  <2>1. PICK n \in Nat : n = Len(signals)
    BY DEF AlternateInv
  <2>2. /\ signals' \in Seq(Sig) /\ Len(signals') = n + 1
        /\ \A i \in 1..n : signals'[i] = signals[i]
        /\ signals'[n + 1] = sig
    BY <1>2, <2>1, AppendSignal DEF AlternateInv, Emits
  <2>3. DOMAIN signals = 1..n /\ DOMAIN signals' = 1..(n + 1)
    BY <2>1, <2>2 DEF AlternateInv
  <2>4. LongSignalsAlternate'
    <3> SUFFICES ASSUME alg \in LongOnly PROVE LongSignalsAlternate'
      BY DEF LongSignalsAlternate
    <3>1. ASSUME NEW i \in 1..(n + 1), i > 1 PROVE signals'[i] # signals'[i - 1]
      <4>1. CASE i \in 1..n
        <5>1. i - 1 \in 1..n
          BY <3>1, <4>1
        <5>2. signals[i] # signals[i - 1]
          BY <2>3, <3>1, <4>1 DEF AlternateInv, LongSignalsAlternate
        <5> QED
          BY <2>2, <4>1, <5>1, <5>2
      <4>2. CASE i = n + 1
        <5>1. n \in 1..n /\ i - 1 = n
          BY <2>1, <3>1, <4>2
        <5>2. signals # << >> /\ signals[n] \in Sig
          BY <2>1, <5>1 DEF AlternateInv
        <5>3. last = signals[n] /\ (inPosition <=> last = "BUY")
          BY <2>1, <5>2 DEF AlternateInv, LongSignalsAlternate, Sig
        <5>4. sig # signals[n]
          BY <1>2, <5>2, <5>3 DEF Sig
        <5> QED
          BY <2>2, <4>2, <5>1, <5>4
      <4> QED
        BY <2>1, <3>1, <4>1, <4>2
    <3>2. last' = signals'[Len(signals')]
      BY <1>2, <2>2 DEF Emits
    <3>3. inPosition' <=> last' = "BUY"
      BY <1>2 DEF Emits, AlternateInv
    <3> QED
      BY <2>3, <3>1, <3>2, <3>3 DEF LongSignalsAlternate
  <2> QED
    BY <1>2, <2>2, <2>4 DEF AlternateInv
<1>3. CASE Opens
  <2>1. PICK sig \in Sig : Emits(sig) /\ (sig = "BUY" \/ alg \in ShortOpeners)
    BY <1>3 DEF Opens, Sig
  <2>2. alg \in LongOnly => sig = "BUY"
    BY <2>1 DEF LongOnly, ShortOpeners, Crossovers
  <2>3. inPosition' = ~inPosition /\ ~inPosition
    BY <1>3 DEF Opens
  <2> QED
    BY <1>2, <2>1, <2>2, <2>3
<1>4. CASE inPosition /\ inPosition' = FALSE /\ Emits("SELL")
  BY <1>2, <1>4 DEF Sig
<1> QED
  BY <1>1, <1>3, <1>4 DEF Moves

\* Every strategy decides by the common rule, or does not decide at all.
LEMMA StrategyMoves ==
  ASSUME AlternateInv, NEW t,
         \/ RSIMeanReversion(t) \/ MACDCrossover(t) \/ DualSMA(t) \/ MomentumBurst(t)
         \/ Supertrend(t) \/ VWAPBreakout(t) \/ TradeSizeSpike(t) \/ DeltaMomentum(t)
         \/ SpreadCompression(t) \/ VolatilityMomentum(t)
  PROVE  Moves
<1>0. inPosition \in BOOLEAN
  BY DEF AlternateInv
<1>1. ASSUME Hold PROVE Moves
  BY <1>1 DEF Moves
<1>2. ASSUME NEW was \in BOOLEAN, NEW is \in BOOLEAN, Crossing(was, is) PROVE Moves
  <2>1. (is /\ ~was) \in BOOLEAN /\ (was /\ ~is) \in BOOLEAN
    OBVIOUS
  <2>2. Decide(BuyIf(is /\ ~was), was /\ ~is)
    BY <1>2 DEF Crossing
  <2> QED
    BY <1>0, <2>1, <2>2, BuyIfMoves
<1>3. CASE RSIMeanReversion(t)
  <2>1. (t.rsi < mem.low) \in BOOLEAN /\ (t.rsi > mem.high) \in BOOLEAN
    OBVIOUS
  <2>2. Hold \/ Decide(BuyIf(t.rsi < mem.low), t.rsi > mem.high)
    BY <1>3 DEF RSIMeanReversion
  <2> QED
    BY <1>0, <1>1, <2>1, <2>2, BuyIfMoves
<1>4. CASE MACDCrossover(t)
  <2> DEFINE was == mem.macd > mem.signal
             is == mem'.macd > Ema(mem.signal, mem'.macd, P.signal)
  <2>1. was \in BOOLEAN /\ is \in BOOLEAN
    OBVIOUS
  <2>2. Hold \/ Crossing(was, is)
    BY <1>4 DEF MACDCrossover, Ignore
  <2> QED
    BY <1>1, <1>2, <2>1, <2>2
<1>5. CASE DualSMA(t)
  <2> DEFINE is == FastAbove(Newest(Append(mem.prices, t.price), P.slow))
  <2>1. (is /\ ~mem.above) \in BOOLEAN /\ (mem.above /\ ~is) \in BOOLEAN
    OBVIOUS
  <2>2. Hold \/ Decide(BuyIf(is /\ ~mem.above), mem.above /\ ~is)
    BY <1>5 DEF DualSMA, Ignore, Crossing
  <2> HIDE DEF is
  <2> QED
    BY <1>0, <1>1, <2>1, <2>2, BuyIfMoves
<1>6. CASE MomentumBurst(t)
  <2> DEFINE earliest == Head(BurstPrices(t)).price
             rises == 100 * (t.price - earliest) > P.percent * earliest
             falls(base) == 100 * (t.price - base) < -P.percent * base
             closes == falls(mem.entry) \/ falls(earliest)
  <2>1. rises \in BOOLEAN /\ closes \in BOOLEAN
    OBVIOUS
  <2>2. Hold \/ Decide(BuyIf(rises), closes)
    BY <1>6 DEF MomentumBurst, Ignore
  <2> HIDE DEF rises, closes
  <2> QED
    BY <1>0, <1>1, <2>1, <2>2, BuyIfMoves
<1>7. CASE Supertrend(t)
  <2> DEFINE buys == P.period * t.price > mem.upper
             closes == P.period * t.price < mem.lower
  <2>1. buys \in BOOLEAN /\ closes \in BOOLEAN
    OBVIOUS
  <2>2. Hold \/ Decide(BuyIf(buys), closes)
    BY <1>7 DEF Supertrend, Ignore
  <2> HIDE DEF buys, closes
  <2> QED
    BY <1>0, <1>1, <2>1, <2>2, BuyIfMoves
<1>8. CASE VWAPBreakout(t)
  <2> DEFINE change == 100 * (t.price - t.vwap)
             threshold == P.percent * t.vwap
             opening == IF change > threshold THEN "BUY"
                        ELSE IF change < -threshold THEN "SELL" ELSE "NONE"
             closes == 2 * Abs(change) < threshold
  <2>1. opening \in {"BUY", "SELL", "NONE"} /\ closes \in BOOLEAN
    OBVIOUS
  <2>2. (Hold \/ Decide(opening, closes)) /\ alg \in ShortOpeners
    BY <1>8 DEF VWAPBreakout, ShortOpeners
  <2> HIDE DEF opening, closes
  <2> QED
    BY <1>0, <1>1, <2>1, <2>2, ShortMoves
<1>9. CASE TradeSizeSpike(t)
  <2> DEFINE sizes == Newest(Append(mem.sizes, t.volume), P.window)
             scaled == P.window * t.volume
             opening == IF scaled <= P.multiplier * Sum(sizes) THEN "NONE"
                        ELSE IF t.buy THEN "BUY" ELSE "SELL"
             closes == 2 * scaled < 3 * Sum(sizes)
  <2>1. opening \in {"BUY", "SELL", "NONE"} /\ closes \in BOOLEAN
    OBVIOUS
  <2>2. (Hold \/ Decide(opening, closes)) /\ alg \in ShortOpeners
    BY <1>9 DEF TradeSizeSpike, ShortOpeners, Ignore
  <2> HIDE DEF opening, closes
  <2> QED
    BY <1>0, <1>1, <2>1, <2>2, ShortMoves
<1>10. CASE DeltaMomentum(t)
  <2> DEFINE was == Last(mem.deltas) > P.threshold
             is == (IF t.buy THEN mem.sum + t.volume ELSE mem.sum - t.volume) > P.threshold
  <2>1. was \in BOOLEAN /\ is \in BOOLEAN
    OBVIOUS
  <2>2. Hold \/ Crossing(was, is)
    BY <1>10 DEF DeltaMomentum
  <2> HIDE DEF was, is
  <2> QED
    BY <1>1, <1>2, <2>1, <2>2
<1>11. CASE SpreadCompression(t)
  <2> DEFINE spread == 20000 * (t.ask - t.bid)
             buys == spread < P.narrow * (t.ask + t.bid)
             closes == spread > P.wide * (t.ask + t.bid)
  <2>1. buys \in BOOLEAN /\ closes \in BOOLEAN
    OBVIOUS
  <2>2. Hold \/ Decide(BuyIf(buys), closes)
    BY <1>11 DEF SpreadCompression
  <2> HIDE DEF buys, closes
  <2> QED
    BY <1>0, <1>1, <2>1, <2>2, BuyIfMoves
<1>12. CASE VolatilityMomentum(t)
  <2> DEFINE before == Last(mem.prices)
             now == Return(t.price, before)
             returns == Newest(Append(mem.returns, now), P.lookback)
             sum == Sum(returns)
             variance == P.lookback * FoldLeft(LAMBDA x, y : x + y * y, 0, returns) - sum * sum
             calm == 4 * variance < sum * sum
             burst == P.lookback * now > P.burst * sum
             opening == IF ~(calm /\ burst) THEN "NONE"
                        ELSE IF t.price > before THEN "BUY" ELSE "SELL"
             closes == variance > 4 * sum * sum
  <2>2. (Hold \/ Decide(opening, closes)) /\ alg \in ShortOpeners
    BY <1>12 DEF VolatilityMomentum, ShortOpeners
  <2> HIDE DEF variance, sum, now, before, returns
  <2>1. opening \in {"BUY", "SELL", "NONE"} /\ closes \in BOOLEAN
    OBVIOUS
  <2> HIDE DEF opening, closes
  <2> QED
    BY <1>0, <1>1, <2>1, <2>2, ShortMoves
<1> QED
  BY <1>3, <1>4, <1>5, <1>6, <1>7, <1>8, <1>9, <1>10, <1>11, <1>12

LEMMA InitAlternateInv == AlgorithmsInit => AlternateInv
<1> SUFFICES ASSUME AlgorithmsInit PROVE AlternateInv
  OBVIOUS
<1>1. signals = << >> /\ last = "NONE" /\ inPosition = FALSE /\ alg \in Algorithms
  BY DEF AlgorithmsInit
<1>2. signals \in Seq(Sig) /\ DOMAIN signals = {}
  BY <1>1
<1>3. LongSignalsAlternate
  BY <1>1, <1>2 DEF LongSignalsAlternate
<1> QED
  BY <1>1, <1>2, <1>3 DEF AlternateInv

\* reset() and clear_signals() empty signals_, and what they leave of the rest is as
\* it was.
LEMMA ForgettingInv ==
  ASSUME AlternateInv, UNCHANGED <<alg, inPosition>>, signals' = << >> \/ UNCHANGED signals,
         UNCHANGED last \/ (last' = "NONE" /\ signals' = << >>)
  PROVE  AlternateInv'
<1>1. CASE signals' = << >>
  <2>1. signals' \in Seq(Sig) /\ DOMAIN signals' = {}
    BY <1>1
  <2>2. LongSignalsAlternate'
    BY <1>1, <2>1 DEF AlternateInv, LongSignalsAlternate
  <2> QED
    BY <2>1, <2>2 DEF AlternateInv
<1>2. CASE UNCHANGED signals /\ UNCHANGED last
  BY <1>2 DEF AlternateInv, LongSignalsAlternate
<1> QED
  BY <1>1, <1>2

\* The signals of an object and its position fit together throughout its life.
THEOREM AlternateInvariance == AlgorithmsSpec => []AlternateInv
<1>1. AlternateInv /\ [AlgorithmsNext]_algorithmVars => AlternateInv'
  <2> SUFFICES ASSUME AlternateInv, [AlgorithmsNext]_algorithmVars PROVE AlternateInv'
    OBVIOUS
  <2>1. ASSUME NEW t \in Offered(alg, feed), Update(t) PROVE AlternateInv'
    BY <2>1, StrategyMoves, MovesInv DEF Update
  <2>2. CASE Reset
    BY <2>2, ForgettingInv DEF Reset
  <2>3. CASE ClearSignals
    BY <2>3, ForgettingInv DEF ClearSignals
  <2>4. ASSUME NEW th \in Thresholds, Configure(th) PROVE AlternateInv'
    BY <2>4, ForgettingInv DEF Configure, out
  <2>5. CASE UNCHANGED algorithmVars
    BY <2>5, ForgettingInv DEF algorithmVars, out
  <2> QED
    BY <2>1, <2>2, <2>3, <2>4, <2>5 DEF AlgorithmsNext
<1> QED
  BY InitAlternateInv, <1>1, PTL DEF AlgorithmsSpec

\* emit_signal and in_position_ keep together in the seven strategies that only buy
\* to open: signals_ alternates, and last_signal_ tells whether there is a position.
THEOREM LongSignals == AlgorithmsSpec => []LongSignalsAlternate
<1>1. AlternateInv => LongSignalsAlternate
  BY DEF AlternateInv
<1> QED
  BY AlternateInvariance, <1>1, PTL

-----------------------------------------------------------------------------
(***************************************************************************)
(* Crossovers                                                              *)
(***************************************************************************)
Values(s) == {s[i] : i \in DOMAIN s}

\* What the two strategies that keep a comparison from tick to tick keep of it.
MemInv ==
  /\ alg = "sma" => DOMAIN mem = {"prices", "above"} /\ mem.above \in BOOLEAN
  /\ alg = "delta" => DOMAIN mem = {"deltas", "sum"} /\ mem.deltas \in Seq(Values(mem.deltas))

LEMMA MaxOfTwo ==
  ASSUME NEW a \in Int, NEW b \in Int
  PROVE  Max({a, b}) \in {a, b} /\ Max({a, b}) >= a /\ Max({a, b}) >= b
<1>1. \E x \in {a, b} : \A y \in {a, b} : x >= y
  <2>1. CASE a >= b
    BY <2>1
  <2>2. CASE ~(a >= b)
    BY <2>2
  <2> QED
    BY <2>1, <2>2
<1> QED
  BY <1>1 DEF Max

\* The newest entry of a deque that is cut to at least one entry is the one pushed.
LEMMA NewestPushed ==
  ASSUME NEW T, NEW s \in Seq(T), NEW x \in T, NEW n \in Nat, n >= 1,
         NEW newest, newest = Newest(Append(s, x), n)
  PROVE  newest \in Seq(T) /\ newest # << >> /\ Last(newest) = x
<1> DEFINE longer == Append(s, x)
           m == Len(longer)
           from == Max({1, m - n + 1})
           r == SubSeq(longer, from, m)
<1>1. longer \in Seq(T) /\ m \in Nat /\ m >= 1 /\ longer[m] = x
  OBVIOUS
<1> HIDE DEF longer, m
<1>2. from \in Nat /\ from >= 1 /\ from <= m
  <2>1. 1 \in Int /\ m - n + 1 \in Int
    BY <1>1
  <2>2. from \in {1, m - n + 1} /\ from >= 1 /\ from >= m - n + 1
    BY <2>1, MaxOfTwo
  <2> QED
    BY <1>1, <2>2
<1> HIDE DEF from
<1>3. r \in Seq(T) /\ Len(r) = m - from + 1 /\ r[m - from + 1] = longer[from + (m - from + 1) - 1]
  BY <1>1, <1>2 DEF m
<1>4. Len(r) >= 1 /\ r[Len(r)] = x
  BY <1>1, <1>2, <1>3
<1>5. newest = r
  BY DEF Newest, r, from, m, longer
<1>6. Last(r) = x /\ r # << >>
  <2> HIDE DEF r
  <2> QED
    BY <1>3, <1>4 DEF Last
<1> QED
  BY <1>3, <1>5, <1>6

LEMMA ValuesOfSeq ==
  ASSUME NEW T, NEW s \in Seq(T)
  PROVE  s \in Seq(Values(s))
BY DEF Values

\* A crossing is bought and sold unless it was missed.
LEMMA CrossingFollows ==
  ASSUME inPosition \in BOOLEAN, NEW was \in BOOLEAN, NEW is \in BOOLEAN, Crossing(was, is)
  PROVE  inPosition' = is \/ (inPosition' = inPosition /\ is = was)
BY DEF Crossing, Decide, BuyIf

LEMMA InitMemInv == AlgorithmsInit => MemInv
<1> SUFFICES ASSUME AlgorithmsInit PROVE MemInv
  OBVIOUS
<1>1. mem = Fresh[alg]
  BY DEF AlgorithmsInit
<1>2. CASE alg = "sma"
  BY <1>1, <1>2 DEF MemInv, Fresh
<1>3. CASE alg = "delta"
  <2>1. DOMAIN mem = {"deltas", "sum"} /\ mem.deltas = << >>
    BY <1>1, <1>3 DEF Fresh
  <2> QED
    BY <1>3, <2>1 DEF MemInv
<1> QED
  BY <1>2, <1>3 DEF MemInv

LEMMA SmaMem ==
  ASSUME MemInv, NEW t, alg = "sma", DualSMA(t), UNCHANGED alg
  PROVE  /\ MemInv'
         /\ \/ Hold /\ mem'.above = mem.above
            \/ Crossing(mem.above, mem'.above)
<1>1. DOMAIN mem = {"prices", "above"} /\ mem.above \in BOOLEAN
  BY DEF MemInv
<1>2. CASE Ignore
  BY <1>1, <1>2 DEF Ignore, MemInv
<1> DEFINE prices == Newest(Append(mem.prices, t.price), P.slow)
<1>3. CASE mem' = [mem EXCEPT !.prices = prices] /\ Hold
  <2>1. DOMAIN mem' = {"prices", "above"} /\ mem'.above = mem.above
    BY <1>1, <1>3
  <2> QED
    BY <1>1, <1>3, <2>1 DEF MemInv
<1>4. CASE mem' = [prices |-> prices, above |-> FastAbove(prices)] /\ Crossing(mem.above, FastAbove(prices))
  <2>1. FastAbove(prices) \in BOOLEAN
    BY DEF FastAbove
  <2> HIDE DEF prices
  <2>2. DOMAIN mem' = {"prices", "above"} /\ mem'.above = FastAbove(prices)
    BY <1>4
  <2>3. MemInv'
    BY <2>1, <2>2 DEF MemInv
  <2> QED
    BY <1>4, <2>2, <2>3
<1> QED
  BY <1>2, <1>3, <1>4 DEF DualSMA

LEMMA DeltaMem ==
  ASSUME MemInv, NEW t, alg = "delta", DeltaMomentum(t), UNCHANGED alg
  PROVE  /\ MemInv' /\ mem'.deltas # << >>
         /\ mem.deltas # << >> =>
              Crossing(Last(mem.deltas) > P.threshold, Last(mem'.deltas) > P.threshold)
<1> DEFINE sum == IF t.buy THEN mem.sum + t.volume ELSE mem.sum - t.volume
           T == Values(mem.deltas) \cup {sum}
<1>1. mem' = [sum |-> sum, deltas |-> Newest(Append(mem.deltas, sum), P.window)]
  BY DEF DeltaMomentum
<1>2. mem.deltas # << >> => Crossing(Last(mem.deltas) > P.threshold, sum > P.threshold)
  BY DEF DeltaMomentum
<1>3. P.window \in Nat /\ P.window >= 1
  BY AlgorithmsAssumption DEF P
<1>4. mem.deltas \in Seq(T) /\ sum \in T
  BY DEF MemInv
<1>5. DOMAIN mem' = {"deltas", "sum"} /\ mem'.deltas = Newest(Append(mem.deltas, sum), P.window)
  BY <1>1
<1> HIDE DEF sum, T
<1>6. mem'.deltas \in Seq(T) /\ mem'.deltas # << >> /\ Last(mem'.deltas) = sum
  <2> DEFINE n == P.window
             d == mem.deltas
             newest == mem'.deltas
  <2>1. n \in Nat /\ n >= 1 /\ d \in Seq(T) /\ sum \in T /\ newest = Newest(Append(d, sum), n)
    BY <1>3, <1>4, <1>5
  <2> HIDE DEF n, d, newest
  <2>2. newest \in Seq(T) /\ newest # << >> /\ Last(newest) = sum
    BY <2>1, NewestPushed
  <2> QED
    BY <2>2 DEF newest
<1>7. mem'.deltas \in Seq(Values(mem'.deltas))
  BY <1>6, ValuesOfSeq
<1>8. MemInv'
  BY <1>5, <1>7 DEF MemInv
<1> QED
  BY <1>2, <1>6, <1>8

LEMMA ResetMem == ASSUME MemInv, Reset PROVE MemInv'
<1>1. /\ alg' = alg /\ DOMAIN mem' = DOMAIN mem
      /\ \A m \in DOMAIN mem : mem'[m] = IF m \in Cleared[alg] THEN Fresh[alg][m] ELSE mem[m]
  BY DEF Reset
<1>2. CASE alg = "sma"
  <2>1. Cleared[alg] = {"prices"}
    BY <1>2 DEF Cleared
  <2>2. mem'.above = mem.above
    BY <1>1, <1>2, <2>1 DEF MemInv
  <2> QED
    BY <1>1, <1>2, <2>2 DEF MemInv
<1>3. CASE alg = "delta"
  <2>1. Cleared[alg] = {"deltas"} /\ Fresh[alg].deltas = << >>
    BY <1>3 DEF Cleared, Fresh
  <2>2. mem'.deltas = << >>
    BY <1>1, <1>3, <2>1 DEF MemInv
  <2> QED
    BY <1>1, <1>3, <2>2 DEF MemInv
<1> QED
  BY <1>1, <1>2, <1>3 DEF MemInv

\* An object runs the rule of its own strategy.
LEMMA OwnStrategy ==
  ASSUME NEW t, Update(t)
  PROVE  /\ alg = "macd" => MACDCrossover(t)
         /\ alg = "sma" => DualSMA(t)
         /\ alg = "delta" => DeltaMomentum(t)
         /\ alg = "spike" => TradeSizeSpike(t)
         /\ alg = "burst" => MomentumBurst(t)
         /\ alg = "trend" => Supertrend(t)
<1>1. RSIMeanReversion(t) => alg = "rsi"
  BY DEF RSIMeanReversion
<1>2. MACDCrossover(t) => alg = "macd"
  BY DEF MACDCrossover
<1>3. DualSMA(t) => alg = "sma"
  BY DEF DualSMA
<1>4. MomentumBurst(t) => alg = "burst"
  BY DEF MomentumBurst
<1>5. Supertrend(t) => alg = "trend"
  BY DEF Supertrend
<1>6. VWAPBreakout(t) => alg = "vwap"
  BY DEF VWAPBreakout
<1>7. TradeSizeSpike(t) => alg = "spike"
  BY DEF TradeSizeSpike
<1>8. DeltaMomentum(t) => alg = "delta"
  BY DEF DeltaMomentum
<1>9. SpreadCompression(t) => alg = "spread"
  BY DEF SpreadCompression
<1>10. VolatilityMomentum(t) => alg = "volatility"
  BY DEF VolatilityMomentum
<1> QED
  BY <1>1, <1>2, <1>3, <1>4, <1>5, <1>6, <1>7, <1>8, <1>9, <1>10 DEF Update

\* What a crossover strategy remembers of its lines stays well formed.
THEOREM MemInvariance == AlgorithmsSpec => []MemInv
<1>1. MemInv /\ [AlgorithmsNext]_algorithmVars => MemInv'
  <2> SUFFICES ASSUME MemInv, [AlgorithmsNext]_algorithmVars PROVE MemInv'
    OBVIOUS
  <2>1. ASSUME UNCHANGED <<alg, mem>> PROVE MemInv'
    BY <2>1 DEF MemInv
  <2>2. ASSUME NEW t \in Offered(alg, feed), Update(t) PROVE MemInv'
    <3>1. alg' = alg
      BY <2>2 DEF Update
    <3>2. CASE alg = "sma"
      <4>1. DualSMA(t)
        BY <2>2, <3>2, OwnStrategy
      <4> QED
        BY <3>1, <3>2, <4>1, SmaMem
    <3>3. CASE alg = "delta"
      <4>1. DeltaMomentum(t)
        BY <2>2, <3>3, OwnStrategy
      <4> QED
        BY <3>1, <3>3, <4>1, DeltaMem
    <3> QED
      BY <3>1, <3>2, <3>3 DEF MemInv
  <2>3. ASSUME NEW th \in Thresholds, Configure(th) PROVE MemInv'
    BY <2>3 DEF Configure, MemInv
  <2> QED
    BY <2>1, <2>2, <2>3, ResetMem DEF AlgorithmsNext, ClearSignals, algorithmVars
<1> QED
  BY InitMemInv, <1>1, PTL DEF AlgorithmsSpec

Follows ==
  (alg \in Crossovers /\ Compares /\ feed' # feed)
     => \/ inPosition' = Above'
        \/ inPosition' = inPosition /\ Above' = Above

LEMMA TickFollows ==
  ASSUME inPosition \in BOOLEAN, MemInv, NEW t, Update(t)
  PROVE  Follows
<1> SUFFICES ASSUME alg \in Crossovers, Compares
             PROVE  inPosition' = Above' \/ (inPosition' = inPosition /\ Above' = Above)
  BY DEF Follows
<1>1. alg' = alg
  BY DEF Update
<1>2. CASE alg = "macd"
  <2> DEFINE was == mem.macd > mem.signal
             is == mem'.macd > mem'.signal
  <2>1. MACDCrossover(t)
    BY <1>2, OwnStrategy
  <2>2. mem.fast # 0
    BY <1>2 DEF Compares
  <2>3. Above = was /\ Above' = is
    BY <1>1, <1>2 DEF Above
  <2>4. CASE Ignore
    BY <2>3, <2>4 DEF Ignore, Hold, out
  <2>5. CASE ~Ignore
    <3>1. mem' = MacdMemory(t.price) /\ Crossing(was, mem'.macd > Ema(mem.signal, mem'.macd, P.signal))
      BY <2>1, <2>2, <2>5 DEF MACDCrossover
    <3>2. mem'.signal = Ema(mem.signal, mem'.macd, P.signal)
      BY <2>2, <3>1 DEF MacdMemory
    <3>3. Crossing(was, is)
      BY <3>1, <3>2
    <3>4. was \in BOOLEAN /\ is \in BOOLEAN
      OBVIOUS
    <3> HIDE DEF was, is
    <3> QED
      BY <2>3, <3>3, <3>4, CrossingFollows
  <2> QED
    BY <2>4, <2>5
<1>3. CASE alg = "sma"
  <2>1. DualSMA(t)
    BY <1>3, OwnStrategy
  <2>2. /\ MemInv'
        /\ (Hold /\ mem'.above = mem.above) \/ Crossing(mem.above, mem'.above)
    BY <1>1, <1>3, <2>1, SmaMem
  <2>3. Above = mem.above /\ Above' = mem'.above
    BY <1>1, <1>3 DEF Above
  <2>4. mem.above \in BOOLEAN /\ mem'.above \in BOOLEAN
    BY <1>1, <1>3, <2>2 DEF MemInv
  <2>5. CASE Hold /\ mem'.above = mem.above
    BY <2>3, <2>5 DEF Hold, out
  <2>6. CASE Crossing(mem.above, mem'.above)
    BY <2>3, <2>4, <2>6, CrossingFollows
  <2> QED
    BY <2>2, <2>5, <2>6
<1>4. CASE alg = "delta"
  <2> DEFINE was == Last(mem.deltas) > P.threshold
             is == Last(mem'.deltas) > P.threshold
  <2>1. DeltaMomentum(t)
    BY <1>4, OwnStrategy
  <2>2. mem.deltas # << >>
    BY <1>4 DEF Compares
  <2>3. Crossing(was, is) /\ mem'.deltas # << >>
    BY <1>1, <1>4, <2>1, <2>2, DeltaMem
  <2>4. Above = was /\ Above' = is
    BY <1>1, <1>4, <2>2, <2>3 DEF Above, P
  <2>5. was \in BOOLEAN /\ is \in BOOLEAN
    OBVIOUS
  <2> HIDE DEF was, is
  <2> QED
    BY <2>3, <2>4, <2>5, CrossingFollows
<1> QED
  BY <1>2, <1>3, <1>4 DEF Crossovers

\* Of MACD, the two averages and the delta: after each tick that compares, either
\* in_position_ is what the lines say, or neither has moved.
THEOREM CrossoverFollows == AlgorithmsSpec => PositionFollowsIndicator
<1>1. AlternateInv /\ MemInv /\ [AlgorithmsNext]_algorithmVars => [Follows]_algorithmVars
  <2> SUFFICES ASSUME AlternateInv, MemInv, AlgorithmsNext PROVE Follows
    OBVIOUS
  <2>1. inPosition \in BOOLEAN
    BY DEF AlternateInv
  <2>2. ASSUME UNCHANGED feed PROVE Follows
    BY <2>2 DEF Follows
  <2>3. CASE \E t \in Offered(alg, feed) : Update(t)
    BY <2>1, <2>3, TickFollows
  <2>4. CASE Reset \/ ClearSignals \/ \E th \in Thresholds : Configure(th)
    BY <2>2, <2>4 DEF Reset, ClearSignals, Configure
  <2> QED
    BY <2>3, <2>4 DEF AlgorithmsNext
<1>2. AlgorithmsSpec => [][Follows]_algorithmVars
  BY AlternateInvariance, MemInvariance, <1>1, PTL DEF AlgorithmsSpec
<1> QED
  BY <1>2 DEF PositionFollowsIndicator, Follows
-----------------------------------------------------------------------------
(***************************************************************************)
(* Indices in their order                                                  *)
(***************************************************************************)
\* w lists the elements of I from the smallest to the largest.
Lists(w, I) ==
  /\ w \in Seq(I)
  /\ \A k, m \in 1..Len(w) : k < m => w[k] < w[m]
  /\ \A i \in I : \E k \in 1..Len(w) : w[k] = i

LEMMA ListedTypes ==
  ASSUME NEW I \in SUBSET Nat, NEW w, Lists(w, I)
  PROVE  Len(w) \in Nat /\ \A k \in 1..Len(w) : w[k] \in I /\ w[k] \in Nat /\ k \in Nat
<1>1. w \in Seq(I)
  BY DEF Lists
<1>2. Len(w) \in Nat /\ \A k \in 1..Len(w) : w[k] \in I
  BY <1>1
<1>3. \A k \in 1..Len(w) : k \in Nat
  BY <1>2
<1>4. \A k \in 1..Len(w) : w[k] \in Nat
  BY <1>2
<1> QED BY <1>2, <1>3, <1>4

LEMMA ListedSize ==
  ASSUME NEW I \in SUBSET Nat, NEW w, Lists(w, I)
  PROVE  IsFiniteSet(I) /\ Cardinality(I) = Len(w)
<1> DEFINE D == 1..Len(w)
<1>1. w \in Seq(I) /\ Len(w) \in Nat /\ w \in [D -> I]
  BY DEF Lists
<1>2. ASSUME NEW k \in D, NEW m \in D, w[k] = w[m] PROVE k = m
  <2>1. k \in Nat /\ m \in Nat /\ w[k] \in Nat
    BY ListedTypes
  <2>2. ~(k < m) /\ ~(m < k)
    BY <1>2, <2>1 DEF Lists
  <2> QED BY <2>1, <2>2
<1>3. w \in Bijection(D, I)
  <2>1. w \in Injection(D, I)
    BY <1>1, <1>2 DEF Injection, IsInjective
  <2>2. w \in Surjection(D, I)
    <3>1. \A i \in I : \E k \in D : w[k] = i
      BY DEF Lists
    <3> QED BY <1>1, <3>1 DEF Surjection
  <2> QED BY <2>1, <2>2 DEF Bijection
<1>4. ExistsBijection(D, I)
  BY <1>3 DEF ExistsBijection
<1>5. Cardinality(I) = Len(w)
  BY <1>1, <1>4, FS_CountingElements
<1>6. IsFiniteSet(I)
  BY <1>1, <1>4, FS_NatBijection
<1> QED BY <1>5, <1>6

\* The elements of J are those from index a to index b of w.
Spans(J, w, a, b) == \A i : i \in J <=> \E k \in a..b : w[k] = i

\* So do parts of the list for parts of the set.
LEMMA ListedPart ==
  ASSUME NEW I \in SUBSET Nat, NEW w, Lists(w, I), NEW a \in Nat, NEW b \in Nat,
         a >= 1, a <= b + 1, b <= Len(w), NEW J, Spans(J, w, a, b)
  PROVE  Lists(SubSeq(w, a, b), J)
<1> DEFINE v == SubSeq(w, a, b)
<1>1. w \in Seq(I) /\ Len(w) \in Nat
  BY DEF Lists
<1>2. /\ v \in Seq(I) /\ Len(v) = b - a + 1 /\ Len(v) \in Nat
      /\ \A k \in 1..Len(v) : v[k] = w[a + k - 1]
  BY <1>1
<1> HIDE DEF v
<1>3. \A k \in 1..Len(v) : a + k - 1 \in a..b /\ a + k - 1 \in 1..Len(w)
  BY <1>1, <1>2
<1>4. \A k \in 1..Len(v) : v[k] \in J
  BY <1>2, <1>3 DEF Spans
<1>5. v \in Seq(J)
  <2>1. v \in [1..Len(v) -> J]
    BY <1>2, <1>4
  <2> QED BY <1>2, <2>1
<1>6. ASSUME NEW k \in 1..Len(v), NEW m \in 1..Len(v), k < m PROVE v[k] < v[m]
  <2>1. a + k - 1 < a + m - 1
    BY <1>6
  <2>2. w[a + k - 1] < w[a + m - 1]
    BY <1>3, <2>1 DEF Lists
  <2> QED BY <1>2, <2>2
<1>7. ASSUME NEW i \in J PROVE \E k \in 1..Len(v) : v[k] = i
  <2>1. PICK k \in a..b : w[k] = i
    BY DEF Spans
  <2>2. k - a + 1 \in 1..Len(v) /\ a + (k - a + 1) - 1 = k
    BY <1>2, <2>1
  <2> QED BY <1>2, <2>1, <2>2
<1> QED BY <1>5, <1>6, <1>7 DEF Lists, v

LEMMA ListedRanks ==
  ASSUME NEW I \in SUBSET Nat, NEW w, Lists(w, I), NEW k \in 1..Len(w)
  PROVE  /\ Cardinality({j \in I : j < w[k]}) = k - 1
         /\ Cardinality({j \in I : j > w[k]}) = Len(w) - k
<1> DEFINE n == Len(w)
           Lower == {j \in I : j < w[k]}
           Higher == {j \in I : j > w[k]}
<1>1. w \in Seq(I) /\ n \in Nat /\ k \in Nat /\ k >= 1 /\ k <= n
  BY DEF Lists
<1>2. \A m \in 1..n : w[m] \in I /\ w[m] \in Nat
  BY ListedTypes
<1>3. \A m \in 1..n : (m < k => w[m] < w[k]) /\ (m > k => w[m] > w[k])
  <2> TAKE m \in 1..n
  <2>1. m < k => w[m] < w[k]
    BY DEF Lists
  <2>2. k < m => w[k] < w[m]
    BY DEF Lists
  <2> QED BY <1>1, <1>2, <2>1, <2>2
<1>4. \A m \in 1..n : (w[m] < w[k] <=> m < k) /\ (w[m] > w[k] <=> m > k)
  <2> TAKE m \in 1..n
  <2>1. m < k \/ m = k \/ m > k
    BY <1>1
  <2>2. w[m] \in Nat /\ w[k] \in Nat
    BY <1>2
  <2>3. (m < k => w[m] < w[k]) /\ (m > k => w[m] > w[k])
    BY <1>3
  <2> QED BY <1>1, <2>1, <2>2, <2>3
<1>5. \A i \in I : \E m \in 1..n : w[m] = i
  BY DEF Lists
<1> HIDE DEF n
<1>6. Spans(Lower, w, 1, k - 1)
  <2>1. \A m \in 1..(k - 1) : m \in 1..n /\ m < k
    BY <1>1
  <2>2. \A m \in 1..n : m < k => m \in 1..(k - 1)
    BY <1>1
  <2> QED BY <1>2, <1>4, <1>5, <2>1, <2>2 DEF Spans
<1>7. Spans(Higher, w, k + 1, n)
  <2>1. \A m \in (k + 1)..n : m \in 1..n /\ m > k
    BY <1>1
  <2>2. \A m \in 1..n : m > k => m \in (k + 1)..n
    BY <1>1
  <2> QED BY <1>2, <1>4, <1>5, <2>1, <2>2 DEF Spans
<1> HIDE DEF Lower, Higher
<1>8. Lists(SubSeq(w, 1, k - 1), Lower) /\ Lists(SubSeq(w, k + 1, n), Higher)
  <2>1. 1 \in Nat /\ k - 1 \in Nat /\ 1 >= 1 /\ 1 <= (k - 1) + 1 /\ k - 1 <= n
    BY <1>1
  <2>2. k + 1 \in Nat /\ k + 1 >= 1 /\ k + 1 <= n + 1 /\ n <= n
    BY <1>1
  <2>3. Lists(SubSeq(w, 1, k - 1), Lower)
    BY <1>6, <2>1, ListedPart DEF n
  <2>4. Lists(SubSeq(w, k + 1, n), Higher)
    BY <1>1, <1>7, <2>2, ListedPart DEF n
  <2> QED BY <2>3, <2>4
<1>9. Lower \in SUBSET Nat /\ Higher \in SUBSET Nat
  BY DEF Lower, Higher
<1>10. Cardinality(Lower) = Len(SubSeq(w, 1, k - 1)) /\ Cardinality(Higher) = Len(SubSeq(w, k + 1, n))
  BY <1>8, <1>9, ListedSize
<1>11. Len(SubSeq(w, 1, k - 1)) = k - 1 /\ Len(SubSeq(w, k + 1, n)) = n - k
  BY <1>1
<1> QED BY <1>10, <1>11 DEF Lower, Higher, n

\* The list determines Nth and InOrder.
LEMMA NthListed ==
  ASSUME NEW I \in SUBSET Nat, NEW w, Lists(w, I), NEW k \in 1..Len(w)
  PROVE  Nth(I, k) = w[k]
<1> DEFINE Rank(i) == Cardinality({j \in I : j < i})
<1>1. \A m \in 1..Len(w) : Rank(w[m]) = m - 1 /\ w[m] \in I
  BY ListedRanks, ListedTypes
<1>2. ASSUME NEW i \in I, Rank(i) = k - 1 PROVE i = w[k]
  <2>1. PICK m \in 1..Len(w) : w[m] = i
    BY DEF Lists
  <2>2. Rank(w[m]) = m - 1
    BY <1>1
  <2>3. m - 1 = k - 1
    BY <1>2, <2>1, <2>2
  <2>4. m = k
    BY <2>3
  <2> QED BY <2>1, <2>4
<1>3. w[k] \in I /\ Rank(w[k]) = k - 1
  BY <1>1
<1>4. Nth(I, k) = CHOOSE i \in I : Rank(i) = k - 1
  BY DEF Nth
<1> HIDE DEF Rank
<1> QED BY <1>2, <1>3, <1>4

Mapped(w, f) == [k \in 1..Len(w) |-> f[w[k]]]

\* f and g have the same values at the indices of I.
Alike(f, g, I) == \A i \in I : g[i] = f[i]

LEMMA InOrderListed ==
  ASSUME NEW I \in SUBSET Nat, NEW w, Lists(w, I), NEW f
  PROVE  InOrder(I, f) = Mapped(w, f)
BY ListedSize, NthListed DEF InOrder, Mapped

\* A larger index goes to the end of the list.
LEMMA ListedAppend ==
  ASSUME NEW I \in SUBSET Nat, NEW w, Lists(w, I), NEW n \in Nat, \A i \in I : i < n
  PROVE  Lists(Append(w, n), I \cup {n})
<1> DEFINE v == Append(w, n)
           J == I \cup {n}
<1>1. w \in Seq(I) /\ Len(w) \in Nat /\ w \in Seq(J) /\ n \in J
  BY DEF Lists
<1>2. /\ v \in Seq(J) /\ Len(v) = Len(w) + 1 /\ v[Len(w) + 1] = n
      /\ \A k \in 1..Len(w) : v[k] = w[k]
  BY <1>1
<1>3. \A k \in 1..Len(v) : k \in 1..Len(w) \/ k = Len(w) + 1
  BY <1>1, <1>2
<1>4. \A k \in 1..Len(w) : w[k] < n /\ k \in 1..Len(v)
  BY <1>2, ListedTypes
<1> HIDE DEF v
<1>5. ASSUME NEW k \in 1..Len(v), NEW m \in 1..Len(v), k < m PROVE v[k] < v[m]
  <2>1. k \in 1..Len(w)
    BY <1>1, <1>2, <1>5
  <2>2. CASE m \in 1..Len(w)
    BY <1>2, <1>5, <2>1, <2>2 DEF Lists
  <2>3. CASE m = Len(w) + 1
    BY <1>2, <1>4, <2>1, <2>3
  <2> QED BY <1>3, <2>2, <2>3
<1>6. ASSUME NEW i \in J PROVE \E k \in 1..Len(v) : v[k] = i
  <2>1. CASE i \in I
    <3>1. PICK k \in 1..Len(w) : w[k] = i
      BY <2>1 DEF Lists
    <3> QED BY <1>2, <1>4, <3>1
  <2>2. CASE i = n
    BY <1>1, <1>2, <2>2
  <2> QED BY <2>1, <2>2
<1> QED BY <1>2, <1>5, <1>6 DEF Lists, v

LEMMA ListedNone == Lists(<< >>, {})
BY DEF Lists

\* Induction without an operator: a set of naturals with 0 and every successor.
LEMMA NaturalsFrom0 ==
  ASSUME NEW S \in SUBSET Nat, 0 \in S, \A n \in S : n + 1 \in S
  PROVE  S = Nat
<1> SUFFICES ASSUME Nat \ S # {} PROVE FALSE
  OBVIOUS
<1>1. IsWellFoundedOn(OpToRel(<, Nat), Nat)
  BY NatLessThanWellFounded
<1>2. PICK m \in Nat \ S : \A x \in Nat \ S : <<x, m>> \notin OpToRel(<, Nat)
  BY <1>1, WFMin
<1>3. m # 0 /\ m \in Nat
  OBVIOUS
<1>4. m - 1 \in Nat /\ (m - 1) + 1 = m /\ m - 1 < m
  BY <1>3
<1>5. m - 1 \in Nat \ S
  BY <1>3, <1>4
<1>6. <<m - 1, m>> \in Nat \X Nat /\ <<m - 1, m>>[1] < <<m - 1, m>>[2]
  BY <1>4
<1>7. <<m - 1, m>> \in OpToRel(<, Nat)
  BY <1>6 DEF OpToRel
<1> QED BY <1>2, <1>5, <1>7

\* Every set of indices can be listed.
LEMMA ListExists ==
  ASSUME NEW n \in Nat, NEW I \in SUBSET (1..n)
  PROVE  \E w : Lists(w, I)
<1> DEFINE Good == {m \in Nat : \A J \in SUBSET (1..m) : \E w : Lists(w, J)}
<1>1. 0 \in Good
  <2>1. \A J \in SUBSET (1..0) : J = {}
    OBVIOUS
  <2> QED BY <2>1, ListedNone
<1>2. ASSUME NEW m \in Good PROVE m + 1 \in Good
  <2> SUFFICES ASSUME NEW J \in SUBSET (1..(m + 1)) PROVE \E w : Lists(w, J)
    OBVIOUS
  <2>0. m \in Nat
    OBVIOUS
  <2> DEFINE K == J \ {m + 1}
  <2>1. K \in SUBSET (1..m) /\ K \in SUBSET Nat /\ \A i \in K : i < m + 1
    BY <2>0
  <2>2. PICK w : Lists(w, K)
    BY <2>1
  <2>3. CASE m + 1 \in J
    <3>1. K \cup {m + 1} = J
      BY <2>3
    <3> HIDE DEF K
    <3> QED BY <2>0, <2>1, <2>2, <3>1, ListedAppend
  <2>4. CASE m + 1 \notin J
    BY <2>2, <2>4
  <2> QED BY <2>3, <2>4
<1>3. Good = Nat
  <2> HIDE DEF Good
  <2> QED BY <1>1, <1>2, NaturalsFrom0 DEF Good
<1> QED BY <1>3
-----------------------------------------------------------------------------
(***************************************************************************)
(* Windows                                                                 *)
(***************************************************************************)
LEMMA NewestIs ==
  ASSUME NEW T, NEW h \in Seq(T), NEW s \in Nat
  PROVE  \E a \in Nat : /\ a >= 1 /\ a <= Len(h) + 1 /\ a >= Len(h) - s + 1
                        /\ a = 1 \/ a = Len(h) - s + 1
                        /\ Newest(h, s) = SubSeq(h, a, Len(h))
<1> DEFINE n == Len(h)
           a == Max({1, n - s + 1})
<1>1. n \in Nat
  OBVIOUS
<1>2. Newest(h, s) = SubSeq(h, a, n)
  BY DEF Newest
<1> HIDE DEF n
<1>3. 1 \in Int /\ n - s + 1 \in Int
  BY <1>1
<1>4. a \in {1, n - s + 1} /\ a >= 1 /\ a >= n - s + 1
  BY <1>3, MaxOfTwo
<1> HIDE DEF a
<1>5. a \in Nat /\ a <= n + 1
  BY <1>1, <1>4
<1> QED BY <1>2, <1>4, <1>5 DEF n

LEMMA LastListed ==
  ASSUME NEW I \in SUBSET Nat, NEW w, Lists(w, I), NEW s \in Nat
  PROVE  Lists(Newest(w, s), LastOf(I, s))
<1> DEFINE n == Len(w)
<1>1. w \in Seq(I)
  BY DEF Lists
<1>2. n \in Nat
  BY ListedTypes
<1>3. PICK a \in Nat : /\ a >= 1 /\ a <= n + 1 /\ a >= n - s + 1
                       /\ a = 1 \/ a = n - s + 1
                       /\ Newest(w, s) = SubSeq(w, a, n)
  BY <1>1, NewestIs
<1>4. \A k \in 1..n : Cardinality({j \in I : j > w[k]}) = n - k
  BY ListedRanks
<1>5. \A k \in 1..n : w[k] \in LastOf(I, s) <=> k \in a..n
  <2> TAKE k \in 1..n
  <2>1. w[k] \in I
    BY ListedTypes
  <2>2. w[k] \in LastOf(I, s) <=> n - k < s
    BY <1>4, <2>1 DEF LastOf
  <2>3. n - k < s <=> k \in a..n
    BY <1>2, <1>3
  <2> QED BY <2>2, <2>3
<1>6. \A i \in LastOf(I, s) : \E k \in 1..n : w[k] = i
  BY DEF LastOf, Lists
<1>7. \A k \in a..n : k \in 1..n
  BY <1>2, <1>3
<1>8. Spans(LastOf(I, s), w, a, n)
  <2> HIDE DEF n
  <2> QED BY <1>5, <1>6, <1>7 DEF Spans
<1>9. Lists(SubSeq(w, a, n), LastOf(I, s))
  <2>1. a <= n + 1 /\ n <= Len(w) /\ n \in Nat /\ a >= 1
    BY <1>2, <1>3
  <2> QED BY <1>8, <2>1, ListedPart
<1> QED BY <1>3, <1>9

\* Cutting a deque at every push or once at the end is the same.
LEMMA NewestAgain ==
  ASSUME NEW T, NEW h \in Seq(T), NEW x \in T, NEW s \in Nat
  PROVE  Newest(Append(Newest(h, s), x), s) = Newest(Append(h, x), s)
<1>1. PICK n \in Nat : n = Len(h)
  OBVIOUS
<1>2. PICK a \in Nat : /\ a >= 1 /\ a <= n + 1 /\ a >= n - s + 1
                       /\ a = 1 \/ a = n - s + 1
                       /\ Newest(h, s) = SubSeq(h, a, n)
  BY <1>1, NewestIs
<1>3. PICK u : u = SubSeq(h, a, n)
  OBVIOUS
<1>4. u \in Seq(T) /\ Len(u) = n - a + 1 /\ \A k \in 1..Len(u) : u[k] = h[a + k - 1]
  BY <1>1, <1>2, <1>3
<1>5. PICK p : p = Append(u, x)
  OBVIOUS
<1>6. p \in Seq(T) /\ Len(p) = n - a + 2
  BY <1>1, <1>2, <1>4, <1>5
<1>7. \A k \in 1..(n - a + 2) : p[k] = IF k = n - a + 2 THEN x ELSE h[a + k - 1]
  <2> TAKE k \in 1..(n - a + 2)
  <2>0. n - a + 1 \in Nat
    BY <1>2
  <2>1. k = (n - a + 1) + 1 \/ k \in 1..(n - a + 1)
    BY <2>0
  <2> QED BY <1>2, <1>4, <1>5, <2>1
<1>8. PICK q : q = Append(h, x)
  OBVIOUS
<1>9. q \in Seq(T) /\ Len(q) = n + 1
  BY <1>1, <1>8
<1>10. \A k \in 1..(n + 1) : q[k] = IF k = n + 1 THEN x ELSE h[k]
  BY <1>1, <1>8
<1>11. PICK b \in Nat : /\ b >= 1 /\ b <= (n - a + 2) + 1 /\ b >= (n - a + 2) - s + 1
                        /\ b = 1 \/ b = (n - a + 2) - s + 1
                        /\ Newest(p, s) = SubSeq(p, b, n - a + 2)
  <2>1. \E b \in Nat : /\ b >= 1 /\ b <= Len(p) + 1 /\ b >= Len(p) - s + 1
                       /\ b = 1 \/ b = Len(p) - s + 1
                       /\ Newest(p, s) = SubSeq(p, b, Len(p))
    BY <1>6, NewestIs
  <2> QED BY <1>6, <2>1
<1>12. PICK c \in Nat : /\ c >= 1 /\ c <= (n + 1) + 1 /\ c >= (n + 1) - s + 1
                        /\ c = 1 \/ c = (n + 1) - s + 1
                        /\ Newest(q, s) = SubSeq(q, c, n + 1)
  <2>1. \E c \in Nat : /\ c >= 1 /\ c <= Len(q) + 1 /\ c >= Len(q) - s + 1
                       /\ c = 1 \/ c = Len(q) - s + 1
                       /\ Newest(q, s) = SubSeq(q, c, Len(q))
    BY <1>9, NewestIs
  <2> QED BY <1>9, <2>1
<1>13. a + b - 1 = c
  BY <1>2, <1>11, <1>12
<1>14. PICK r : r = SubSeq(p, b, n - a + 2)
  OBVIOUS
<1>15. /\ r \in Seq(T) /\ Len(r) = n - c + 2
       /\ \A k \in 1..(n - c + 2) : r[k] = p[b + k - 1] /\ b + k - 1 \in 1..(n - a + 2)
  BY <1>2, <1>6, <1>11, <1>12, <1>13, <1>14
<1>16. PICK t : t = SubSeq(q, c, n + 1)
  OBVIOUS
<1>17. /\ t \in Seq(T) /\ Len(t) = n - c + 2
       /\ \A k \in 1..(n - c + 2) : t[k] = q[c + k - 1] /\ c + k - 1 \in 1..(n + 1)
  BY <1>9, <1>12, <1>16
<1>18. \A k \in 1..(n - c + 2) : r[k] = t[k]
  <2> TAKE k \in 1..(n - c + 2)
  <2>1. r[k] = p[b + k - 1] /\ b + k - 1 \in 1..(n - a + 2)
    BY <1>15
  <2>2. t[k] = q[c + k - 1] /\ c + k - 1 \in 1..(n + 1)
    BY <1>17
  <2>3. k \in Nat /\ a + (b + k - 1) - 1 = c + k - 1 /\ (b + k - 1 = n - a + 2 <=> c + k - 1 = n + 1)
    BY <1>2, <1>11, <1>12, <1>13
  <2>4. p[b + k - 1] = IF b + k - 1 = n - a + 2 THEN x ELSE h[a + (b + k - 1) - 1]
    BY <1>7, <2>1
  <2>5. q[c + k - 1] = IF c + k - 1 = n + 1 THEN x ELSE h[c + k - 1]
    BY <1>10, <2>2
  <2> QED BY <2>1, <2>2, <2>3, <2>4, <2>5
<1>19. r = t
  BY <1>12, <1>15, <1>17, <1>18
<1> QED BY <1>2, <1>3, <1>5, <1>8, <1>11, <1>12, <1>14, <1>16, <1>19

LEMMA MappedSeq ==
  ASSUME NEW I, NEW w \in Seq(I), NEW f, NEW V, \A i \in I : f[i] \in V
  PROVE  /\ Mapped(w, f) \in Seq(V) /\ Len(Mapped(w, f)) = Len(w)
         /\ \A k \in 1..Len(w) : Mapped(w, f)[k] = f[w[k]]
<1>1. Len(w) \in Nat /\ \A k \in 1..Len(w) : f[w[k]] \in V
  OBVIOUS
<1>2. Mapped(w, f) \in [1..Len(w) -> V]
  BY <1>1 DEF Mapped
<1>3. \A k \in 1..Len(w) : Mapped(w, f)[k] = f[w[k]]
  BY DEF Mapped
<1> QED BY <1>1, <1>2, <1>3

LEMMA MappedPart ==
  ASSUME NEW I, NEW w \in Seq(I), NEW f, NEW a \in Nat, a >= 1, a <= Len(w) + 1
  PROVE  SubSeq(Mapped(w, f), a, Len(w)) = Mapped(SubSeq(w, a, Len(w)), f)
<1> DEFINE V == {f[i] : i \in I}
<1>1. PICK n \in Nat : n = Len(w)
  OBVIOUS
<1>2. PICK m : m = Mapped(w, f)
  OBVIOUS
<1>3. m \in Seq(V) /\ Len(m) = n /\ \A k \in 1..n : m[k] = f[w[k]]
  <2>1. \A i \in I : f[i] \in V
    OBVIOUS
  <2> HIDE DEF V
  <2>2. Mapped(w, f) \in Seq(V) /\ Len(Mapped(w, f)) = Len(w)
    BY <2>1, MappedSeq
  <2>3. \A k \in 1..Len(w) : Mapped(w, f)[k] = f[w[k]]
    BY DEF Mapped
  <2> QED BY <1>1, <1>2, <2>2, <2>3
<1> HIDE DEF V
<1>4. PICK u : u = SubSeq(w, a, n)
  OBVIOUS
<1>5. u \in Seq(I) /\ Len(u) = n - a + 1 /\ \A k \in 1..(n - a + 1) : u[k] = w[a + k - 1]
  BY <1>1, <1>4
<1>6. PICK v : v = SubSeq(m, a, n)
  OBVIOUS
<1>7. v \in Seq(V) /\ Len(v) = n - a + 1 /\ \A k \in 1..(n - a + 1) : v[k] = m[a + k - 1]
  BY <1>1, <1>3, <1>6
<1>8. \A k \in 1..(n - a + 1) : v[k] = f[u[k]]
  <2> TAKE k \in 1..(n - a + 1)
  <2>1. a + k - 1 \in 1..n
    BY <1>1
  <2> QED BY <1>3, <1>5, <1>7, <2>1
<1>9. v = [k \in 1..(n - a + 1) |-> v[k]]
  BY <1>7
<1>10. v = Mapped(u, f)
  BY <1>5, <1>8, <1>9 DEF Mapped
<1> QED BY <1>1, <1>2, <1>4, <1>6, <1>10

LEMMA NewestMapped ==
  ASSUME NEW I, NEW w \in Seq(I), NEW f, NEW s \in Nat
  PROVE  Newest(Mapped(w, f), s) = Mapped(Newest(w, s), f)
<1>1. PICK n \in Nat : n = Len(w)
  OBVIOUS
<1>2. PICK a : a = Max({1, n - s + 1})
  OBVIOUS
<1>3. a \in Nat /\ a >= 1 /\ a <= n + 1
  <2>1. 1 \in Int /\ n - s + 1 \in Int
    OBVIOUS
  <2>2. a \in {1, n - s + 1} /\ a >= 1
    BY <1>2, <2>1, MaxOfTwo
  <2> QED BY <2>2
<1>4. Len(Mapped(w, f)) = n
  BY <1>1 DEF Mapped
<1>5. Newest(Mapped(w, f), s) = SubSeq(Mapped(w, f), a, n) /\ Newest(w, s) = SubSeq(w, a, n)
  BY <1>1, <1>2, <1>4 DEF Newest
<1> QED BY <1>1, <1>3, <1>5, MappedPart

LEMMA MappedAppend ==
  ASSUME NEW I, NEW w, NEW x, NEW f, NEW g, w \in Seq(I), Alike(f, g, I)
  PROVE  Mapped(Append(w, x), g) = Append(Mapped(w, f), g[x])
<1>1. PICK m \in Nat : m = Len(w)
  OBVIOUS
<1>2. PICK v : v = Append(w, x)
  OBVIOUS
<1> DEFINE J == I \cup {x}
           T == {g[i] : i \in J}
<1>3. Len(v) = m + 1 /\ v[m + 1] = x /\ \A k \in 1..m : v[k] = w[k] /\ w[k] \in I
  <2>1. w \in Seq(J) /\ x \in J
    OBVIOUS
  <2> HIDE DEF J
  <2>2. v \in Seq(J) /\ Len(v) = m + 1 /\ v[m + 1] = x /\ \A k \in 1..m : v[k] = w[k]
    BY <1>1, <1>2, <2>1
  <2> QED BY <1>1, <2>2
<1>4. PICK h : h = Mapped(w, f)
  OBVIOUS
<1>5. h \in Seq(T) /\ g[x] \in T /\ Len(h) = m /\ \A k \in 1..m : h[k] = f[w[k]]
  <2>1. (\A i \in I : f[i] \in T) /\ g[x] \in T
    BY DEF Alike
  <2> HIDE DEF T
  <2>2. h \in Seq(T) /\ Len(h) = Len(w)
    BY <1>4, <2>1, MappedSeq
  <2>3. \A k \in 1..m : h[k] = f[w[k]]
    BY <1>1, <1>4 DEF Mapped
  <2> QED BY <1>1, <2>1, <2>2, <2>3
<1> HIDE DEF J, T
<1>6. PICK e : e = Append(h, g[x])
  OBVIOUS
<1>7. e \in Seq(T) /\ Len(e) = m + 1 /\ e[m + 1] = g[x] /\ \A k \in 1..m : e[k] = h[k]
  BY <1>5, <1>6
<1>8. \A k \in 1..(m + 1) : e[k] = g[v[k]]
  <2> TAKE k \in 1..(m + 1)
  <2>1. k = m + 1 \/ k \in 1..m
    BY <1>1
  <2>2. CASE k = m + 1
    BY <1>3, <1>7, <2>2
  <2>3. CASE k \in 1..m
    <3>1. e[k] = f[w[k]] /\ w[k] \in I /\ v[k] = w[k]
      BY <1>3, <1>5, <1>7, <2>3
    <3> QED BY <3>1 DEF Alike
  <2> QED BY <2>1, <2>2, <2>3
<1>9. e = [k \in 1..(m + 1) |-> e[k]]
  BY <1>7
<1> QED BY <1>2, <1>3, <1>4, <1>6, <1>8, <1>9 DEF Mapped

\* The window after one more tick: push its value, cut.
LEMMA WindowPushed ==
  ASSUME NEW n \in Nat, NEW I \in SUBSET (1..n), NEW s \in Nat, NEW f, NEW g,
         Alike(f, g, I)
  PROVE  Newest(Append(InOrder(LastOf(I, s), f), g[n + 1]), s) = InOrder(LastOf(I \cup {n + 1}, s), g)
<1>1. PICK w : Lists(w, I)
  BY ListExists
<1>2. PICK J : J = I \cup {n + 1}
  OBVIOUS
<1>3. I \in SUBSET Nat /\ J \in SUBSET Nat /\ n + 1 \in Nat /\ \A i \in I : i < n + 1
  BY <1>2
<1>4. PICK v : v = Append(w, n + 1)
  OBVIOUS
<1>5. Lists(v, J)
  BY <1>1, <1>2, <1>3, <1>4, ListedAppend
<1>6. w \in Seq(I) /\ v \in Seq(J)
  BY <1>1, <1>5 DEF Lists
<1>7. LastOf(I, s) \in SUBSET Nat /\ LastOf(J, s) \in SUBSET Nat
  BY <1>3 DEF LastOf
<1>8. InOrder(LastOf(I, s), f) = Newest(Mapped(w, f), s)
  <2>1. Lists(Newest(w, s), LastOf(I, s))
    BY <1>1, <1>3, LastListed
  <2>2. InOrder(LastOf(I, s), f) = Mapped(Newest(w, s), f)
    BY <1>7, <2>1, InOrderListed
  <2> QED BY <1>6, <2>2, NewestMapped
<1>9. InOrder(LastOf(J, s), g) = Newest(Mapped(v, g), s)
  <2>1. Lists(Newest(v, s), LastOf(J, s))
    BY <1>3, <1>5, LastListed
  <2>2. InOrder(LastOf(J, s), g) = Mapped(Newest(v, s), g)
    BY <1>7, <2>1, InOrderListed
  <2> QED BY <1>6, <2>2, NewestMapped
<1>10. PICK h : h = Mapped(w, f)
  OBVIOUS
<1> DEFINE T == {g[i] : i \in J}
<1>11. h \in Seq(T) /\ g[n + 1] \in T
  <2>1. \A i \in I : f[i] \in T
    BY <1>2 DEF Alike
  <2>2. g[n + 1] \in T
    BY <1>2
  <2> HIDE DEF T
  <2>3. h \in Seq(T)
    BY <1>6, <1>10, <2>1, MappedSeq
  <2> QED BY <2>2, <2>3
<1> HIDE DEF T
<1>12. Mapped(v, g) = Append(h, g[n + 1])
  <2>1. PICK x : x = n + 1
    OBVIOUS
  <2>2. w \in Seq(I)
    BY <1>6
  <2>3. Mapped(Append(w, x), g) = Append(Mapped(w, f), g[x])
    BY <2>2, MappedAppend
  <2> QED BY <1>4, <1>10, <2>1, <2>3
<1>13. Newest(Append(Newest(h, s), g[n + 1]), s) = Newest(Append(h, g[n + 1]), s)
  BY <1>11, NewestAgain
<1> QED BY <1>2, <1>8, <1>9, <1>10, <1>12, <1>13

\* Only the values at the indices of the set count.
LEMMA InOrderAgrees ==
  ASSUME NEW n \in Nat, NEW I \in SUBSET (1..n), NEW f, NEW g, Alike(f, g, I)
  PROVE  InOrder(I, g) = InOrder(I, f)
<1>1. PICK w : Lists(w, I)
  BY ListExists
<1>2. I \in SUBSET Nat
  OBVIOUS
<1>3. \A k \in 1..Len(w) : g[w[k]] = f[w[k]]
  BY <1>1, <1>2, ListedTypes DEF Alike
<1>4. Mapped(w, g) = Mapped(w, f)
  BY <1>3 DEF Mapped
<1> QED BY <1>1, <1>2, <1>4, InOrderListed

LEMMA InOrderNone == ASSUME NEW f, NEW s PROVE InOrder({}, f) = << >> /\ LastOf({}, s) = {}
<1>1. Cardinality({}) = 0 /\ 1..0 = {}
  BY FS_EmptySet
<1> QED BY <1>1 DEF InOrder, LastOf

LEMMA LeastOf ==
  ASSUME NEW n \in Nat, NEW I \in SUBSET (1..n), I # {}
  PROVE  Min(I) \in I /\ \A i \in I : Min(I) <= i
<1>1. PICK w : Lists(w, I)
  BY ListExists
<1>2. I \in SUBSET Nat
  OBVIOUS
<1>3. Len(w) \in Nat /\ \A k \in 1..Len(w) : w[k] \in I /\ w[k] \in Nat
  BY <1>1, <1>2, ListedTypes
<1>4. \A i \in I : \E k \in 1..Len(w) : w[k] = i
  BY <1>1 DEF Lists
<1>5. 1 \in 1..Len(w)
  <2>1. PICK k \in 1..Len(w) : TRUE
    BY <1>4
  <2> QED BY <1>3, <2>1
<1>6. \A k \in 1..Len(w) : w[1] <= w[k]
  <2> TAKE k \in 1..Len(w)
  <2>1. k = 1 \/ 1 < k
    BY <1>3
  <2>2. 1 < k => w[1] < w[k]
    BY <1>1, <1>5 DEF Lists
  <2> QED BY <1>3, <1>5, <2>1, <2>2
<1>7. w[1] \in I /\ \A i \in I : w[1] <= i
  BY <1>3, <1>4, <1>5, <1>6
<1>8. \E a \in I : \A i \in I : a =< i
  BY <1>7
<1> QED BY <1>8 DEF Min

\* The index of the first entry of s that is not older than c, 0 for none.
FirstLate(s, c) ==
  LET late == {k \in 1..Len(s) : s[k].time >= c} IN IF late # {} THEN Min(late) ELSE 0

Pushed(s, c, x) ==
  LET kept == FirstLate(s, c)
  IN  Append(IF kept = 0 THEN << >> ELSE SubSeq(s, kept, Len(s)), x)

NotOlder(f, I, c) == {i \in I : f[i].time >= c}

InTimeOrder(f, I) ==
  /\ \A i \in I : f[i].time \in Int
  /\ \A i, j \in I : i < j => f[i].time <= f[j].time

\* A deque of entries in the order of their times, cut at the first that is not
\* older than the cutoff, keeps those that are not older, and the one pushed.
LEMMA CutAtTime ==
  ASSUME NEW n \in Nat, NEW I \in SUBSET (1..n), NEW f, NEW g, Alike(f, g, I),
         NEW c \in Int, InTimeOrder(f, I),
         NEW s, s = InOrder(I, f)
  PROVE  Pushed(s, c, g[n + 1]) = InOrder(NotOlder(f, I, c) \cup {n + 1}, g)
<1>0. PICK kept : kept = FirstLate(s, c)
  OBVIOUS
<1> DEFINE K == {i \in I : f[i].time >= c}
<1> SUFFICES Append(IF kept = 0 THEN << >> ELSE SubSeq(s, kept, Len(s)), g[n + 1])
               = InOrder(K \cup {n + 1}, g)
  BY <1>0 DEF Pushed, NotOlder
<1>1. PICK w : Lists(w, I)
  BY ListExists
<1>2. I \in SUBSET Nat /\ K \in SUBSET I /\ n + 1 \in Nat /\ \A i \in I : i < n + 1
  OBVIOUS
<1>3. PICK m \in Nat : m = Len(w) /\ \A k \in 1..m : w[k] \in I /\ w[k] \in Nat
  BY <1>1, <1>2, ListedTypes
<1>4. s = Mapped(w, f)
  BY <1>1, <1>2, InOrderListed
<1>5. Len(s) = m /\ \A k \in 1..m : s[k] = f[w[k]]
  BY <1>3, <1>4 DEF Mapped
<1> DEFINE Late == {k \in 1..m : s[k].time >= c}
<1>6. kept = IF Late # {} THEN Min(Late) ELSE 0
  BY <1>0, <1>5 DEF FirstLate
<1>7. \A k \in 1..m : w[k] \in K <=> k \in Late
  BY <1>3, <1>5
<1>8. \A i \in K : \E k \in 1..m : w[k] = i
  BY <1>1, <1>3 DEF Lists
<1>9. ASSUME NEW v, Lists(v, K)
      PROVE  InOrder(K \cup {n + 1}, g) = Append(Mapped(v, f), g[n + 1])
  <2>1. v \in Seq(K)
    BY <1>9 DEF Lists
  <2>2. Lists(Append(v, n + 1), K \cup {n + 1})
    <3>1. K \in SUBSET Nat /\ \A i \in K : i < n + 1
      BY <1>2
    <3> HIDE DEF K
    <3> QED BY <1>2, <1>9, <3>1, ListedAppend
  <2>3. K \cup {n + 1} \in SUBSET Nat
    BY <1>2
  <2>4. Alike(f, g, K)
    BY <1>2 DEF Alike
  <2> HIDE DEF K
  <2>5. InOrder(K \cup {n + 1}, g) = Mapped(Append(v, n + 1), g)
    BY <2>2, <2>3, InOrderListed
  <2>6. Mapped(Append(v, n + 1), g) = Append(Mapped(v, f), g[n + 1])
    <3>1. PICK x : x = n + 1
      OBVIOUS
    <3>2. Mapped(Append(v, x), g) = Append(Mapped(v, f), g[x])
      BY <2>1, <2>4, MappedAppend
    <3> QED BY <3>1, <3>2
  <2> QED BY <2>5, <2>6 DEF K
<1>10. CASE Late = {}
  <2>1. K = {}
    BY <1>7, <1>8, <1>10
  <2>2. InOrder(K \cup {n + 1}, g) = Append(Mapped(<< >>, f), g[n + 1])
    BY <1>9, <2>1, ListedNone
  <2>3. Mapped(<< >>, f) = << >>
    BY DEF Mapped
  <2> QED BY <1>6, <1>10, <2>2, <2>3
<1>11. CASE Late # {}
  <2>1. kept \in Late /\ \A k \in Late : kept <= k
    BY <1>6, <1>11, LeastOf
  <2>2. kept \in Nat /\ kept >= 1 /\ kept <= m /\ kept \in 1..m
    BY <2>1
  <2>3. \A k \in kept..m : k \in Late
    <3> TAKE k \in kept..m
    <3>1. k \in 1..m /\ (kept = k \/ kept < k)
      BY <2>2
    <3>2. kept < k => w[kept] < w[k]
      BY <1>1, <1>3, <2>2, <3>1 DEF Lists
    <3>3. w[kept] \in I /\ w[k] \in I
      BY <1>3, <2>2, <3>1
    <3>4. f[w[kept]].time <= f[w[k]].time
      <4>1. kept < k => f[w[kept]].time <= f[w[k]].time
        BY <3>2, <3>3 DEF InTimeOrder
      <4>2. f[w[kept]].time \in Int
        BY <3>3 DEF InTimeOrder
      <4> QED BY <3>1, <4>1, <4>2
    <3>5. f[w[kept]].time >= c
      BY <1>5, <2>1
    <3>6. f[w[k]].time >= c
      <4>1. f[w[kept]].time \in Int /\ f[w[k]].time \in Int
        BY <3>3 DEF InTimeOrder
      <4> QED BY <3>4, <3>5, <4>1
    <3> QED BY <1>5, <3>1, <3>6
  <2>4. \A k \in kept..m : k \in 1..m
    BY <2>2
  <2>5. ASSUME NEW k \in Late PROVE k \in kept..m
    <3>1. k \in 1..m /\ kept <= k
      BY <2>1
    <3> HIDE DEF Late
    <3> QED BY <2>2, <3>1
  <2> HIDE DEF Late
  <2>6. Spans(K, w, kept, m)
    <3> HIDE DEF K
    <3> QED BY <1>7, <1>8, <2>3, <2>4, <2>5 DEF Spans
  <2> HIDE DEF K
  <2>7. Lists(SubSeq(w, kept, m), K)
    <3>1. kept <= m + 1 /\ m <= Len(w)
      BY <1>3, <2>2
    <3> QED BY <1>1, <1>2, <2>2, <2>6, <3>1, ListedPart
  <2>8. SubSeq(s, kept, m) = Mapped(SubSeq(w, kept, m), f)
    <3>1. w \in Seq(I)
      BY <1>1 DEF Lists
    <3>2. kept <= Len(w) + 1
      BY <1>3, <2>2
    <3>3. SubSeq(Mapped(w, f), kept, Len(w)) = Mapped(SubSeq(w, kept, Len(w)), f)
      BY <2>2, <3>1, <3>2, MappedPart
    <3> QED BY <1>3, <1>4, <3>3
  <2>9. kept # 0
    BY <2>2
  <2> QED BY <1>5, <1>9, <2>7, <2>8, <2>9 DEF K
<1> QED BY <1>10, <1>11
-----------------------------------------------------------------------------
(***************************************************************************)
(* The market and the feed                                                 *)
(***************************************************************************)
Priced == {"sma", "burst"}

\* What the strategies rely on the market for: prices and volumes are whole numbers
\* of their units, and trades come in the order of their times.
OrderlyMarket ==
  \A f : f \in Seq(Values(f)) =>
    /\ \A a \in Priced : \A t \in Offered(a, f) : t.price \in Int
    /\ \A t \in Offered("spike", f) : t.volume \in Int
    /\ \A t \in Offered("burst", f) : /\ t.time \in 0..(TimeMod - 1)
                                      /\ f # << >> => Last(f).time <= t.time

FeedInv ==
  /\ feed \in Seq(Values(feed))
  /\ resets \in SUBSET (0..Len(feed))
  /\ \A i \in 1..Len(feed) : /\ alg \in Priced => feed[i].price \in Int
                             /\ alg = "spike" => feed[i].volume \in Int
                             /\ alg = "burst" => feed[i].time \in 0..(TimeMod - 1)
  /\ alg = "burst" => \A i, j \in 1..Len(feed) : i < j => feed[i].time <= feed[j].time

\* The members of the private state of the strategies that keep windows.
ShapeInv ==
  /\ alg = "sma" => DOMAIN mem = {"prices", "above"}
  /\ alg = "spike" => DOMAIN mem = {"sizes"}
  /\ alg = "burst" => DOMAIN mem = {"prices", "entry"}

\* The feed has n ticks and gets another.
Grown(n, t) ==
  /\ n \in Nat /\ Len(feed) = n /\ Len(feed') = n + 1
  /\ DOMAIN feed = 1..n /\ DOMAIN feed' = 1..(n + 1)
  /\ Alike(feed, feed', 1..n) /\ feed'[n + 1] = t
  /\ resets \in SUBSET (0..n)
  /\ UNCHANGED <<alg, resets>>

LEMMA FeedGrows ==
  ASSUME FeedInv, NEW t, Update(t)
  PROVE  Grown(Len(feed), t) /\ feed' \in Seq(Values(feed'))
<1> DEFINE T == Values(feed) \cup {t}
<1>1. feed \in Seq(T) /\ t \in T
  BY DEF FeedInv
<1>2. feed' = Append(feed, t) /\ alg' = alg /\ resets' = resets
  BY DEF Update
<1> HIDE DEF T
<1>3. feed' \in Seq(T) /\ Len(feed) \in Nat /\ Len(feed') = Len(feed) + 1
  BY <1>1, <1>2
<1>4. /\ DOMAIN feed = 1..Len(feed) /\ DOMAIN feed' = 1..(Len(feed) + 1)
      /\ feed'[Len(feed) + 1] = t /\ \A i \in 1..Len(feed) : feed'[i] = feed[i]
  BY <1>1, <1>2, <1>3
<1>5. feed' \in Seq(Values(feed'))
  BY <1>3, ValuesOfSeq
<1> QED
  BY <1>2, <1>3, <1>4, <1>5 DEF FeedInv, Grown, Alike

LEMMA InitFeedInv == AlgorithmsInit => FeedInv /\ ShapeInv
<1> SUFFICES ASSUME AlgorithmsInit PROVE FeedInv /\ ShapeInv
  OBVIOUS
<1>1. feed = << >> /\ resets = {} /\ mem = Fresh[alg]
  BY DEF AlgorithmsInit
<1>2. FeedInv
  <2>1. Len(feed) = 0 /\ 1..0 = {} /\ feed \in Seq(Values(feed))
    BY <1>1
  <2> QED
    BY <1>1, <2>1 DEF FeedInv
<1>3. alg = "sma" => DOMAIN mem = {"prices", "above"}
  BY <1>1 DEF Fresh
<1>4. alg = "spike" => DOMAIN mem = {"sizes"}
  BY <1>1 DEF Fresh
<1>5. alg = "burst" => DOMAIN mem = {"prices", "entry"}
  BY <1>1 DEF Fresh
<1> QED
  BY <1>2, <1>3, <1>4, <1>5 DEF ShapeInv

LEMMA TickFeedInv ==
  ASSUME OrderlyMarket, FeedInv, NEW t \in Offered(alg, feed), Update(t)
  PROVE  FeedInv'
<1>1. PICK n : n = Len(feed) /\ Grown(n, t) /\ feed' \in Seq(Values(feed'))
  BY FeedGrows
<1>2. /\ n \in Nat /\ Len(feed') = n + 1 /\ \A i \in 1..(n + 1) : i = n + 1 \/ i \in 1..n
  BY <1>1 DEF Grown
<1>3. resets' \in SUBSET (0..(n + 1))
  BY <1>1, <1>2 DEF Grown
<1>4. ASSUME NEW i \in 1..(n + 1)
      PROVE  /\ alg \in Priced => feed'[i].price \in Int
             /\ alg = "spike" => feed'[i].volume \in Int
             /\ alg = "burst" => feed'[i].time \in 0..(TimeMod - 1)
  <2>1. CASE i = n + 1
    <3>1. feed'[i] = t
      BY <1>1, <2>1 DEF Grown
    <3> QED
      BY <3>1 DEF OrderlyMarket, FeedInv
  <2>2. CASE i \in 1..n
    <3>1. feed'[i] = feed[i]
      BY <1>1, <2>2 DEF Grown, Alike
    <3> QED
      BY <1>1, <2>2, <3>1 DEF FeedInv
  <2> QED
    BY <1>2, <2>1, <2>2
<1>5. ASSUME alg = "burst", NEW i \in 1..(n + 1), NEW j \in 1..(n + 1), i < j
      PROVE  feed'[i].time <= feed'[j].time
  <2>1. i \in 1..n /\ feed'[i] = feed[i]
    BY <1>1, <1>2, <1>5 DEF Grown, Alike
  <2>2. CASE j \in 1..n
    <3>1. feed'[j] = feed[j]
      BY <1>1, <2>2 DEF Grown, Alike
    <3> QED
      BY <1>1, <1>5, <2>1, <2>2, <3>1 DEF FeedInv
  <2>3. CASE j = n + 1
    <3>1. feed'[j] = t
      BY <1>1, <2>3 DEF Grown
    <3>2. feed # << >> /\ Last(feed) = feed[n] /\ n \in 1..n
      <4>1. n # 0
        BY <1>2, <2>1
      <4> QED
        BY <1>1, <1>2, <4>1 DEF Last
    <3>3. feed[n].time <= t.time /\ t.time \in 0..(TimeMod - 1)
      BY <1>5, <3>2 DEF OrderlyMarket, FeedInv
    <3>4. i = n \/ (i < n /\ feed[i].time <= feed[n].time)
      BY <1>1, <1>2, <1>5, <2>1, <3>2 DEF FeedInv
    <3>5. feed[i].time \in 0..(TimeMod - 1) /\ feed[n].time \in 0..(TimeMod - 1)
      BY <1>1, <1>5, <2>1, <3>2 DEF FeedInv
    <3>6. TimeMod \in Nat
      BY AlgorithmsAssumption
    <3> QED
      BY <2>1, <3>1, <3>3, <3>4, <3>5, <3>6
  <2> QED
    BY <1>2, <2>2, <2>3
<1>6. alg' = alg
  BY <1>1 DEF Grown
<1> QED
  BY <1>1, <1>2, <1>3, <1>4, <1>5, <1>6 DEF FeedInv

LEMMA OtherFeedInv ==
  ASSUME FeedInv, UNCHANGED <<alg, feed>>, resets' = resets \/ resets' = resets \cup {Len(feed)}
  PROVE  FeedInv'
<1>1. Len(feed) \in 0..Len(feed)
  BY DEF FeedInv
<1> QED
  BY <1>1 DEF FeedInv

LEMMA AcceptedGrows ==
  ASSUME NEW n, NEW t, Grown(n, t), NEW field
  PROVE  /\ Accepted(field) \in SUBSET (1..n)
         /\ Accepted(field)' = IF t[field] > 0 THEN Accepted(field) \cup {n + 1} ELSE Accepted(field)
<1>1. n \in Nat /\ DOMAIN feed = 1..n /\ DOMAIN feed' = 1..(n + 1) /\ feed'[n + 1] = t
  BY DEF Grown
<1>2. \A i \in 1..n : feed'[i] = feed[i]
  BY DEF Grown, Alike
<1>3. \A i : i \in 1..(n + 1) <=> i \in 1..n \/ i = n + 1
  BY <1>1
<1>4. n + 1 \notin 1..n
  BY <1>1
<1>5. Accepted(field)' = {i \in 1..(n + 1) : feed'[i][field] > 0}
  BY <1>1 DEF Accepted
<1>6. Accepted(field) = {i \in 1..n : feed[i][field] > 0}
  BY <1>1 DEF Accepted
<1>7. (n + 1 \in Accepted(field)') <=> t[field] > 0
  BY <1>1, <1>3, <1>5
<1>8. \A i : i \in Accepted(field)' <=> (i \in Accepted(field) \/ (i = n + 1 /\ t[field] > 0))
  <2> TAKE i
  <2>1. CASE i = n + 1
    BY <1>4, <1>6, <1>7, <2>1
  <2>2. CASE i # n + 1
    BY <1>2, <1>3, <1>5, <1>6, <2>2
  <2> QED
    BY <2>1, <2>2
<1> QED
  BY <1>6, <1>8

LEMMA SinceGrows ==
  ASSUME NEW n, NEW t, Grown(n, t)
  PROVE  SinceReset \in SUBSET (1..n) /\ SinceReset' = SinceReset \cup {n + 1}
<1>1. n \in Nat /\ DOMAIN feed = 1..n /\ DOMAIN feed' = 1..(n + 1) /\ resets' = resets
  BY DEF Grown
<1>2. \A i : i \in 1..(n + 1) <=> i \in 1..n \/ i = n + 1
  BY <1>1
<1>3. \A r \in resets : r < n + 1
  BY <1>1 DEF Grown
<1> QED
  BY <1>1, <1>2, <1>3 DEF SinceReset

\* After a reset nothing is left to remember.
LEMMA SinceForgotten ==
  ASSUME FeedInv, UNCHANGED feed, resets' = resets \cup {Len(feed)}
  PROVE  SinceReset' = {}
<1>1. Len(feed) \in Nat /\ DOMAIN feed = 1..Len(feed)
  BY DEF FeedInv
<1>2. Len(feed) \in resets'
  OBVIOUS
<1>3. \A i \in DOMAIN feed' : ~(Len(feed) < i)
  BY <1>1
<1> QED
  BY <1>2, <1>3 DEF SinceReset

\* A column of the table of ticks f.
Column(f, n, field) == [i \in 1..n |-> f[i][field]]

LEMMA ColumnAt ==
  ASSUME NEW n \in Nat, NEW I \in SUBSET (1..n), NEW f, NEW field
  PROVE  InOrder(I, [i \in I |-> f[i][field]]) = InOrder(I, Column(f, n, field))
<1>1. PICK g : g = [i \in I |-> f[i][field]]
  OBVIOUS
<1>2. Alike(Column(f, n, field), g, I)
  BY <1>1 DEF Alike, Column
<1> QED
  BY <1>1, <1>2, InOrderAgrees

LEMMA WindowGrows ==
  ASSUME NEW n, NEW t, Grown(n, t), NEW field, t[field] > 0, NEW s \in Nat, NEW window,
         window = FieldAt(LastOf(Accepted(field) \cap SinceReset, s), field)
  PROVE  Newest(Append(window, t[field]), s) = FieldAt(LastOf(Accepted(field) \cap SinceReset, s), field)'
<1>1. n \in Nat /\ n + 1 \in Nat /\ feed'[n + 1] = t /\ Alike(feed, feed', 1..n)
  BY DEF Grown
<1>2. PICK I \in SUBSET (1..n) : I = Accepted(field) \cap SinceReset
  BY SinceGrows
<1>3. PICK J : J = I \cup {n + 1}
  OBVIOUS
<1>4. (Accepted(field) \cap SinceReset)' = J
  BY <1>2, <1>3, AcceptedGrows, SinceGrows
<1>5. J \in SUBSET (1..(n + 1)) /\ n + 1 \in 1..(n + 1)
  BY <1>1, <1>3
<1>6. LastOf(I, s) \in SUBSET (1..n) /\ LastOf(J, s) \in SUBSET (1..(n + 1))
  BY <1>5 DEF LastOf
<1>7. PICK f, g : f = Column(feed, n, field) /\ g = Column(feed', n + 1, field)
  OBVIOUS
<1>8. window = InOrder(LastOf(I, s), f)
  <2>1. window = InOrder(LastOf(I, s), [i \in LastOf(I, s) |-> feed[i][field]])
    BY <1>2 DEF FieldAt
  <2> QED
    BY <1>1, <1>6, <1>7, <2>1, ColumnAt
<1>9. FieldAt(LastOf(Accepted(field) \cap SinceReset, s), field)' = InOrder(LastOf(J, s), g)
  <2>1. FieldAt(LastOf(Accepted(field) \cap SinceReset, s), field)'
          = InOrder(LastOf(J, s), [i \in LastOf(J, s) |-> feed'[i][field]])
    BY <1>4 DEF FieldAt
  <2> QED
    BY <1>1, <1>6, <1>7, <2>1, ColumnAt
<1>10. Alike(f, g, I) /\ g[n + 1] = t[field]
  <2>1. \A i \in I : i \in 1..n /\ i \in 1..(n + 1)
    BY <1>1, <1>2
  <2> QED
    BY <1>1, <1>5, <1>7, <2>1 DEF Alike, Column
<1> QED
  BY <1>1, <1>3, <1>8, <1>9, <1>10, WindowPushed

\* A tick that is not accepted, or that the strategy has no field of, leaves it.
LEMMA WindowStays ==
  ASSUME NEW n, NEW t, Grown(n, t), NEW field, ~(t[field] > 0), NEW s
  PROVE  UNCHANGED FieldAt(LastOf(Accepted(field) \cap SinceReset, s), field)
<1>1. n \in Nat /\ Alike(feed, feed', 1..n)
  BY DEF Grown
<1>2. PICK I \in SUBSET (1..n) : I = Accepted(field) \cap SinceReset
  BY SinceGrows
<1>3. (Accepted(field) \cap SinceReset)' = I
  <2>1. n + 1 \notin 1..n
    BY <1>1
  <2> QED
    BY <1>2, <2>1, AcceptedGrows, SinceGrows
<1>4. LastOf(I, s) \in SUBSET (1..n)
  BY DEF LastOf
<1>5. \A i \in LastOf(I, s) : feed'[i] = feed[i]
  BY <1>1, <1>4 DEF Alike
<1>6. FieldAt(LastOf(Accepted(field) \cap SinceReset, s), field)
        = InOrder(LastOf(I, s), [i \in LastOf(I, s) |-> feed[i][field]])
  BY <1>2 DEF FieldAt
<1>7. FieldAt(LastOf(Accepted(field) \cap SinceReset, s), field)'
        = InOrder(LastOf(I, s), [i \in LastOf(I, s) |-> feed'[i][field]])
  BY <1>3 DEF FieldAt
<1>8. [i \in LastOf(I, s) |-> feed'[i][field]] = [i \in LastOf(I, s) |-> feed[i][field]]
  BY <1>5
<1> QED
  BY <1>6, <1>7, <1>8

LEMMA WindowForgotten ==
  ASSUME FeedInv, UNCHANGED feed, resets' = resets \cup {Len(feed)}, NEW field, NEW s
  PROVE  FieldAt(LastOf(Accepted(field) \cap SinceReset, s), field)' = << >>
<1>1. (Accepted(field) \cap SinceReset)' = {}
  BY SinceForgotten
<1>2. LastOf({}, s) = {}
  BY InOrderNone
<1>3. FieldAt(LastOf(Accepted(field) \cap SinceReset, s), field)' = InOrder({}, [i \in {} |-> feed'[i][field]])
  BY <1>1, <1>2 DEF FieldAt
<1> QED
  BY <1>3, InOrderNone
-----------------------------------------------------------------------------
(***************************************************************************)
(* The windows of dual SMA and of trade sizes                              *)
(***************************************************************************)
SmaInv ==
  alg = "sma" => mem.prices = FieldAt(LastOf(Accepted("price") \cap SinceReset, P.slow), "price")

SpikeInv ==
  alg = "spike" => mem.sizes = FieldAt(LastOf(Accepted("volume") \cap SinceReset, P.window), "volume")

LEMMA SmaTick ==
  ASSUME FeedInv, ShapeInv, SmaInv, alg = "sma", NEW t, t.price \in Int, Update(t)
  PROVE  SmaInv' /\ DOMAIN mem' = {"prices", "above"}
<1>1. PICK n : Grown(n, t)
  BY FeedGrows
<1>2. alg' = alg /\ DualSMA(t) /\ DOMAIN mem = {"prices", "above"}
  BY <1>1, OwnStrategy DEF Grown, ShapeInv
<1>3. PICK s \in Nat : s = P.slow
  BY AlgorithmsAssumption DEF P
<1>4. P.slow' = s
  BY <1>2, <1>3 DEF P
<1>5. PICK window : window = FieldAt(LastOf(Accepted("price") \cap SinceReset, s), "price")
  OBVIOUS
<1>6. mem.prices = window
  BY <1>3, <1>5 DEF SmaInv
<1>7. SmaInv' <=> mem'.prices = FieldAt(LastOf(Accepted("price") \cap SinceReset, s), "price")'
  BY <1>2, <1>4 DEF SmaInv
<1>8. CASE ~(t["price"] > 0)
  <2>1. t.price <= 0
    BY <1>8
  <2>2. mem' = mem
    BY <1>2, <2>1 DEF DualSMA, Ignore
  <2> QED
    BY <1>1, <1>2, <1>5, <1>6, <1>7, <1>8, <2>2, WindowStays
<1>9. CASE t["price"] > 0
  <2>0. ~(t.price <= 0)
    BY <1>9
  <2>1. mem'.prices = Newest(Append(window, t["price"]), s) /\ DOMAIN mem' = {"prices", "above"}
    <3>1. PICK prices : prices = Newest(Append(mem.prices, t.price), P.slow)
      OBVIOUS
    <3>2. \/ mem' = [mem EXCEPT !.prices = prices]
          \/ mem' = [prices |-> prices, above |-> FastAbove(prices)]
      BY <1>2, <2>0, <3>1 DEF DualSMA
    <3>3. mem'.prices = prices /\ DOMAIN mem' = {"prices", "above"}
      BY <1>2, <3>2
    <3> QED
      BY <1>3, <1>6, <3>1, <3>3
  <2> QED
    BY <1>1, <1>5, <1>7, <1>9, <2>1, WindowGrows
<1> QED
  BY <1>8, <1>9

LEMMA SpikeTick ==
  ASSUME FeedInv, ShapeInv, SpikeInv, alg = "spike", NEW t, t.volume \in Int, Update(t)
  PROVE  SpikeInv' /\ DOMAIN mem' = {"sizes"}
<1>1. PICK n : Grown(n, t)
  BY FeedGrows
<1>2. alg' = alg /\ TradeSizeSpike(t) /\ DOMAIN mem = {"sizes"}
  BY <1>1, OwnStrategy DEF Grown, ShapeInv
<1>3. PICK s \in Nat : s = P.window
  BY AlgorithmsAssumption DEF P
<1>4. P.window' = s
  BY <1>2, <1>3 DEF P
<1>5. PICK window : window = FieldAt(LastOf(Accepted("volume") \cap SinceReset, s), "volume")
  OBVIOUS
<1>6. mem.sizes = window
  BY <1>3, <1>5 DEF SpikeInv
<1>7. SpikeInv' <=> mem'.sizes = FieldAt(LastOf(Accepted("volume") \cap SinceReset, s), "volume")'
  BY <1>2, <1>4 DEF SpikeInv
<1>8. CASE ~(t["volume"] > 0)
  <2>1. t.volume <= 0
    BY <1>8
  <2>2. mem' = mem
    BY <1>2, <2>1 DEF TradeSizeSpike, Ignore
  <2> QED
    BY <1>1, <1>2, <1>5, <1>6, <1>7, <1>8, <2>2, WindowStays
<1>9. CASE t["volume"] > 0
  <2>0. ~(t.volume <= 0)
    BY <1>9
  <2>1. mem' = [sizes |-> Newest(Append(mem.sizes, t.volume), P.window)]
    BY <1>2, <2>0 DEF TradeSizeSpike
  <2>2. mem'.sizes = Newest(Append(window, t["volume"]), s) /\ DOMAIN mem' = {"sizes"}
    BY <1>3, <1>6, <2>1
  <2> QED
    BY <1>1, <1>5, <1>7, <1>9, <2>2, WindowGrows
<1> QED
  BY <1>8, <1>9
-----------------------------------------------------------------------------
(***************************************************************************)
(* The window of a momentum burst                                          *)
(***************************************************************************)
\* The unsigned difference of two time stamps is too far in the future to keep
\* anything when the window begins before time 0.
LEMMA Wraps ==
  ASSUME NEW M \in Nat, NEW d \in Int, NEW r \in 0..(M - 1), d = r \/ d = r - M
  PROVE  d % M = r
<1> DEFINE q2 == d \div M
           r2 == d % M
<1>1. d = M * q2 + r2 /\ q2 \in Int /\ r2 \in Int /\ 0 <= r2 /\ r2 < M
  OBVIOUS
<1>2. PICK q \in Int : d = M * q + r
  <2>1. d = M * 0 + r \/ d = M * (-1) + r
    OBVIOUS
  <2> QED
    BY <2>1
<1> HIDE DEF q2, r2
<1>3. r - r2 = M * (q2 - q)
  BY <1>1, <1>2
<1>4. CASE q2 - q <= -1
  BY <1>1, <1>3, <1>4
<1>5. CASE q2 - q >= 1
  BY <1>1, <1>3, <1>5
<1>6. CASE q2 = q
  BY <1>1, <1>3, <1>6
<1>7. r2 = r
  BY <1>1, <1>2, <1>4, <1>5, <1>6
<1> QED
  BY <1>7 DEF r2

LEMMA CutoffIs ==
  ASSUME NEW M \in Nat, NEW w \in 0..(M - 1), NEW time \in 0..(M - 1), NEW e \in 0..(M - 1),
         e <= time
  PROVE  e >= (time - w) % M <=> time >= w /\ e >= time - w
<1>1. PICK d \in Int : d = time - w
  OBVIOUS
<1>2. CASE time >= w
  <2>1. d \in 0..(M - 1)
    BY <1>1, <1>2
  <2>2. d % M = d
    BY <2>1, Wraps
  <2> QED
    BY <1>1, <1>2, <2>2
<1>3. CASE ~(time >= w)
  <2>1. PICK r \in 0..(M - 1) : r = d + M
    BY <1>1, <1>3
  <2>2. d % M = r
    <3>1. d = r - M
      BY <2>1
    <3> QED
      BY <2>1, <3>1, Wraps
  <2>3. r > time
    BY <1>1, <2>1
  <2> QED
    BY <1>1, <1>3, <2>2, <2>3
<1> QED
  BY <1>2, <1>3

\* What is left of the feed when ticks older than the window are dropped, and all
\* ticks before one that came earlier than P.window after time 0.
BurstWindow ==
  LET I == Accepted("price") \cap SinceReset
  IN  {i \in I : \A j \in I : j > i => /\ feed[j].time >= P.window
                                      /\ feed[i].time >= feed[j].time - P.window}

BurstInv == alg = "burst" => mem.prices = InOrder(BurstWindow, feed)

LEMMA BurstStays ==
  ASSUME NEW n, NEW t, Grown(n, t), ~(t["price"] > 0), alg = "burst"
  PROVE  BurstWindow \in SUBSET (1..n) /\ UNCHANGED BurstWindow
<1>1. PICK A \in SUBSET (1..n) : A = Accepted("price") \cap SinceReset
  BY SinceGrows
<1>2. (Accepted("price") \cap SinceReset)' = A
  <2>1. n + 1 \notin 1..n
    BY DEF Grown
  <2> QED
    BY <1>1, <2>1, AcceptedGrows, SinceGrows
<1>3. \A i \in A : feed'[i] = feed[i]
  BY <1>1 DEF Grown, Alike
<1>4. P' = P
  BY DEF Grown, P
<1>5. BurstWindow = {i \in A : \A j \in A : j > i => /\ feed[j].time >= P.window
                                                     /\ feed[i].time >= feed[j].time - P.window}
  BY <1>1 DEF BurstWindow
<1>6. BurstWindow' = {i \in A : \A j \in A : j > i => /\ feed'[j].time >= P.window
                                                      /\ feed'[i].time >= feed'[j].time - P.window}
  BY <1>2, <1>4 DEF BurstWindow
<1> QED
  BY <1>3, <1>5, <1>6

LEMMA BurstGrows ==
  ASSUME FeedInv, FeedInv', NEW n, NEW t, Grown(n, t), t["price"] > 0, alg = "burst"
  PROVE  /\ BurstWindow \in SUBSET (1..n)
         /\ BurstWindow' = NotOlder(feed, BurstWindow, Cutoff(t.time)) \cup {n + 1}
<1>1. PICK A \in SUBSET (1..n) : A = Accepted("price") \cap SinceReset
  BY SinceGrows
<1>2. n \in Nat /\ n + 1 \notin 1..n /\ feed'[n + 1] = t /\ \A i \in A : i \in 1..n /\ feed'[i] = feed[i]
  BY <1>1 DEF Grown, Alike
<1>3. (Accepted("price") \cap SinceReset)' = A \cup {n + 1}
  BY <1>1, AcceptedGrows, SinceGrows
<1>4. PICK w \in 0..(TimeMod - 1) : w = P.window
  BY AlgorithmsAssumption DEF P
<1>5. P.window' = w
  BY <1>4 DEF Grown, P
<1>6. BurstWindow = {i \in A : \A j \in A : j > i => /\ feed[j].time >= w
                                                     /\ feed[i].time >= feed[j].time - w}
  BY <1>1, <1>4 DEF BurstWindow
<1>7. BurstWindow' = {i \in A \cup {n + 1} : \A j \in A \cup {n + 1} :
                        j > i => /\ feed'[j].time >= w
                                 /\ feed'[i].time >= feed'[j].time - w}
  BY <1>3, <1>5 DEF BurstWindow
<1>8. t.time \in 0..(TimeMod - 1)
  BY <1>2 DEF FeedInv, Grown
<1>9. ASSUME NEW i \in A
      PROVE  feed[i].time >= Cutoff(t.time) <=> t.time >= w /\ feed[i].time >= t.time - w
  <2>1. feed[i].time \in 0..(TimeMod - 1)
    BY <1>2 DEF FeedInv, Grown
  <2>2. feed[i].time <= t.time
    <3>1. /\ i \in 1..Len(feed') /\ n + 1 \in 1..Len(feed') /\ i < n + 1 /\ alg' = "burst"
          /\ feed'[i] = feed[i] /\ feed'[n + 1] = t
      BY <1>2 DEF Grown
    <3> QED
      BY <3>1 DEF FeedInv
  <2>3. TimeMod \in Nat /\ Cutoff(t.time) = (t.time - w) % TimeMod
    BY <1>4, AlgorithmsAssumption DEF Cutoff
  <2>4. PICK e, time, M : e = feed[i].time /\ time = t.time /\ M = TimeMod
    OBVIOUS
  <2>5. /\ M \in Nat /\ w \in 0..(M - 1) /\ time \in 0..(M - 1) /\ e \in 0..(M - 1)
        /\ e <= time /\ Cutoff(t.time) = (time - w) % M
    BY <1>4, <1>8, <2>1, <2>2, <2>3, <2>4
  <2>6. e >= (time - w) % M <=> time >= w /\ e >= time - w
    BY <2>5, CutoffIs
  <2> QED
    BY <2>4, <2>5, <2>6
<1>10. n + 1 \in BurstWindow'
  <2>1. \A j \in A \cup {n + 1} : ~(j > n + 1)
    BY <1>2
  <2> QED
    BY <1>7, <2>1
<1>11. ASSUME NEW i \in A
       PROVE  i \in BurstWindow' <=> i \in BurstWindow /\ feed[i].time >= Cutoff(t.time)
  <2>1. n + 1 > i
    BY <1>2
  <2>2. i \in BurstWindow' <=>
          /\ \A j \in A : j > i => feed[j].time >= w /\ feed[i].time >= feed[j].time - w
          /\ t.time >= w /\ feed[i].time >= t.time - w
    BY <1>2, <1>7, <2>1
  <2> QED
    BY <1>6, <1>9, <2>2
<1>12. BurstWindow \in SUBSET A /\ BurstWindow' \in SUBSET (A \cup {n + 1})
  BY <1>6, <1>7
<1>13. \A i : i \in BurstWindow' <=> (i \in BurstWindow /\ feed[i].time >= Cutoff(t.time)) \/ i = n + 1
  BY <1>2, <1>10, <1>11, <1>12
<1> QED
  BY <1>1, <1>12, <1>13 DEF NotOlder

LEMMA BurstTick ==
  ASSUME FeedInv, FeedInv', ShapeInv, BurstInv, alg = "burst", NEW t, t.price \in Int, Update(t)
  PROVE  BurstInv' /\ DOMAIN mem' = {"prices", "entry"}
<1>1. PICK n : Grown(n, t)
  BY FeedGrows
<1>2. alg' = alg /\ MomentumBurst(t) /\ DOMAIN mem = {"prices", "entry"}
  BY <1>1, OwnStrategy DEF Grown, ShapeInv
<1>3. n \in Nat /\ Alike(feed, feed', 1..n) /\ feed'[n + 1] = t
  BY <1>1 DEF Grown
<1>4. PICK I : I = BurstWindow
  OBVIOUS
<1>5. mem.prices = InOrder(I, feed)
  BY <1>4 DEF BurstInv
<1>6. CASE ~(t["price"] > 0)
  <2>1. t.price <= 0
    BY <1>6
  <2>2. mem' = mem
    BY <1>2, <2>1 DEF MomentumBurst, Ignore
  <2>3. I \in SUBSET (1..n) /\ BurstWindow' = I
    BY <1>1, <1>4, <1>6, BurstStays
  <2>4. Alike(feed, feed', I)
    BY <1>3, <2>3 DEF Alike
  <2>5. InOrder(I, feed') = InOrder(I, feed)
    BY <1>3, <2>3, <2>4, InOrderAgrees
  <2>6. mem'.prices = InOrder(BurstWindow, feed)'
    BY <1>5, <2>2, <2>3, <2>5
  <2> QED
    BY <1>2, <2>2, <2>6 DEF BurstInv
<1>7. CASE t["price"] > 0
  <2>1. ~(t.price <= 0)
    BY <1>7
  <2>2. mem'.prices = BurstPrices(t) /\ DOMAIN mem' = {"prices", "entry"}
    BY <1>2, <2>1 DEF MomentumBurst
  <2>3. PICK c : c = Cutoff(t.time)
    OBVIOUS
  <2>4. I \in SUBSET (1..n) /\ BurstWindow' = NotOlder(feed, I, c) \cup {n + 1}
    BY <1>1, <1>4, <1>7, <2>3, BurstGrows
  <2>5. c \in Int
    <3>1. t.time \in 0..(TimeMod - 1)
      BY <1>1, <1>2 DEF FeedInv, Grown
    <3> QED
      BY <2>3, <3>1, AlgorithmsAssumption DEF Cutoff, P
  <2>6. InTimeOrder(feed, I)
    <3>1. /\ \A i \in 1..n : feed[i].time \in 0..(TimeMod - 1)
          /\ \A i, j \in 1..n : i < j => feed[i].time <= feed[j].time
      BY <1>1 DEF FeedInv, Grown
    <3>2. \A i \in 1..n : feed[i].time \in Int
      BY <3>1, AlgorithmsAssumption
    <3> QED
      BY <2>4, <3>1, <3>2 DEF InTimeOrder
  <2>7. Alike(feed, feed', I)
    BY <1>3, <2>4 DEF Alike
  <2>8. PICK s : s = mem.prices
    OBVIOUS
  <2>9. BurstPrices(t) = Pushed(s, c, t)
    BY <2>3, <2>8 DEF BurstPrices, SelectInSeq, FirstLate, Pushed
  <2>10. Pushed(s, c, feed'[n + 1]) = InOrder(NotOlder(feed, I, c) \cup {n + 1}, feed')
    <3>1. PICK f, g : f = feed /\ g = feed'
      OBVIOUS
    <3>2. /\ Alike(f, g, I) /\ InTimeOrder(f, I) /\ s = InOrder(I, f)
          /\ I \in SUBSET (1..n) /\ n \in Nat
      BY <1>3, <1>5, <2>4, <2>6, <2>7, <2>8, <3>1
    <3>3. Pushed(s, c, g[n + 1]) = InOrder(NotOlder(f, I, c) \cup {n + 1}, g)
      BY <2>5, <3>2, CutAtTime
    <3> QED
      BY <3>1, <3>3
  <2>11. mem'.prices = InOrder(BurstWindow, feed)'
    BY <1>3, <2>2, <2>4, <2>9, <2>10
  <2> QED
    BY <2>2, <2>11 DEF BurstInv
<1> QED
  BY <1>6, <1>7
-----------------------------------------------------------------------------
(***************************************************************************)
(* Memory                                                                  *)
(***************************************************************************)
MemoryInv == FeedInv /\ ShapeInv /\ SmaInv /\ SpikeInv /\ BurstInv

LEMMA InitMemory == AlgorithmsInit => MemoryInv
<1> SUFFICES ASSUME AlgorithmsInit PROVE SmaInv /\ SpikeInv /\ BurstInv
  BY InitFeedInv DEF MemoryInv
<1>1. feed = << >> /\ mem = Fresh[alg]
  BY DEF AlgorithmsInit
<1>2. \A field : Accepted(field) = {}
  BY <1>1 DEF Accepted
<1>3. BurstWindow = {}
  BY <1>2 DEF BurstWindow
<1>4. ASSUME NEW field, NEW s
      PROVE  FieldAt(LastOf(Accepted(field) \cap SinceReset, s), field) = << >>
  <2>1. LastOf(Accepted(field) \cap SinceReset, s) = {}
    BY <1>2, InOrderNone
  <2> QED
    BY <2>1, InOrderNone DEF FieldAt
<1>5. alg = "sma" => mem.prices = << >>
  BY <1>1 DEF Fresh
<1>6. alg = "spike" => mem.sizes = << >>
  BY <1>1 DEF Fresh
<1>7. alg = "burst" => mem.prices = << >>
  BY <1>1 DEF Fresh
<1> QED
  BY <1>3, <1>4, <1>5, <1>6, <1>7, InOrderNone DEF SmaInv, SpikeInv, BurstInv

LEMMA TickMemory ==
  ASSUME OrderlyMarket, MemoryInv, NEW t \in Offered(alg, feed), Update(t)
  PROVE  MemoryInv'
<1>1. FeedInv /\ ShapeInv /\ SmaInv /\ SpikeInv /\ BurstInv
  BY DEF MemoryInv
<1>2. FeedInv' /\ alg' = alg
  BY <1>1, TickFeedInv DEF Update
<1>3. CASE alg = "sma"
  <2>1. t.price \in Int
    BY <1>1, <1>3 DEF OrderlyMarket, Priced, FeedInv
  <2>2. SmaInv' /\ DOMAIN mem' = {"prices", "above"}
    BY <1>1, <1>3, <2>1, SmaTick
  <2> QED
    BY <1>2, <1>3, <2>2 DEF MemoryInv, ShapeInv, SpikeInv, BurstInv
<1>4. CASE alg = "spike"
  <2>1. t.volume \in Int
    BY <1>1, <1>4 DEF OrderlyMarket, FeedInv
  <2>2. SpikeInv' /\ DOMAIN mem' = {"sizes"}
    BY <1>1, <1>4, <2>1, SpikeTick
  <2> QED
    BY <1>2, <1>4, <2>2 DEF MemoryInv, ShapeInv, SmaInv, BurstInv
<1>5. CASE alg = "burst"
  <2>1. t.price \in Int
    BY <1>1, <1>5 DEF OrderlyMarket, Priced, FeedInv
  <2>2. BurstInv' /\ DOMAIN mem' = {"prices", "entry"}
    BY <1>1, <1>2, <1>5, <2>1, BurstTick
  <2> QED
    BY <1>2, <1>5, <2>2 DEF MemoryInv, ShapeInv, SmaInv, SpikeInv
<1>6. CASE alg \notin {"sma", "spike", "burst"}
  BY <1>2, <1>6 DEF MemoryInv, ShapeInv, SmaInv, SpikeInv, BurstInv
<1> QED
  BY <1>3, <1>4, <1>5, <1>6

LEMMA ResetMemory == ASSUME MemoryInv, Reset PROVE MemoryInv'
<1>1. FeedInv /\ ShapeInv /\ SmaInv /\ SpikeInv /\ BurstInv
  BY DEF MemoryInv
<1>2. UNCHANGED <<alg, feed>> /\ resets' = resets \cup {Len(feed)} /\ DOMAIN mem' = DOMAIN mem
  BY DEF Reset
<1>3. FeedInv' /\ ShapeInv'
  BY <1>1, <1>2, OtherFeedInv DEF ShapeInv
<1>4. \A m \in DOMAIN mem : mem'[m] = IF m \in Cleared[alg] THEN Fresh[alg][m] ELSE mem[m]
  BY DEF Reset
<1>5. SmaInv'
  <2> SUFFICES ASSUME alg = "sma" PROVE SmaInv'
    BY <1>2 DEF SmaInv
  <2>1. Cleared[alg] = {"prices"} /\ Fresh[alg].prices = << >> /\ "prices" \in DOMAIN mem
    BY <1>1 DEF Cleared, Fresh, ShapeInv
  <2>2. mem'.prices = << >>
    BY <1>4, <2>1
  <2>3. PICK s : s = P'.slow
    OBVIOUS
  <2>4. FieldAt(LastOf(Accepted("price") \cap SinceReset, s), "price")' = << >>
    BY <1>1, <1>2, WindowForgotten
  <2> QED
    BY <2>2, <2>3, <2>4 DEF SmaInv, FieldAt
<1>6. SpikeInv'
  <2> SUFFICES ASSUME alg = "spike" PROVE SpikeInv'
    BY <1>2 DEF SpikeInv
  <2>1. Cleared[alg] = {"sizes"} /\ Fresh[alg].sizes = << >> /\ "sizes" \in DOMAIN mem
    BY <1>1 DEF Cleared, Fresh, ShapeInv
  <2>2. mem'.sizes = << >>
    BY <1>4, <2>1
  <2>3. PICK s : s = P'.window
    OBVIOUS
  <2>4. FieldAt(LastOf(Accepted("volume") \cap SinceReset, s), "volume")' = << >>
    BY <1>1, <1>2, WindowForgotten
  <2> QED
    BY <2>2, <2>3, <2>4 DEF SpikeInv, FieldAt
<1>7. BurstInv'
  <2> SUFFICES ASSUME alg = "burst" PROVE BurstInv'
    BY <1>2 DEF BurstInv
  <2>1. Cleared[alg] = {"prices"} /\ Fresh[alg].prices = << >> /\ "prices" \in DOMAIN mem
    BY <1>1 DEF Cleared, Fresh, ShapeInv
  <2>2. mem'.prices = << >>
    BY <1>4, <2>1
  <2>3. SinceReset' = {}
    BY <1>1, <1>2, SinceForgotten
  <2>4. BurstWindow' = {}
    BY <2>3 DEF BurstWindow
  <2> QED
    BY <2>2, <2>4, InOrderNone DEF BurstInv
<1> QED
  BY <1>3, <1>5, <1>6, <1>7 DEF MemoryInv

\* Nothing else moves the feed, and nothing but configure the memory.
LEMMA OtherMemory ==
  ASSUME MemoryInv, UNCHANGED <<alg, feed, resets>>, mem' = mem \/ alg = "rsi"
  PROVE  MemoryInv'
<1>1. FeedInv'
  BY OtherFeedInv DEF MemoryInv
<1>2. CASE alg = "rsi"
  BY <1>1, <1>2 DEF MemoryInv, ShapeInv, SmaInv, SpikeInv, BurstInv
<1>3. CASE mem' = mem
  <2>1. P' = P /\ \A field : Accepted(field)' = Accepted(field)
    BY DEF P, Accepted
  <2>2. SinceReset' = SinceReset
    BY DEF SinceReset
  <2>3. ShapeInv'
    BY <1>3 DEF MemoryInv, ShapeInv
  <2>4. SmaInv' /\ SpikeInv'
    BY <1>3, <2>1, <2>2 DEF MemoryInv, SmaInv, SpikeInv, FieldAt
  <2>5. BurstInv'
    BY <1>3, <2>1, <2>2 DEF MemoryInv, BurstInv, BurstWindow
  <2> QED
    BY <1>1, <2>3, <2>4, <2>5 DEF MemoryInv
<1> QED
  BY <1>2, <1>3

\* Every tick and every reset keeps the windows in step with the feed.
THEOREM MemoryInvariance == OrderlyMarket /\ AlgorithmsSpec => []MemoryInv
<1>1. OrderlyMarket /\ MemoryInv /\ [AlgorithmsNext]_algorithmVars => MemoryInv'
  <2> SUFFICES ASSUME OrderlyMarket, MemoryInv, [AlgorithmsNext]_algorithmVars PROVE MemoryInv'
    OBVIOUS
  <2>1. ASSUME NEW t \in Offered(alg, feed), Update(t) PROVE MemoryInv'
    BY <2>1, TickMemory
  <2>2. CASE Reset
    BY <2>2, ResetMemory
  <2>3. CASE ClearSignals
    BY <2>3, OtherMemory DEF ClearSignals
  <2>4. ASSUME NEW th \in Thresholds, Configure(th) PROVE MemoryInv'
    BY <2>4, OtherMemory DEF Configure
  <2>5. CASE UNCHANGED algorithmVars
    BY <2>5, OtherMemory DEF algorithmVars
  <2> QED
    BY <2>1, <2>2, <2>3, <2>4, <2>5 DEF AlgorithmsNext
<1>2. OrderlyMarket => OrderlyMarket'
  BY DEF OrderlyMarket
<1> QED
  BY InitMemory, <1>1, <1>2, PTL DEF AlgorithmsSpec

\* The deques of DualSMA, TradeSizeSpike and MomentumBurst hold the newest ticks since
\* the last reset, as many as their windows say.
THEOREM WindowsAreNewest == OrderlyMarket /\ AlgorithmsSpec => []WindowsHoldNewest
<1>1. MemoryInv => WindowsHoldNewest
  <2> SUFFICES ASSUME MemoryInv PROVE WindowsHoldNewest
    OBVIOUS
  <2>1. SmaInv /\ SpikeInv /\ BurstInv
    BY DEF MemoryInv
  <2>2. PICK I : I = Accepted("price") \cap SinceReset
    OBVIOUS
  <2>3. ASSUME \A i \in I : feed[i].time >= P.window PROVE BurstWindow = Recent(I)
    BY <2>2, <2>3 DEF BurstWindow, Recent
  <2> QED
    BY <2>1, <2>2, <2>3 DEF SmaInv, SpikeInv, BurstInv, WindowsHoldNewest
<1> QED
  BY MemoryInvariance, <1>1, PTL
=============================================================================
