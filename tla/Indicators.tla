----------------------------- MODULE Indicators ------------------------------
(***************************************************************************)
(* What main does with a sample (main.cpp:131-172): VWAPCalculator's VWAP, *)
(* SMA and RSI, the signal, and every RowEvery samples a row of            *)
(* market_data.csv.  Prices are in cents.  Averages are kept as exact      *)
(* sums and fractions; a row holds what is printed: VWAP rounded to a cent *)
(* and RSI to a tenth.                                                     *)
(***************************************************************************)
EXTENDS SignalGenerator, Sequences, FiniteSetsExt

CONSTANTS
  TradePrices, \* trade prices
  Volumes,     \* trade quantities
  MaxSamples,  \* MAX_SAMPLES, capacity of the sample buffer
  SmaWindow,   \* SMA_WINDOW
  RsiWindow,   \* RSI_WINDOW
  RowEvery,    \* main writes a row every so many samples
  MaxFeed      \* bound: samples in a session

ASSUME IndicatorsAssumption ==
  /\ TradePrices \subseteq Nat \ {0}
  /\ Volumes \subseteq Nat \ {0}
  /\ {SmaWindow, RsiWindow, RowEvery} \subseteq Nat \ {0}
  /\ MaxSamples \in Nat
  /\ SmaWindow <= MaxSamples
  /\ RsiWindow < MaxSamples
  /\ MaxFeed \in Nat

VARIABLES
  ring,     \* samples_, which is only ever pushed to
  sumPV,    \* cumulative_volume_price_
  sumV,     \* cumulative_volume_
  sma,      \* SmaWindow times sma_
  rsi,      \* rsi_
  gen,      \* signal_gen
  feed,     \* history: all samples
  signals,  \* signals_, with the number of the sample
  rows      \* rows of market_data.csv

liveVars == <<ring, sumPV, sumV, sma, rsi, gen, feed, signals, rows>>

Neutral == [num |-> 50, den |-> 1]

LiveInit ==
  /\ ring = << >>
  /\ sumPV = 0
  /\ sumV = 0
  /\ sma = 0
  /\ rsi = Neutral
  /\ gen = NewGenerator
  /\ feed = << >>
  /\ signals = << >>
  /\ rows = << >>

\* RingBuffer::push refuses a sample when it is full; the caller ignores that.
Push(buffer, sample) ==
  IF Len(buffer) < MaxSamples THEN Append(buffer, sample) ELSE buffer

SumPrices(s, from, to) == MapThenSumSet(LAMBDA i : s[i].price, from..to)

\* compute_sma: the newest SmaWindow samples of the buffer.
Sma(s) ==
  IF Len(s) < SmaWindow THEN 0 ELSE SumPrices(s, Len(s) - SmaWindow + 1, Len(s))

\* compute_rsi: gains and losses over the first RsiWindow steps of the buffer.
Gain(s, i) == IF s[i + 1].price > s[i].price THEN s[i + 1].price - s[i].price ELSE 0
Loss(s, i) == IF s[i + 1].price > s[i].price THEN 0 ELSE s[i].price - s[i + 1].price
Gains(s) == MapThenSumSet(LAMBDA i : Gain(s, i), 1..RsiWindow)
Losses(s) == MapThenSumSet(LAMBDA i : Loss(s, i), 1..RsiWindow)

Rsi(s) ==
  IF Len(s) <= RsiWindow THEN Neutral
  ELSE IF Losses(s) = 0 THEN [num |-> 100, den |-> 1]
  ELSE [num |-> 100 * Gains(s), den |-> Gains(s) + Losses(s)]

\* price > vwap_, where VWAP is 0 as long as the volume is.
AboveVwap(price, pv, v) == price * v > pv \/ v = 0

Rounded(num, den) == (2 * num + den) \div (2 * den)
\* Mutant: VWAP is printed to a tenth.
PrintedVwapCoarse(pv, v) == IF v = 0 THEN 0 ELSE 10 * Rounded(pv, 10 * v)
PrintedVwap(pv, v) == IF v = 0 THEN 0 ELSE Rounded(pv, v)
PrintedRsi(r) == [num |-> Rounded(10 * r.num, r.den), den |-> 10]

LastInterval == IF rows = << >> THEN 1 ELSE rows[Len(rows)].interval

\* Main reads quantity 0 when it samples the first trade before its quantity
\* is stored.
Volume == IF feed = << >> THEN Volumes \cup {0} ELSE Volumes

Input(price) == [above |-> AboveVwap(price, sumPV', sumV'), rsi |-> rsi']

\* signals_ once the sample is taken.
Recorded(in) ==
  IF SignalOf(gen, in) = "NONE" THEN signals
  ELSE Append(signals, [at |-> Len(feed'), signal |-> SignalOf(gen, in),
                        crossing |-> ByCrossing(gen, in)])

Sample(price, volume, interval) ==
  /\ Len(feed) < MaxFeed
  /\ feed' = Append(feed, [price |-> price, volume |-> volume])
  /\ ring' = Push(ring, [price |-> price, volume |-> volume])
  /\ sumPV' = sumPV + price * volume
  /\ sumV' = sumV + volume
  /\ sma' = Sma(ring')
  /\ rsi' = Rsi(ring')
  /\ gen' = Updated(gen, Input(price))
  /\ signals' = Recorded(Input(price))
  /\ rows' = IF Len(feed') % RowEvery # 0 THEN rows
             ELSE Append(rows, [interval |-> interval, price |-> price, volume |-> volume,
                                vwap |-> PrintedVwap(sumPV', sumV'),
                                rsi |-> PrintedRsi(rsi')])

LiveNext ==
  \E price \in TradePrices, volume \in Volume, interval \in {LastInterval, LastInterval + 1} :
    Sample(price, volume, interval)
-----------------------------------------------------------------------------
(***************************************************************************)
(* Correctness                                                             *)
(***************************************************************************)
\* Two signals in a row that are crossings of VWAP go opposite ways
\* (SignalGenerator.cpp:13-47): no crossing is reported twice, and none is passed
\* over but for another signal.
CrossingsAlternate ==
  \A k \in 2..Len(signals) :
    signals[k].crossing /\ signals[k - 1].crossing => signals[k].signal # signals[k - 1].signal

\* DESIGN.md:59 ("Average gain / Average loss over period") with :57 ("Period: 14"):
\* RSI is that of the newest RsiWindow steps.
RsiFollowsPrices ==
  Len(ring) > RsiWindow =>
    LET now == Rsi(SubSeq(ring, Len(ring) - RsiWindow, Len(ring)))
    IN  rsi.num * now.den = now.num * rsi.den
=============================================================================
