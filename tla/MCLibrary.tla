----------------------------- MODULE MCLibrary -------------------------------
(***************************************************************************)
(* The parts of the library that stand by themselves, each on a small      *)
(* instance: a behaviour is one of them at work and the others at rest.    *)
(* Sides, ids and traders are only compared for equality, and the run      *)
(* checks safety only.                                                     *)
(*                                                                         *)
(* For every trading algorithm there are windows of a few ticks, and ticks *)
(* on both sides of each of its thresholds, with only the fields it reads. *)
(***************************************************************************)
EXTENDS BitScanningOrderBook, BitmaskOrderBook, FlatHashFreeArray, ZeroCopyUDP,
        RiskManager, TradingAlgorithms, DashboardChart, TLC

VARIABLE subject

Subjects == {"bits", "bitmask", "table", "udp", "risk", "algorithms", "chart"}

\* At rest, the book's memory was clean and the algorithm is any one.
AtRest ==
  /\ subject = "bits" \/ \A s \in Sides, l \in Slots : level[s][l] = 0
  /\ subject = "algorithms" \/ alg = "rsi"

Init ==
  /\ subject \in Subjects
  /\ BitInit
  /\ PackedInit
  /\ TableInit
  /\ UdpInit
  /\ RiskInit
  /\ AlgorithmsInit
  /\ ChartInit
  /\ AtRest

Next ==
  /\ UNCHANGED subject
  /\ \/ subject = "bits" /\ BitNext
        /\ UNCHANGED <<packedVars, tableVars, udpVars, riskVars, algorithmVars, chartVars>>
     \/ subject = "bitmask" /\ PackedNext
        /\ UNCHANGED <<bitVars, tableVars, udpVars, riskVars, algorithmVars, chartVars>>
     \/ subject = "table" /\ TableNext
        /\ UNCHANGED <<bitVars, packedVars, udpVars, riskVars, algorithmVars, chartVars>>
     \/ subject = "udp" /\ UdpNext
        /\ UNCHANGED <<bitVars, packedVars, tableVars, riskVars, algorithmVars, chartVars>>
     \/ subject = "risk" /\ RiskNext
        /\ UNCHANGED <<bitVars, packedVars, tableVars, udpVars, algorithmVars, chartVars>>
     \/ subject = "algorithms" /\ AlgorithmsNext
        /\ UNCHANGED <<bitVars, packedVars, tableVars, udpVars, riskVars, chartVars>>
     \/ subject = "chart" /\ ChartNext
        /\ UNCHANGED <<bitVars, packedVars, tableVars, udpVars, riskVars, algorithmVars>>

LibrarySpec ==
  Init /\ [][Next]_<<subject, bitVars, packedVars, tableVars, udpVars, riskVars,
                     algorithmVars, chartVars>>

Symmetry ==
  UNION {Permutations(S) : S \in {Sides, OrderIds, Traders}}

SmallSizes == {-4, -1, 1, 2, 3}

SmallParam ==
  [rsi        |-> [low |-> 30, high |-> 70],
   macd       |-> [fast |-> 1, slow |-> 3, signal |-> 3, scale |-> 256],
   sma        |-> [fast |-> 1, slow |-> 3],
   burst      |-> [percent |-> 40, window |-> 2],
   trend      |-> [period |-> 2, multiplier |-> 1],
   vwap       |-> [percent |-> 15],
   spike      |-> [multiplier |-> 2, window |-> 3],
   delta      |-> [threshold |-> 1, window |-> 2],
   spread     |-> [narrow |-> 500, wide |-> 2000],
   volatility |-> [lookback |-> 6, burst |-> 1, multiple |-> 120]]

SmallTicks ==
  [rsi    |-> [rsi : {0, 20, 40, 50, 80}],
   macd   |-> [price : {0, 1, 2, 3}],
   sma    |-> [price : {0, 1, 2, 3}],
   burst  |-> [time : {0, 2, 3, 5}, price : {0, 1, 2, 4}],
   trend  |-> [price : {0, 1, 2, 4}],
   vwap   |-> [vwap : {0, 10}, price : {8, 10, 11, 12}],
   spike  |-> [volume : {0, 1, 6}, buy : BOOLEAN],
   delta  |-> [volume : {1, 2}, buy : BOOLEAN],
   spread |-> [bid : {10}, ask : {0, 9, 10, 11, 13}]]

\* Changes between 3 and 4 are calm; one price may be farther off, or missing, when
\* the window is nearly full.
CalmPrices == {3, 4}
OddPrices == {0, 2, 120}

\* Trades come in the order of their times.
SmallOffered(a, f) ==
  CASE a = "burst" -> {t \in SmallTicks[a] : f = << >> \/ t.time >= Last(f).time}
    [] a = "volatility" ->
         [price : IF Len(f) >= 6 /\ \A i \in DOMAIN f : f[i].price \in CalmPrices
                  THEN CalmPrices \cup OddPrices ELSE CalmPrices]
    [] OTHER -> SmallTicks[a]

SmallMaxTicks ==
  [rsi |-> 4, macd |-> 5, sma |-> 5, burst |-> 4, trend |-> 5, vwap |-> 4,
   spike |-> 4, delta |-> 5, spread |-> 4, volatility |-> 9]

\* Two numbers, and a word.
SmallThresholds == {<<45, 45>>, <<0>>}
=============================================================================
