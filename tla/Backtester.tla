------------------------------ MODULE Backtester -----------------------------
(***************************************************************************)
(* Backtester (src/Backtester.cpp): load_csv aggregates rows into bars,    *)
(* run feeds the bars to a signal generator of its own and trades on its   *)
(* signals, compute_metrics sums up.  One bar of run's loop is a step.     *)
(* Left out: reasons, open/high/low (never read), percentages, averages    *)
(* and the Sharpe ratio.                                                   *)
(***************************************************************************)
EXTENDS SignalGenerator, SequencesExt

CONSTANT MaxRuns   \* bound: calls of run in a behaviour

ASSUME BacktestAssumption == MaxRuns \in Nat

VARIABLES
  stage,     \* "empty", "ready" (bars loaded), "running"
  bars,      \* bars_
  btGen,     \* signal_gen_
  next,      \* bar that run's loop is at
  position,  \* current_position
  entry,     \* bar of the open position
  trades,    \* trades_
  metrics,   \* metrics_
  runs,      \* calls of run so far
  equity,    \* history: value of all positions of this run, marked to market
  log,       \* history: signals of this run, bar by bar
  firstLog   \* history: signals of the first run

btVars == <<stage, bars, btGen, next, position, entry, trades, metrics, runs,
            equity, log, firstLog>>

NoMetrics == [total |-> 0, wins |-> 0, losses |-> 0, pnl |-> 0, drawdown |-> 0,
              winStreak |-> 0, lossStreak |-> 0]

BtInit ==
  /\ stage = "empty"
  /\ bars = << >>
  /\ btGen = NewGenerator
  /\ next = 1
  /\ position = "NONE"
  /\ entry = 1
  /\ trades = << >>
  /\ metrics = NoMetrics
  /\ runs = 0
  /\ equity = 0
  /\ log = << >>
  /\ firstLog = << >>
-----------------------------------------------------------------------------
(***************************************************************************)
(* load_csv                                                                *)
(***************************************************************************)
BarOf(row) == [interval |-> row.interval, close |-> row.price, above |-> row.price > row.vwap,
               rsi |-> row.rsi, volume |-> row.volume]

\* A row of the current interval is the current bar's last word and adds its
\* volume; any other row begins a bar.
Aggregate(all, row) ==
  IF all # << >> /\ Last(all).interval = row.interval
  THEN [all EXCEPT ![Len(all)] = [BarOf(row) EXCEPT !.volume = @ + Last(all).volume]]
  ELSE Append(all, BarOf(row))

AllBars(rows) == FoldLeft(Aggregate, << >>, rows)

\* The last bar counts only with a volume.
BarsOf(rows) ==
  LET all == AllBars(rows)
  IN  IF all # << >> /\ Last(all).volume = 0 THEN Front(all) ELSE all

Load(rows) ==
  /\ stage = "empty"
  /\ BarsOf(rows) # << >>
  /\ stage' = "ready"
  /\ bars' = BarsOf(rows)
  /\ UNCHANGED <<btGen, next, position, entry, trades, metrics, runs, equity, log, firstLog>>
-----------------------------------------------------------------------------
(***************************************************************************)
(* compute_metrics                                                         *)
(***************************************************************************)
SumPnl(ts) == FoldLeft(LAMBDA sum, t : sum + t.pnl, 0, ts)

NoTrades == [pnl |-> 0, peak |-> 0, wins |-> 0, losses |-> 0, streakW |-> 0, streakL |-> 0,
             maxW |-> 0, maxL |-> 0]

Larger(a, b) == IF a > b THEN a ELSE b

\* A trade without gain or loss leaves both streaks as they are.
Account(acc, t) ==
  LET pnl == acc.pnl + t.pnl
      streakW == IF t.pnl > 0 THEN acc.streakW + 1 ELSE IF t.pnl < 0 THEN 0 ELSE acc.streakW
      streakL == IF t.pnl < 0 THEN acc.streakL + 1 ELSE IF t.pnl > 0 THEN 0 ELSE acc.streakL
  IN  [pnl |-> pnl, peak |-> Larger(acc.peak, pnl),
       wins |-> IF t.pnl > 0 THEN acc.wins + 1 ELSE acc.wins,
       losses |-> IF t.pnl < 0 THEN acc.losses + 1 ELSE acc.losses,
       streakW |-> streakW, streakL |-> streakL,
       maxW |-> Larger(acc.maxW, streakW), maxL |-> Larger(acc.maxL, streakL)]

\* max_drawdown is the distance of the final result from the peak (here before
\* it is divided by the peak).
MetricsOf(ts) ==
  LET acc == FoldLeft(Account, NoTrades, ts)
  IN  [total |-> Len(ts), wins |-> acc.wins, losses |-> acc.losses, pnl |-> acc.pnl,
       drawdown |-> acc.peak - acc.pnl, winStreak |-> acc.maxW, lossStreak |-> acc.maxL]
-----------------------------------------------------------------------------
(***************************************************************************)
(* run                                                                     *)
(***************************************************************************)
\* Mutant: the open position of an earlier run is kept.
StartKeeping ==
  /\ stage = "ready"
  /\ runs < MaxRuns
  /\ stage' = "running"
  /\ trades' = << >>
  /\ next' = 1
  /\ equity' = 0
  /\ log' = << >>
  /\ UNCHANGED <<bars, btGen, position, entry, metrics, runs, firstLog>>

\* The signal generator goes on from where an earlier run left it.
Start ==
  /\ stage = "ready"
  /\ runs < MaxRuns
  /\ stage' = "running"
  /\ position' = "NONE"
  /\ trades' = << >>
  /\ next' = 1
  /\ equity' = 0
  /\ log' = << >>
  /\ UNCHANGED <<bars, btGen, entry, metrics, runs, firstLog>>

Signal == SignalOf(btGen, bars[next])

Gained(bar) ==
  CASE position = "BUY" -> bars[bar].close - bars[entry].close
    [] position = "SELL" -> bars[entry].close - bars[bar].close
    [] OTHER -> 0

Trade(bar) == [entered |-> entry, exited |-> bar, side |-> position, pnl |-> Gained(bar)]

Opens == position = "NONE" /\ Signal # "NONE"
Closes == position # "NONE" /\ Signal # "NONE" /\ Signal # position

\* Mutant: an opposite signal also opens the opposite position.
OnBarReversing ==
  /\ stage = "running"
  /\ next <= Len(bars)
  /\ btGen' = Updated(btGen, bars[next])
  /\ trades' = IF Closes THEN Append(trades, Trade(next)) ELSE trades
  /\ position' = IF Opens \/ Closes THEN Signal ELSE position
  /\ entry' = IF Opens \/ Closes THEN next ELSE entry
  /\ next' = next + 1
  /\ equity' = equity + (IF next = 1 THEN 0 ELSE Gained(next) - Gained(next - 1))
  /\ log' = Append(log, Signal)
  /\ UNCHANGED <<stage, bars, metrics, runs, firstLog>>

OnBar ==
  /\ stage = "running"
  /\ next <= Len(bars)
  /\ btGen' = Updated(btGen, bars[next])
  /\ trades' = IF Closes THEN Append(trades, Trade(next)) ELSE trades
  /\ position' = IF Opens THEN Signal ELSE IF Closes THEN "NONE" ELSE position
  /\ entry' = IF Opens THEN next ELSE entry
  /\ next' = next + 1
  /\ equity' = equity + (IF next = 1 THEN 0 ELSE Gained(next) - Gained(next - 1))
  /\ log' = Append(log, Signal)
  /\ UNCHANGED <<stage, bars, metrics, runs, firstLog>>

\* An open position is closed at the last bar.
Finish ==
  /\ stage = "running"
  /\ next > Len(bars)
  /\ stage' = "ready"
  /\ trades' = IF position = "NONE" THEN trades ELSE Append(trades, Trade(Len(bars)))
  /\ metrics' = MetricsOf(trades')
  /\ runs' = runs + 1
  /\ firstLog' = IF runs = 0 THEN log ELSE firstLog
  /\ UNCHANGED <<bars, btGen, next, position, entry, equity, log>>

BtNext == Start \/ OnBar \/ Finish
-----------------------------------------------------------------------------
(***************************************************************************)
(* Correctness                                                             *)
(***************************************************************************)
\* The trades of a run follow one another without overlap, and only the one
\* closed by the end of the data may be entered and left at the same bar.
TradesDisjoint ==
  /\ \A k \in 1..Len(trades) :
       /\ trades[k].entered <= trades[k].exited
       /\ trades[k].entered = trades[k].exited => k = Len(trades) /\ trades[k].exited = Len(bars)
  /\ \A k \in 1..(Len(trades) - 1) : trades[k].exited < trades[k + 1].entered

\* The trades' profits are what the positions gained bar by bar: nothing is
\* counted twice or dropped, also at the forced exit.
ProfitIsEquity ==
  /\ stage = "running" /\ next > 1 => SumPnl(trades) + Gained(next - 1) = equity
  /\ stage = "ready" /\ runs > 0 => metrics.pnl = equity

\* A second run on the same bars begins with what the generator remembers of
\* the first; it sees the same signals from the second bar on.
RerunAgrees ==
  runs > 0 => \A k \in 2..Len(log) : log[k] = firstLog[k]
=============================================================================
