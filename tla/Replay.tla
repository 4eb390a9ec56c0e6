------------------------------- MODULE Replay --------------------------------
(***************************************************************************)
(* A session collects samples and writes market_data.csv; afterwards       *)
(* tools/run_backtest.cpp, or the BACKTEST button of a later session,      *)
(* loads the file and runs the backtest, the button more than once.  The   *)
(* bars are therefore those that a session can write.                      *)
(***************************************************************************)
EXTENDS Indicators, Backtester

replayVars == <<liveVars, btVars>>

ReplayInit == LiveInit /\ BtInit

Live == stage = "empty" /\ LiveNext /\ UNCHANGED btVars

LoadRows == Load(rows) /\ UNCHANGED liveVars

Test == BtNext /\ UNCHANGED liveVars

ReplayNext == Live \/ LoadRows \/ Test

ReplaySpec == ReplayInit /\ [][ReplayNext]_replayVars
-----------------------------------------------------------------------------
\* Printing VWAP to the cent never puts a price above VWAP that was not above it
\* live, and hides one that was only if it was within half a cent of VWAP.
ReplayHidesOnly ==
  \A k \in 1..Len(rows) :
    LET n == k * RowEvery
        pv == MapThenSumSet(LAMBDA i : feed[i].price * feed[i].volume, 1..n)
        v == MapThenSumSet(LAMBDA i : feed[i].volume, 1..n)
    IN  /\ rows[k].price > rows[k].vwap => AboveVwap(feed[n].price, pv, v)
        /\ rows[k].price <= rows[k].vwap => 2 * (feed[n].price * v - pv) <= v
=============================================================================
