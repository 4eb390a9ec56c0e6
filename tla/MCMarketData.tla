----------------------------- MODULE MCMarketData -----------------------------
(***************************************************************************)
(* The two ways of the market's data through the program, each on a small  *)
(* instance: depth messages into the order book, and trade samples through *)
(* the indicators and the CSV file into the backtest.  A behaviour follows *)
(* one of them, the other rests in one of its initial states.              *)
(***************************************************************************)
EXTENDS MarketFeed, Replay

VARIABLE subject

DataInit ==
  /\ subject \in {"book", "replay"}
  /\ Init /\ (subject = "replay" => Listed(live) = {})
  /\ ReplayInit

DataNext ==
  /\ UNCHANGED subject
  /\ \/ subject = "book" /\ Next /\ UNCHANGED replayVars
     \/ subject = "replay" /\ ReplayNext /\ UNCHANGED vars

DataSpec == DataInit /\ [][DataNext]_<<subject, vars, replayVars>>
=============================================================================
