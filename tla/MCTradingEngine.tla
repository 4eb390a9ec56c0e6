--------------------------- MODULE MCTradingEngine ---------------------------
(* Small instances of TradingEngine.                                       *)
EXTENDS TradingEngine
=============================================================================
