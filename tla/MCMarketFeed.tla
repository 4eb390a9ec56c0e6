---------------------------- MODULE MCMarketFeed ----------------------------
(* Small instances of MarketFeed.                                          *)
EXTENDS MarketFeed
=============================================================================
