--------------------------- MODULE MCMarketStream ---------------------------
(* Instances of MarketStream for TLC.                                      *)
EXTENDS MarketStream
=============================================================================
