---------------------------- MODULE MCMarketRisk ----------------------------
(* A small instance of MarketRisk: one price near the internal one, one not. *)
EXTENDS MarketRisk

MCPrices == {40, 75}
MCMids == {40, 60}
=============================================================================
