---------------------------- MODULE MCLifecycle ----------------------------
(* Instances of Lifecycle with two markets, one of which has an oracle. *)
EXTENDS Lifecycle

CONSTANTS m1, m2

MCMarkets == {m1, m2}
MCOracleMarkets == {m1}
=============================================================================
