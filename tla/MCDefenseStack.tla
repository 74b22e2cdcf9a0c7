--------------------------- MODULE MCDefenseStack ---------------------------
(* default.yaml's thresholds, with inputs on both sides of each of them. *)
EXTENDS DefenseStack

MCSkews == {-85, -60, 0, 29, 30, 79}
MCPnls == {-5000, -2500, -2499, 0, 6000}
=============================================================================
