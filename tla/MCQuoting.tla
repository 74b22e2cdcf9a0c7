----------------------------- MODULE MCQuoting -----------------------------
(* Instances of Quoting with few prices: the reservation price goes beyond *)
(* them on both sides, and the raw spread is below, within and above its   *)
(* limits.  WIDEN multiplies by 1.5, the default widen_factor.             *)
EXTENDS Quoting

CONSTANTS LastMid, LastHalf

MCMids == -1 .. LastMid
MCHalves == 0 .. LastHalf
MCSizes == <<2, 1>>
=============================================================================
