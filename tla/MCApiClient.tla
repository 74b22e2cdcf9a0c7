---------------------------- MODULE MCApiClient ----------------------------
(* Small instances of ApiClient. *)
EXTENDS ApiClient, TLC

CONSTANTS c1, c2
MCCalls == {c1, c2}
MCSymmetry == Permutations(MCCalls)
=============================================================================
