-------------------------- MODULE MCInventorySync --------------------------
(* Small instances of InventorySync: one pair costs 2, so a price of 1 is in *)
(* the middle.                                                              *)
EXTENDS InventorySync

Deal(scenario, role, fee) ==
    [scenario |-> scenario, role |-> role, qty |-> 1, price |-> 1, fee |-> fee]

\* Sales of both sides, one with a fee, and a trade between strangers.
MCDeals == {Deal("TRANSFER_YES", "seller", 0), Deal("TRANSFER_NO", "seller", 1),
            Deal("TRANSFER_YES", "none", 0)}
MCSales == {Deal("TRANSFER_YES", "seller", 0)}
=============================================================================
