--------------------------- MODULE MCOrderManager ---------------------------
(* Small instances of OrderManager. *)
EXTENDS OrderManager

Yes(price) == <<"YES", "SELL", price>>
No(price)  == <<"NO", "SELL", price>>

Want(action, key, qty) == [action |-> action, key |-> key, qty |-> qty]

MCKeys == {Yes(52), Yes(53), No(50)}
MCQuantities == {1, 2}

\* No quote; one order; a ladder of two; a replacement on the same book, and
\* the same with a second order in the way; the other side; another quantity.
MCIntentLists ==
    { <<>>,
      <<Want("PLACE", Yes(52), 1)>>,
      <<Want("PLACE", Yes(52), 1), Want("PLACE", Yes(53), 1)>>,
      <<Want("REPLACE", Yes(53), 2)>>,
      <<Want("PLACE", No(50), 1), Want("REPLACE", Yes(53), 2)>> }

\* Enough for a ladder, a cancel and a replacement.
MCShortLists ==
    { <<>>,
      <<Want("PLACE", Yes(52), 1), Want("PLACE", No(50), 1)>>,
      <<Want("REPLACE", Yes(53), 2)>> }
=============================================================================
