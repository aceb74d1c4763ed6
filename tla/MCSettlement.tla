---------------------------- MODULE MCSettlement ----------------------------
(* Instances of Settlement for TLC. *)
EXTENDS Settlement

Buy(n, paper, credit) == [nonce |-> n, perp |-> "BTC", paper |-> paper, credit |-> -credit]

Sell(n, paper, credit) == [nonce |-> n, perp |-> "BTC", paper |-> -paper, credit |-> credit]

MCPerps == {"BTC"}

\* A buy that takes two trades to fill, a sell that takes two, one of each
\* that takes one; every pair crosses.
MCOrders == {Buy(1, 3, 9), Buy(2, 1, 3), Sell(3, 2, 4), Sell(4, 1, 2)}

\* The small buy cannot be encoded.
MCEncodable == MCOrders \ {Buy(2, 1, 3)}

=============================================================================
