----------------------------- MODULE MCExchange -----------------------------
(* Instances of Exchange for TLC. *)
EXTENDS Exchange

Buy(n, paper, credit) == [nonce |-> n, perp |-> "BTC", paper |-> paper, credit |-> -credit]

Sell(n, paper, credit) == [nonce |-> n, perp |-> "BTC", paper |-> -paper, credit |-> credit]

MCPerps == {"BTC"}

\* A buy of two and a sell of one that cross: the sell is filled, the buy is
\* left half filled in the book.
MCPair == {Buy(1, 2, 4), Sell(2, 1, 2)}

\* And a second sell, for less: the buy ends filled by both, if both come.
MCThree == MCPair \cup {Sell(3, 1, 1)}

MCExpiration == [o \in Orders |-> 1]

=============================================================================
