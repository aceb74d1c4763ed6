--------------------------- MODULE MCMatchEngine ---------------------------
(* Instances of MatchEngine for TLC. *)
EXTENDS MatchEngine

Buy(n, perp, paper, credit) ==
    [nonce |-> n, perp |-> perp, paper |-> paper, credit |-> -credit]

Sell(n, perp, paper, credit) ==
    [nonce |-> n, perp |-> perp, paper |-> -paper, credit |-> credit]

MCPerps == {"BTC", "ETH"}

\* A better and a larger buy, a sell that needs both, which asks for 2.5 and has
\* the price 2, a sell of the same price that must wait for it, a worse sell
\* that only the better buy accepts, and one of size 0, which comes before all
\* of them and stops the passes.  The book of the other perpetual stays empty.
MCOrders == {Buy(1, "BTC", 1, 3), Buy(2, "BTC", 2, 5),
             Sell(3, "BTC", 2, 5), Sell(4, "BTC", 1, 2),
             Sell(5, "BTC", 1, 3), Sell(6, "BTC", 0, 1)}

\* Two buys of one price and a better one: the third makes the sort rearrange.
MCEqualBuys == {Buy(1, "BTC", 1, 2), Buy(2, "BTC", 1, 2), Buy(3, "BTC", 1, 3),
                Sell(4, "BTC", 2, 2)}

=============================================================================
