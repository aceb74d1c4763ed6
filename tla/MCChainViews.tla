---------------------------- MODULE MCChainViews ----------------------------
(* Instances of ChainViews for TLC. *)
EXTENDS ChainViews, FiniteSetsExt

MCPerps == {"BTC", "ETH"}

MCMarkets == <<"BTC", "ETH">>

Holds(paper, credit, mark, rate) ==
    [paper |-> paper, credit |-> credit, mark |-> mark, rate |-> rate]

\* No position; a long one that is worth what it cost; a short one under water.
MCAccounts == {Holds(0, 0, 3, 0), Holds(2, -5, 3, 1), Holds(-1, 2, 4, 1)}

\* The sums over a trader's positions; a sixth of the exposure has to be kept.
MCTraderRisk ==
    [c \in [MCPerps -> MCAccounts] |->
        LET exposure == MapThenSumSet(LAMBDA p : AbsInt(c[p].paper) * c[p].mark, MCPerps)
        IN [value |-> MapThenSumSet(LAMBDA p : c[p].credit + c[p].paper * c[p].mark, MCPerps),
            exposure |-> exposure,
            maintenance |-> exposure \div 6]]

=============================================================================
