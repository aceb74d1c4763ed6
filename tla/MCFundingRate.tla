--------------------------- MODULE MCFundingRate ---------------------------
(* Instances of FundingRate for TLC: one market with a feed, one without;   *)
(* prices that give steps below, at and beyond the limit, both ways.        *)
EXTENDS FundingRate

MCMarkets == {"BTC-PERP", "ETH-PERP"}

MCFeeds == {"BTC-PERP"}

MCMarks == {9, 14}

MCIndexes == {10}

=============================================================================
