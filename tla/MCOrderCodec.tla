---------------------------- MODULE MCOrderCodec ----------------------------
(* Instances of OrderCodec for TLC. *)
EXTENDS OrderCodec

Text(value) == [value |-> value, blank |-> FALSE]

Request(paper, makerFee, takerFee, expiration, nonce) ==
    [perp |-> [address |-> "A", spelling |-> "lower"], signer |-> "Alice",
     paper |-> Text(paper), credit |-> Text(-1),
     makerFee |-> Text(makerFee), takerFee |-> Text(takerFee),
     expiration |-> expiration, nonce |-> nonce, v |-> 0, recovery |-> 0]

Plain == Request(1, 0, 0, 1, 0)

\* Fields at both ends of their range and next to each other in info; one
\* order in three spellings; signatures with v in each form; a fee and an
\* amount that are refused; sells that a buy accepts, one in the other
\* spelling, one with a blank ahead of its limit, and one that asks for more.
MCRequests ==
    {Plain,
     [Plain EXCEPT !.perp.spelling = "upper"],
     [Plain EXCEPT !.paper.blank = TRUE, !.v = NoV],
     Request(1, 0, 1, 0, 0),
     Request(1, 1, 0, 0, 0),
     Request(1, -2, -1, 1, 1),
     Request(1, -1, -2, 1, 1),
     [Request(-1, 0, 0, 1, 1) EXCEPT !.v = 28, !.recovery = 1],
     [Request(-2, 0, 0, 1, 1) EXCEPT !.v = 2],
     [Request(-3, 0, 0, 1, 1) EXCEPT !.perp.spelling = "upper"],
     [Request(-1, 0, 0, 1, 0) EXCEPT !.credit = [value |-> 2, blank |-> TRUE]],
     [Request(-1, 0, 0, 1, 1) EXCEPT !.credit = Text(3)],
     Request(1, 2, 0, 1, 0),
     Request(NotANumber, 0, 0, 1, 0)}

=============================================================================
