---------------------------- MODULE MCOrderPages ----------------------------
(* Instances of OrderPages for TLC. *)
EXTENDS OrderPages

Order(n) == [nonce |-> n, perp |-> IF n = 4 THEN "ETH" ELSE "BTC",
             paper |-> 1, credit |-> -2]

MCPerps == {"BTC", "ETH"}

\* Order 4 expires at second 1, the others never within the bound; it is
\* for another perpetual than the one the client asks for.
MCOrders == {Order(n) : n \in 1..4}

MCWanted == {Order(n) : n \in 1..3}

MCExpiration == [o \in MCOrders |-> IF o = Order(4) THEN 1 ELSE 9]

MCReqs == {"r1", "r2"}

\* Order 2 may share its second with order 3.
MCEarlier == [o \in {Order(1), Order(2)} |-> o.nonce - 2]

=============================================================================
