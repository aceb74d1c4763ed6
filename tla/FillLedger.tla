----------------------------- MODULE FillLedger -----------------------------
(***************************************************************************)
(* What the matching engine promises, without books, prices queues, locks  *)
(* or goroutines: fills come in pairs of a buy and a sell of one perpetual *)
(* whose prices cross, both grow by the same amount, which uses up one of  *)
(* them, and neither ever exceeds the size its owner signed.  traded       *)
(* survives restarts.                                                      *)
(***************************************************************************)
EXTENDS OrderData

VARIABLE traded      \* order -> the amount ever put in a trade

Open(o) == Size(o) - traded[o]

Tradable(b, s) == /\ SideOf(b) = "buy"
                  /\ SideOf(s) = "sell"
                  /\ b.perp = s.perp
                  /\ Price(b) >= Price(s)

Init == traded = [o \in Orders |-> 0]

\* What is left of the smaller of the two.
Volume(b, s) == IF Open(b) < Open(s) THEN Open(b) ELSE Open(s)

Trade(b, s) ==
    /\ Tradable(b, s)
    /\ Volume(b, s) > 0
    /\ traded' = [traded EXCEPT ![b] = @ + Volume(b, s), ![s] = @ + Volume(b, s)]

Next == \E b, s \in Orders : Trade(b, s)

Spec == Init /\ [][Next]_traded

=============================================================================
