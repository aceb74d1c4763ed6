----------------------------- MODULE OrderData -----------------------------
(***************************************************************************)
(* The orders of the exchange and the pure functions the matching engine   *)
(* computes on them (src/internal/engine/matchengine.go).                  *)
(*                                                                         *)
(* An order is a record.  The EIP-712 digest is the order's id in the      *)
(* program; here the record itself is the identity, so two orders that     *)
(* differ in nothing but the nonce differ in the field "nonce".  Perp is   *)
(* the raw text of the request: the engine keys its books by that text and *)
(* not by the address it denotes.  paper is what big.Int.SetString makes   *)
(* of PaperAmount: positive buys, negative sells, and zero is possible     *)
(* (nothing on the way in refuses it).                                     *)
(***************************************************************************)
EXTENDS Integers, Sequences, Functions

CONSTANTS Orders,      \* the orders clients may ever submit
          Perps,       \* the texts used as order.Perp
          Precision,   \* 10^18 in the code: prices are integers in 1/Precision
          StableMax    \* longest slice sort.Slice sorts stably: 12 in Go 1.24

ASSUME OrdersAssumption ==
    \A o \in Orders : /\ o.perp \in Perps
                      /\ o.paper \in Int
                      /\ o.credit \in Int

ASSUME PrecisionAssumption == Precision \in Nat \ {0}

ASSUME StableMaxAssumption == StableMax \in Nat

Side == {"buy", "sell"}

AbsVal(i) == IF i < 0 THEN -i ELSE i

\* absPaperString(order.PaperAmount)
Size(o) == AbsVal(o.paper)

\* AddOrder's sign test: an order of size zero goes with the sells.
SideOf(o) == IF o.paper > 0 THEN "buy" ELSE "sell"

\* calculatePrice: truncated quotient, and 0 for an order of size zero.
Price(o) == IF o.paper = 0 THEN 0
            ELSE (AbsVal(o.credit) * Precision) \div Size(o)

\* less(i, j) of the two sort.Slice calls: the better price comes first.
Ahead(a, b) == IF SideOf(a) = "buy" THEN Price(a) > Price(b)
                                    ELSE Price(a) < Price(b)

\* MatchResult: the buy is the taker, the sell the maker, the price the maker's.
MatchResult(b, s, a) == [taker |-> b, maker |-> s, amount |-> a, price |-> Price(s)]

Trades == [taker : Orders, maker : Orders, amount : Nat, price : Nat]

-----------------------------------------------------------------------------

\* No entry is behind one it should be ahead of.
PriceSorted(s) == \A i, j \in DOMAIN s : i < j => ~Ahead(s[j], s[i])

\* Entries that neither is ahead of the other stand as they stand in s.
KeepsOrderOf(t, s) ==
    \A i, j \in DOMAIN s : \A k, l \in DOMAIN t :
        (i < j /\ t[k] = s[i] /\ t[l] = s[j] /\ ~Ahead(s[j], s[i])) => k < l

\* Mutants of SortOutcomes: the call forgotten; an unstable sort at any length.
SortOutcomesForgotten(s) == {s}

SortOutcomesUnstable(s) ==
    {t \in Surjection(DOMAIN s, Range(s)) : PriceSorted(t)}

\* What sort.Slice may leave of s, a slice without repetitions.  Up to StableMax elements it is an
\* insertion sort and so stable; beyond that it is pdqsort, which promises
\* only a sorted rearrangement.  Both leave a sorted slice as it is.
SortOutcomes(s) ==
    IF PriceSorted(s) THEN {s}
    ELSE {t \in Surjection(DOMAIN s, Range(s)) :
             /\ PriceSorted(t)
             /\ Len(s) <= StableMax => KeepsOrderOf(t, s)}

=============================================================================
