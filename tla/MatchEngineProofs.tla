------------------------- MODULE MatchEngineProofs -------------------------
(***************************************************************************)
(* Theorems about the matching engine, for every set of orders, number of  *)
(* books, price precision and sort: its type invariant, that remain holds  *)
(* the open orders and what is left of them, that no order is overfilled,  *)
(* that trades stay within limits and follow price priority and, in short  *)
(* books, time priority, and that the engine implements FillLedger.        *)
(***************************************************************************)
EXTENDS MatchEngine, SequenceTheorems, FiniteSetTheorems, TLAPS

-----------------------------------------------------------------------------
(* Orders and sequences of orders: what appending, sorting and dropping    *)
(* the head do to the orders a book holds and to the way they are sorted.  *)

\* Sizes and prices are natural numbers whatever the signs of the fields.
LEMMA SizePriceType ==
    ASSUME NEW o \in Orders
    PROVE  Size(o) \in Nat /\ Price(o) \in Nat /\ SideOf(o) \in Side
<1>1. o.paper \in Int /\ o.credit \in Int BY OrdersAssumption
<1>2. Size(o) \in Nat BY <1>1 DEF Size, AbsVal
<1>3. SideOf(o) \in Side BY DEF SideOf, Side
<1>4. Price(o) \in Nat
  <2>1. CASE o.paper = 0 BY <2>1 DEF Price
  <2>2. CASE o.paper /= 0
    <3>1. Size(o) > 0 BY <1>1, <2>2 DEF Size, AbsVal
    <3>2. AbsVal(o.credit) \in Nat BY <1>1 DEF AbsVal
    <3> DEFINE c == AbsVal(o.credit) * Precision
    <3>3. c \in Nat BY <3>2, PrecisionAssumption
    <3> HIDE DEF c
    <3>4. c \div Size(o) \in Nat BY <3>1, <3>3, <1>2
    <3> QED BY <3>4, <2>2 DEF Price, c
  <2> QED BY <2>1, <2>2
<1> QED BY <1>2, <1>3, <1>4

\* The quotient of the price falls short by less than one unit.
LEMMA PriceIsFloor ==
    ASSUME NEW o \in Orders, Size(o) > 0
    PROVE  /\ Price(o) * Size(o) <= AbsVal(o.credit) * Precision
           /\ AbsVal(o.credit) * Precision < (Price(o) + 1) * Size(o)
<1> DEFINE c == AbsVal(o.credit) * Precision
<1>1. o.paper \in Int /\ o.credit \in Int BY OrdersAssumption
<1>2. c \in Nat BY <1>1, PrecisionAssumption DEF AbsVal
<1>3. Price(o) = c \div Size(o) BY <1>1 DEF Price, Size, AbsVal
<1>4. Size(o) \in Nat BY SizePriceType
<1> HIDE DEF c
<1>5. \A n \in Nat, d \in Nat \ {0} : (n \div d) * d <= n /\ n < ((n \div d) + 1) * d
  OBVIOUS
<1>6. /\ (c \div Size(o)) * Size(o) <= c
      /\ c < ((c \div Size(o)) + 1) * Size(o)
  BY <1>2, <1>4, <1>5
<1> QED BY <1>3, <1>6 DEF c

\* A price no higher than the order's own is within its limit exactly.
LEMMA LowerPriceFits ==
    ASSUME NEW o \in Orders, Size(o) > 0, NEW q \in Nat, q <= Price(o)
    PROVE  q * Size(o) <= AbsVal(o.credit) * Precision
<1>1. Size(o) \in Nat /\ Price(o) \in Nat BY SizePriceType
<1>2. AbsVal(o.credit) * Precision \in Nat
  BY OrdersAssumption, PrecisionAssumption DEF AbsVal
<1>3. \A i, j, n \in Nat : i <= j => i * n <= j * n
  OBVIOUS
<1>4. q * Size(o) <= Price(o) * Size(o) BY <1>1, <1>3
<1>5. Price(o) * Size(o) <= AbsVal(o.credit) * Precision BY PriceIsFloor
<1> DEFINE a == q * Size(o)
           b == Price(o) * Size(o)
           e == AbsVal(o.credit) * Precision
<1>6. a \in Nat /\ b \in Nat BY <1>1
<1>7. a <= b /\ b <= e /\ e \in Nat BY <1>2, <1>4, <1>5
<1> HIDE DEF a, b, e
<1>8. a <= e BY <1>6, <1>7
<1> QED BY <1>8 DEF a, e

LEMMA RangeInSet ==
    ASSUME NEW S, NEW q \in Seq(S)
    PROVE  Range(q) \subseteq S /\ DOMAIN q = 1..Len(q) /\ Len(q) \in Nat
BY LenProperties, ElementOfSeq DEF Range

\* Appending a new order adds it to the orders of the book, once.
LEMMA AppendRange ==
    ASSUME NEW S, NEW q \in Seq(S), NEW e \in S, e \notin Range(q), IsInjective(q)
    PROVE  /\ Append(q, e) \in Seq(S)
           /\ Range(Append(q, e)) = Range(q) \cup {e}
           /\ IsInjective(Append(q, e))
<1> DEFINE a == Append(q, e)
<1>1. /\ a \in Seq(S) /\ Len(a) = Len(q) + 1
      /\ \A i \in 1..Len(q) : a[i] = q[i]
      /\ a[Len(q) + 1] = e
  BY AppendProperties
<1>2. Len(q) \in Nat /\ DOMAIN q = 1..Len(q) BY LenProperties
<1>3. DOMAIN a = 1..(Len(q) + 1) BY <1>1, LenProperties
<1> HIDE DEF a
<1>4. /\ DOMAIN a = DOMAIN q \cup {Len(q) + 1}
      /\ \A i \in DOMAIN q : a[i] = q[i] /\ a[i] /= e
  BY <1>1, <1>2, <1>3 DEF Range
<1>5. Range(a) = Range(q) \cup {e} BY <1>1, <1>4 DEF Range
<1>6. IsInjective(a) BY <1>1, <1>4 DEF IsInjective
<1> QED BY <1>1, <1>5, <1>6 DEF a

\* Dropping the head takes that one order out and leaves the rest sorted.
LEMMA TailRange ==
    ASSUME NEW S, NEW q \in Seq(S), q /= <<>>, IsInjective(q)
    PROVE  /\ Head(q) \in Range(q)
           /\ Tail(q) \in Seq(S)
           /\ Range(Tail(q)) = Range(q) \ {Head(q)}
           /\ IsInjective(Tail(q))
           /\ PriceSorted(q) => PriceSorted(Tail(q))
<1> DEFINE t == Tail(q)
<1>1. /\ t \in Seq(S) /\ Len(t) = Len(q) - 1
      /\ \A i \in 1..Len(t) : t[i] = q[i + 1]
  BY HeadTailProperties
<1>2. Len(q) \in Nat /\ DOMAIN q = 1..Len(q) /\ Len(q) > 0
  BY LenProperties, EmptySeq
<1>3. DOMAIN t = 1..(Len(q) - 1) BY <1>1, LenProperties
<1>4. Head(q) = q[1] OBVIOUS
<1> HIDE DEF t
<1>5. Head(q) \in Range(q) BY <1>2, <1>4 DEF Range
<1>6. \A i \in DOMAIN t : i \in DOMAIN q /\ i + 1 \in DOMAIN q /\ i + 1 /= 1 /\ t[i] = q[i + 1]
  BY <1>1, <1>2, <1>3
<1>7. Range(t) = Range(q) \ {Head(q)}
  <2>1. ASSUME NEW x \in Range(t) PROVE x \in Range(q) \ {Head(q)}
    <3>1. PICK i \in DOMAIN t : x = t[i] BY DEF Range
    <3>2. x = q[i + 1] /\ i + 1 \in DOMAIN q /\ i + 1 /= 1 BY <3>1, <1>6
    <3> QED BY <3>2, <1>2, <1>4 DEF Range, IsInjective
  <2>2. ASSUME NEW x \in Range(q), x /= Head(q) PROVE x \in Range(t)
    <3>1. PICK i \in DOMAIN q : x = q[i] BY DEF Range
    <3>2. i /= 1 BY <3>1, <2>2, <1>4
    <3>3. i - 1 \in DOMAIN t /\ (i - 1) + 1 = i BY <3>2, <1>2, <1>3
    <3>4. t[i - 1] = x BY <3>1, <3>3, <1>6
    <3> QED BY <3>3, <3>4 DEF Range
  <2> QED BY <2>1, <2>2
<1>8. IsInjective(t)
  <2> SUFFICES ASSUME NEW i \in DOMAIN t, NEW j \in DOMAIN t, t[i] = t[j] PROVE i = j
    BY DEF IsInjective
  <2>1. i + 1 = j + 1 BY <1>6 DEF IsInjective
  <2>2. i \in Int /\ j \in Int BY <1>3, <1>2
  <2> QED BY <2>1, <2>2
<1>9. ASSUME PriceSorted(q) PROVE PriceSorted(t)
  <2> SUFFICES ASSUME NEW i \in DOMAIN t, NEW j \in DOMAIN t, i < j
               PROVE  ~Ahead(t[j], t[i])
    BY DEF PriceSorted
  <2>1. i + 1 < j + 1 BY <1>2, <1>3
  <2> QED BY <2>1, <1>6, <1>9 DEF PriceSorted
<1> QED BY <1>1, <1>5, <1>7, <1>8, <1>9 DEF t

\* Whatever sort.Slice does, it neither loses nor doubles an order, and the
\* slice is sorted afterwards.
LEMMA SortKeeps ==
    ASSUME NEW S, NEW q \in Seq(S), IsInjective(q), NEW t \in SortOutcomes(q)
    PROVE  /\ t \in Seq(S)
           /\ Range(t) = Range(q)
           /\ IsInjective(t)
           /\ PriceSorted(t)
<1>1. CASE PriceSorted(q) BY <1>1 DEF SortOutcomes
<1>2. CASE ~PriceSorted(q)
  <2>1. t \in Surjection(DOMAIN q, Range(q)) /\ PriceSorted(t)
    BY <1>2 DEF SortOutcomes
  <2>2. DOMAIN q = 1..Len(q) /\ Len(q) \in Nat /\ Range(q) \subseteq S
    BY RangeInSet
  <2>3. t \in [1..Len(q) -> Range(q)] BY <2>1, <2>2 DEF Surjection
  <2>4. t \in Seq(S) BY <2>2, <2>3, IsASeq
  <2>5. Range(t) = Range(q)
    <3>1. Range(t) \subseteq Range(q) BY <2>3 DEF Range
    <3>2. \A x \in Range(q) : \E i \in DOMAIN q : t[i] = x BY <2>1 DEF Surjection
    <3> QED BY <3>1, <3>2, <2>2, <2>3 DEF Range
  <2>6. IsFiniteSet(DOMAIN q) BY <2>2, FS_Interval
  <2>7. q \in Bijection(DOMAIN q, Range(q))
    <3>1. q \in [DOMAIN q -> Range(q)] BY <2>2 DEF Range
    <3> QED BY <3>1 DEF Bijection, Injection, Surjection, Range
  <2>8. Cardinality(DOMAIN q) = Cardinality(Range(q))
    BY <2>6, <2>7, FS_Surjection DEF Bijection
  <2>9. t \in Injection(DOMAIN q, Range(q))
    BY <2>1, <2>6, <2>8, FS_SurjSameCardinalityImpliesInj
  <2> QED BY <2>1, <2>4, <2>5, <2>9 DEF Injection
<1> QED BY <1>1, <1>2

\* In a sorted book of one side nothing is ahead of the head.
LEMMA HeadIsBest ==
    ASSUME NEW q \in Seq(Orders), q /= <<>>, PriceSorted(q), NEW o \in Range(q)
    PROVE  ~Ahead(o, Head(q))
<1>1. PICK i \in DOMAIN q : o = q[i] BY DEF Range
<1>2. DOMAIN q = 1..Len(q) /\ Len(q) \in Nat BY LenProperties
<1>3. Head(q) = q[1] /\ 1 \in DOMAIN q BY <1>1, <1>2
<1>4. CASE i = 1
  <2>1. o = Head(q) BY <1>1, <1>3, <1>4
  <2>2. o \in Orders BY RangeInSet
  <2>3. Price(o) \in Nat BY <2>2, SizePriceType
  <2> QED BY <2>1, <2>3 DEF Ahead
<1>5. CASE i /= 1
  <2>1. 1 < i BY <1>2, <1>5
  <2> QED BY <2>1, <1>1, <1>3 DEF PriceSorted
<1> QED BY <1>4, <1>5

-----------------------------------------------------------------------------
(* The engine's books.                                                     *)

\* The facts about one book that the steps use.
LEMMA BookFacts ==
    ASSUME TypeOK, BookInv, NEW p \in Perps, NEW s \in Side
    PROVE  /\ book[p][s] \in Seq(Orders)
           /\ IsInjective(book[p][s])
           /\ PriceSorted(book[p][s])
           /\ BookedAt(p, s) \subseteq DOMAIN remain
           /\ \A o \in BookedAt(p, s) :
                 o \in Orders /\ o.perp = p /\ SideOf(o) = s /\ o \notin adding
<1>1. book[p][s] \in Seq(Orders) BY DEF TypeOK
<1>2. BookedAt(p, s) \subseteq Booked BY DEF Booked
<1>3. BookedAt(p, s) \subseteq Orders BY <1>1, RangeInSet DEF BookedAt
<1> QED BY <1>1, <1>2, <1>3
        DEF BookInv, EachOrderOnce, RemainIsOpen, BooksSorted

\* The heads of a book both of whose sides have orders.
LEMMA HeadFacts ==
    ASSUME TypeOK, BookInv, cur \in Perps, BothSides(cur)
    PROVE  /\ HeadBuy \in BookedAt(cur, "buy") /\ HeadSell \in BookedAt(cur, "sell")
           /\ {HeadBuy, HeadSell} \subseteq Orders
           /\ {HeadBuy, HeadSell} \subseteq DOMAIN remain
           /\ SideOf(HeadBuy) = "buy" /\ SideOf(HeadSell) = "sell"
           /\ HeadBuy.perp = cur /\ HeadSell.perp = cur
           /\ HeadBuy /= HeadSell
<1>1. "buy" \in Side /\ "sell" \in Side BY DEF Side
<1>2. HeadBuy \in BookedAt(cur, "buy")
  BY <1>1, BookFacts, TailRange DEF BookedAt, BothSides, HeadBuy
<1>3. HeadSell \in BookedAt(cur, "sell")
  BY <1>1, BookFacts, TailRange DEF BookedAt, BothSides, HeadSell
<1> QED BY <1>1, <1>2, <1>3, BookFacts

-----------------------------------------------------------------------------
(* The type invariant and the parts about books, step by step.             *)

LEMMA InitIInv == Init => IInv
<1> SUFFICES ASSUME Init PROVE IInv OBVIOUS
<1> USE DEF Init, Fresh
<1>1. \A p \in Perps : \A s \in Side : book[p][s] = <<>> BY DEF EmptyBook
<1>2. \A p \in Perps : \A s \in Side : BookedAt(p, s) = {}
  BY <1>1 DEF BookedAt, Range
<1>3. Booked = {} BY <1>2 DEF Booked
<1>4. TypeOK
  <2>1. book \in [Perps -> [Side -> Seq(Orders)]] BY DEF EmptyBook
  <2>2. DOMAIN remain = {} OBVIOUS
  <2> QED BY <2>1, <2>2 DEF TypeOK
<1>5. BookInv
  <2>1. RemainIsOpen BY <1>3 DEF RemainIsOpen
  <2>2. EachOrderOnce BY <1>1, <1>2 DEF EachOrderOnce, IsInjective
  <2>3. BooksSorted BY <1>1 DEF BooksSorted, PriceSorted
  <2> QED BY <2>1, <2>2, <2>3 DEF BookInv
<1>6. AmountInv
  <2>1. \A o \in Orders : matched[o] = 0 /\ Size(o) \in Nat BY SizePriceType
  <2> QED BY <2>1 DEF AmountInv, SubmittedOnly, LoopState, RemainAccounts, NoOverfill
<1>7. TradesWithinLimits BY DEF TradesWithinLimits
<1> QED BY <1>4, <1>5, <1>6, <1>7 DEF IInv

\* AddRemain: the order is not yet in a book, and no head is it.
LEMMA AddRemainStep ==
    ASSUME IInv, NEW o \in Orders, AddRemain(o) PROVE IInv'
<1> USE DEF IInv, AddRemain
<1>1. o \notin DOMAIN remain BY DEF AmountInv, SubmittedOnly
<1>2. Size(o) \in Nat BY SizePriceType
<1>3. DOMAIN remain' = DOMAIN remain \cup {o} /\ remain'[o] = Size(o)
  OBVIOUS
<1>4. \A x \in DOMAIN remain : remain'[x] = remain[x] BY <1>1
<1>5. TypeOK'
  BY <1>2, <1>3, <1>4 DEF TypeOK
<1>6. BookInv'
  <2>1. Booked' = Booked BY DEF Booked, BookedAt
  <2>2. o \notin Booked BY <1>1 DEF BookInv, RemainIsOpen
  <2>3. RemainIsOpen' BY <2>1, <1>3 DEF BookInv, RemainIsOpen
  <2>4. EachOrderOnce' BY <2>1, <2>2 DEF BookInv, EachOrderOnce, BookedAt
  <2>5. BooksSorted' BY DEF BookInv, BooksSorted
  <2> QED BY <2>3, <2>4, <2>5 DEF BookInv
<1>7. AmountInv'
  <2>1. SubmittedOnly' BY <1>3 DEF AmountInv, SubmittedOnly, TypeOK
  <2>2. CASE mpc \in {"emit", "deduct"}
    <3>1. cur \in Perps /\ BothSides(cur) BY <2>2 DEF TypeOK, AmountInv, LoopState
    <3>2. {HeadBuy, HeadSell} \subseteq DOMAIN remain BY <3>1, HeadFacts
    <3>3. HeadBuy' = HeadBuy /\ HeadSell' = HeadSell BY DEF HeadBuy, HeadSell
    <3>4. BothSides(cur)' BY <3>1 DEF BothSides
    <3>5. LoopState' BY <3>2, <3>3, <3>4, <1>4 DEF AmountInv, LoopState
    <3>6. ~InDeduct(o)' /\ \A x \in DOMAIN remain : InDeduct(x)' <=> InDeduct(x)
      BY <3>2, <3>3, <1>1 DEF InDeduct
    <3>7. RemainAccounts'
      BY <3>6, <1>1, <1>2, <1>3, <1>4 DEF AmountInv, RemainAccounts, SubmittedOnly
    <3> QED BY <2>1, <3>5, <3>7 DEF AmountInv, NoOverfill
  <2>3. CASE mpc \notin {"emit", "deduct"}
    <3>1. LoopState' BY <2>3 DEF LoopState
    <3>2. \A x : ~InDeduct(x)' /\ ~InDeduct(x) BY <2>3 DEF InDeduct
    <3>3. RemainAccounts'
      BY <3>2, <1>1, <1>2, <1>3, <1>4 DEF AmountInv, RemainAccounts, SubmittedOnly
    <3> QED BY <2>1, <3>1, <3>3 DEF AmountInv, NoOverfill
  <2> QED BY <2>2, <2>3
<1>8. TradesWithinLimits' BY DEF TradesWithinLimits
<1> QED BY <1>5, <1>6, <1>7, <1>8

\* AddToBook: the sorted slice holds what it held and the new order.
LEMMA AddToBookStep ==
    ASSUME IInv, NEW o \in Orders, AddToBook(o) PROVE IInv'
<1> USE DEF IInv
<1> DEFINE P == o.perp
           S == SideOf(o)
<1>1. P \in Perps /\ S \in Side /\ Size(o) \in Nat
  BY OrdersAssumption, SizePriceType
<1>2. PICK t \in SortOutcomes(Append(book[P][S], o)) :
            book' = [book EXCEPT ![P] = [@ EXCEPT ![S] = t]]
  BY DEF AddToBook
<1>3. o \in adding /\ mpc = "idle" /\ adding' = adding \ {o}
      /\ UNCHANGED <<remain, pendingTrades, mpc, todo, cur, amount, submitted, matched>>
  BY DEF AddToBook
<1>4. o \notin Booked BY <1>3 DEF BookInv, EachOrderOnce
<1>5. o \notin Range(book[P][S]) BY <1>1, <1>4 DEF Booked, BookedAt
<1>6. book[P][S] \in Seq(Orders) /\ IsInjective(book[P][S]) BY <1>1, BookFacts
<1>7. /\ t \in Seq(Orders) /\ IsInjective(t) /\ PriceSorted(t)
      /\ Range(t) = Range(book[P][S]) \cup {o}
  <2> DEFINE a == Append(book[P][S], o)
  <2>1. a \in Seq(Orders) /\ Range(a) = Range(book[P][S]) \cup {o} /\ IsInjective(a)
    BY <1>5, <1>6, AppendRange
  <2>2. t \in SortOutcomes(a) BY <1>2
  <2> HIDE DEF a
  <2> QED BY <2>1, <2>2, SortKeeps
<1>8. book \in [Perps -> [Side -> Seq(Orders)]] BY DEF TypeOK
<1>9. book' \in [Perps -> [Side -> Seq(Orders)]] BY <1>1, <1>2, <1>7, <1>8
<1>10. /\ book'[P][S] = t
       /\ \A p \in Perps : \A s \in Side :
             (p /= P \/ s /= S) => book'[p][s] = book[p][s]
  BY <1>1, <1>2, <1>8
<1> HIDE DEF P, S
<1>11. TypeOK'
  <2>1. arrived' \in Seq(Orders) BY DEF TypeOK, AddToBook
  <2> QED BY <2>1, <1>3, <1>9 DEF TypeOK
<1>12. BookInv'
  <2>1. \A p \in Perps : \A s \in Side :
           BookedAt(p, s)' = BookedAt(p, s) \cup (IF p = P /\ s = S THEN {o} ELSE {})
    BY <1>7, <1>10 DEF BookedAt
  <2>2. Booked' = Booked \cup {o} BY <2>1, <1>1 DEF Booked
  <2>3. RemainIsOpen' BY <2>2, <1>3 DEF BookInv, RemainIsOpen
  <2>4. EachOrderOnce'
    <3>1. (adding \cap Booked = {})' BY <2>2, <1>3 DEF BookInv, EachOrderOnce
    <3>2. ASSUME NEW p \in Perps, NEW s \in Side
          PROVE  /\ \A x \in BookedAt(p, s)' : x.perp = p /\ SideOf(x) = s
                 /\ IsInjective(book'[p][s])
      <4>1. IsInjective(book'[p][s]) BY <1>7, <1>10 DEF BookInv, EachOrderOnce
      <4>2. \A x \in BookedAt(p, s) : x.perp = p /\ SideOf(x) = s
        BY DEF BookInv, EachOrderOnce
      <4> QED BY <4>1, <4>2, <2>1 DEF P, S
    <3> QED BY <3>1, <3>2 DEF EachOrderOnce
  <2>5. BooksSorted' BY <1>7, <1>10 DEF BookInv, BooksSorted
  <2> QED BY <2>3, <2>4, <2>5 DEF BookInv
<1>13. AmountInv'
  <2>1. LoopState' BY <1>3 DEF LoopState
  <2>2. \A x : ~InDeduct(x)' /\ ~InDeduct(x) BY <1>3 DEF InDeduct
  <2> QED BY <2>1, <2>2, <1>3
          DEF AmountInv, SubmittedOnly, RemainAccounts, NoOverfill
<1>14. TradesWithinLimits' BY <1>3 DEF TradesWithinLimits
<1> QED BY <1>11, <1>12, <1>13, <1>14

\* The books, the amounts and the trades are as they were: BookInv holds.
LEMMA SameBooks ==
    ASSUME BookInv, UNCHANGED <<book, remain, adding>> PROVE BookInv'
<1>1. Booked' = Booked BY DEF Booked, BookedAt
<1> QED BY <1>1 DEF BookInv, EachOrderOnce, RemainIsOpen, BooksSorted, BookedAt

\* The steps of the match loop that move it from book to book.
LEMMA WalkStep ==
    ASSUME IInv, StartPass \/ EndPass \/ (\E p \in Perps : PickBook(p)) \/ LeaveBook
    PROVE  IInv'
<1> USE DEF IInv, StartPass, EndPass, PickBook, LeaveBook
<1>1. UNCHANGED <<book, remain, pendingTrades, adding, amount, submitted, matched, arrived>>
  OBVIOUS
<1>2. mpc \notin {"emit", "deduct"} /\ mpc' \in {"idle", "pass", "scan"} OBVIOUS
<1>3. TypeOK' BY <1>1 DEF TypeOK
<1>4. BookInv' BY <1>1, SameBooks
<1>5. AmountInv'
  <2>1. LoopState' BY <1>2 DEF LoopState
  <2>2. \A x : ~InDeduct(x)' /\ ~InDeduct(x) BY <1>2 DEF InDeduct
  <2> QED BY <2>1, <2>2, <1>1
          DEF AmountInv, SubmittedOnly, RemainAccounts, NoOverfill
<1>6. TradesWithinLimits' BY <1>1 DEF TradesWithinLimits
<1> QED BY <1>3, <1>4, <1>5, <1>6

LEMMA ScanStep ==
    ASSUME IInv, Scan PROVE IInv'
<1> USE DEF IInv, Scan
<1>1. cur \in Perps /\ BothSides(cur) BY DEF TypeOK, HeadsMatch
<1>2. {HeadBuy, HeadSell} \subseteq DOMAIN remain BY <1>1, HeadFacts
<1>3. remain[HeadBuy] \in Nat /\ remain[HeadSell] \in Nat BY <1>2 DEF TypeOK
<1>4. amount' \in Nat /\ amount' > 0 BY <1>3 DEF HeadsMatch, Smaller
<1>5. HeadBuy' = HeadBuy /\ HeadSell' = HeadSell BY DEF HeadBuy, HeadSell
<1>6. TypeOK' BY <1>1, <1>4 DEF TypeOK
<1>7. BookInv' BY SameBooks
<1>8. AmountInv'
  <2>1. LoopState'
    BY <1>4, <1>5 DEF LoopState, HeadsMatch, BothSides, Crossed
  <2>2. \A x : ~InDeduct(x)' /\ ~InDeduct(x) BY DEF InDeduct
  <2> QED BY <2>1, <2>2 DEF AmountInv, SubmittedOnly, RemainAccounts, NoOverfill
<1>9. TradesWithinLimits' BY DEF TradesWithinLimits
<1> QED BY <1>6, <1>7, <1>8, <1>9

\* What Emit and Deduct start from.
LEMMA AmountFacts ==
    ASSUME IInv, mpc \in {"emit", "deduct"}
    PROVE  /\ cur \in Perps /\ BothSides(cur)
           /\ amount \in Nat /\ amount > 0
           /\ \A h \in {HeadBuy, HeadSell} : remain[h] \in Nat /\ amount <= remain[h]
<1> USE DEF IInv
<1>1. cur \in Perps /\ BothSides(cur) BY DEF TypeOK, AmountInv, LoopState
<1>2. {HeadBuy, HeadSell} \subseteq DOMAIN remain BY <1>1, HeadFacts
<1>3. remain[HeadBuy] \in Nat /\ remain[HeadSell] \in Nat BY <1>2 DEF TypeOK
<1>4. amount \in Nat /\ amount > 0 BY DEF TypeOK, AmountInv, LoopState
<1> QED BY <1>1, <1>3, <1>4 DEF AmountInv, LoopState, Smaller

\* Emit: the trade is sound because of what Scan found, and neither head is
\* overfilled because amount is at most what it has left.
LEMMA EmitStep ==
    ASSUME IInv, Emit PROVE IInv'
<1> USE DEF IInv
<1>1. /\ cur \in Perps /\ BothSides(cur) /\ amount \in Nat /\ amount > 0
      /\ \A h \in {HeadBuy, HeadSell} : remain[h] \in Nat /\ amount <= remain[h]
  BY AmountFacts DEF Emit
<1>2. /\ {HeadBuy, HeadSell} \subseteq Orders
      /\ {HeadBuy, HeadSell} \subseteq DOMAIN remain
      /\ SideOf(HeadBuy) = "buy" /\ SideOf(HeadSell) = "sell"
      /\ HeadBuy.perp = HeadSell.perp /\ HeadBuy /= HeadSell
  BY <1>1, HeadFacts
<1>3. Price(HeadSell) \in Nat BY <1>2, SizePriceType
<1>4. Price(HeadBuy) >= Price(HeadSell) BY DEF Emit, AmountInv, LoopState
<1>5. /\ HeadBuy' = HeadBuy /\ HeadSell' = HeadSell
      /\ UNCHANGED <<book, remain, adding, todo, cur, amount, submitted, arrived>>
  BY DEF Emit, HeadBuy, HeadSell
<1> DEFINE r == MatchResult(HeadBuy, HeadSell, amount)
<1>6. r \in Trades BY <1>1, <1>2, <1>3 DEF MatchResult, Trades
<1>7. pendingTrades \in Seq(Trades) /\ pendingTrades' = Append(pendingTrades, r)
  BY DEF Emit, TypeOK
<1>8. /\ pendingTrades' \in Seq(Trades)
      /\ DOMAIN pendingTrades' = DOMAIN pendingTrades \cup {Len(pendingTrades) + 1}
      /\ \A i \in DOMAIN pendingTrades : pendingTrades'[i] = pendingTrades[i]
      /\ pendingTrades'[Len(pendingTrades) + 1] = r
  BY <1>6, <1>7, AppendProperties, LenProperties
<1>9. \A o \in Orders :
         matched'[o] = matched[o] + (IF o \in {HeadBuy, HeadSell} THEN amount ELSE 0)
  <2>1. matched \in [Orders -> Nat] BY DEF TypeOK
  <2>2. matched' = [matched EXCEPT ![HeadBuy] = @ + amount, ![HeadSell] = @ + amount]
    BY DEF Emit
  <2> QED BY <2>1, <2>2, <1>1, <1>2
<1>10. matched' \in [Orders -> Nat]
  <2>1. matched \in [Orders -> Nat] BY DEF TypeOK
  <2>2. matched[HeadBuy] + amount \in Nat /\ matched[HeadSell] + amount \in Nat
    BY <2>1, <1>1, <1>2
  <2>3. matched' = [matched EXCEPT ![HeadBuy] = @ + amount, ![HeadSell] = @ + amount]
    BY DEF Emit
  <2> QED BY <2>1, <2>2, <2>3, <1>2
<1>11. TypeOK' BY <1>1, <1>5, <1>8, <1>10 DEF TypeOK, Emit
<1>12. BookInv' BY <1>5, SameBooks
<1>13. AmountInv'
  <2>1. LoopState' BY <1>5 DEF AmountInv, LoopState, Emit, BothSides
  <2>2. SubmittedOnly'
    <3>1. DOMAIN remain \subseteq submitted /\ \A o \in Orders \ submitted : matched[o] = 0
      BY DEF AmountInv, SubmittedOnly
    <3>2. \A o \in Orders \ submitted : matched'[o] = 0 BY <3>1, <1>2, <1>9
    <3> QED BY <3>1, <3>2, <1>5 DEF SubmittedOnly
  <2>3. \A x : ~InDeduct(x) /\ (InDeduct(x)' <=> x \in {HeadBuy, HeadSell})
    BY <1>5 DEF InDeduct, Emit
  <2>4. \A o \in Orders : matched[o] \in Nat /\ Size(o) \in Nat
    BY SizePriceType DEF TypeOK
  <2>5. \A o \in DOMAIN remain : o \in Orders /\ remain[o] \in Nat BY DEF TypeOK
  <2>6. \A o \in DOMAIN remain : remain[o] + matched[o] = Size(o)
    BY <2>3, <2>4, <2>5 DEF AmountInv, RemainAccounts
  <2>7. RemainAccounts' BY <2>3, <2>4, <2>5, <2>6, <1>1, <1>5, <1>9 DEF RemainAccounts
  <2>8. NoOverfill'
    <3> SUFFICES ASSUME NEW o \in Orders PROVE matched'[o] <= Size(o)
      BY DEF NoOverfill
    <3>1. CASE o \in {HeadBuy, HeadSell}
      BY <3>1, <2>4, <2>6, <1>1, <1>2, <1>9
    <3>2. CASE o \notin {HeadBuy, HeadSell}
      BY <3>2, <2>4, <1>9 DEF AmountInv, NoOverfill
    <3> QED BY <3>1, <3>2
  <2> QED BY <2>1, <2>2, <2>7, <2>8 DEF AmountInv
<1>14. TradesWithinLimits'
  <2>1. Size(HeadBuy) \in Nat /\ Size(HeadSell) \in Nat /\ Price(HeadBuy) \in Nat
    BY <1>2, SizePriceType
  <2>2. \A h \in {HeadBuy, HeadSell} : amount <= Size(h)
    <3> SUFFICES ASSUME NEW h \in {HeadBuy, HeadSell} PROVE amount <= Size(h) OBVIOUS
    <3>1. remain[h] + matched[h] = Size(h)
      <4>1. remain[h] + matched[h] = Size(h) + (IF InDeduct(h) THEN amount ELSE 0)
        BY <1>2 DEF AmountInv, RemainAccounts
      <4>2. ~InDeduct(h) BY DEF InDeduct, Emit
      <4> QED BY <4>1, <4>2, <2>1
    <3>2. matched[h] \in Nat BY <1>2 DEF TypeOK
    <3> QED BY <3>1, <3>2, <1>1, <2>1
  <2>3. Size(HeadBuy) > 0 /\ Size(HeadSell) > 0 BY <2>1, <2>2, <1>1
  <2>4. r.price * Size(HeadBuy) <= AbsVal(HeadBuy.credit) * Precision
    BY <1>2, <1>3, <1>4, <2>1, <2>3, LowerPriceFits DEF MatchResult
  <2>5. AbsVal(HeadSell.credit) * Precision < (r.price + 1) * Size(HeadSell)
    BY <1>2, <2>3, PriceIsFloor DEF MatchResult
  <2>6. /\ r.taker = HeadBuy /\ r.maker = HeadSell /\ r.amount = amount
    BY DEF MatchResult
  <2> HIDE DEF r
  <2> QED BY <1>1, <1>2, <1>8, <2>4, <2>5, <2>6 DEF TradesWithinLimits
<1> QED BY <1>11, <1>12, <1>13, <1>14

\* Deduct: the orders with nothing left go from remain and from the front of
\* their side of the book together.
LEMMA DeductStep ==
    ASSUME IInv, Deduct PROVE IInv'
<1> USE DEF IInv
<1>1. /\ cur \in Perps /\ BothSides(cur) /\ amount \in Nat /\ amount > 0
      /\ \A h \in {HeadBuy, HeadSell} : remain[h] \in Nat /\ amount <= remain[h]
  BY AmountFacts DEF Deduct
<1>2. /\ HeadBuy \in BookedAt(cur, "buy") /\ HeadSell \in BookedAt(cur, "sell")
      /\ {HeadBuy, HeadSell} \subseteq DOMAIN remain
      /\ SideOf(HeadBuy) = "buy" /\ SideOf(HeadSell) = "sell"
  BY <1>1, HeadFacts
<1>3. /\ mpc = "deduct" /\ mpc' = "scan" /\ amount' = 0
      /\ UNCHANGED <<pendingTrades, adding, todo, cur, submitted, arrived, matched>>
  BY DEF Deduct
<1>4. /\ DOMAIN remain' = DOMAIN remain \ Spent
      /\ \A o \in DOMAIN remain' :
            remain'[o] = IF o \in {HeadBuy, HeadSell} THEN remain[o] - amount ELSE remain[o]
  BY DEF Deduct, Charged
<1>5. Spent \subseteq {HeadBuy, HeadSell} BY DEF Spent, Charged
<1>6. \A o \in DOMAIN remain' : remain'[o] \in Nat
  <2>1. \A o \in DOMAIN remain : remain[o] \in Nat BY DEF TypeOK
  <2>2. ASSUME NEW o \in DOMAIN remain' PROVE remain'[o] \in Nat
    <3>1. CASE o \in {HeadBuy, HeadSell} BY <3>1, <1>1, <1>4
    <3>2. CASE o \notin {HeadBuy, HeadSell} BY <3>2, <1>4, <2>1
    <3> QED BY <3>1, <3>2
  <2> QED BY <2>2
<1>7. /\ \A s \in Side : book'[cur][s] = AfterFill(s)
      /\ \A p \in Perps : p /= cur => book'[p] = book[p]
      /\ book' = [book EXCEPT ![cur] = [s \in Side |-> AfterFill(s)]]
  BY <1>1 DEF Deduct, TypeOK
<1>8. ASSUME NEW s \in Side
      PROVE  /\ AfterFill(s) \in Seq(Orders)
             /\ IsInjective(AfterFill(s))
             /\ PriceSorted(AfterFill(s))
             /\ Range(AfterFill(s)) = BookedAt(cur, s) \ Spent
  <2> DEFINE q == book[cur][s]
             h == Head(q)
  <2>1. /\ q \in Seq(Orders) /\ IsInjective(q) /\ PriceSorted(q)
        /\ BookedAt(cur, s) = Range(q)
        /\ \A o \in Range(q) : SideOf(o) = s
    BY <1>1, BookFacts DEF BookedAt
  <2>2. q /= <<>> BY <1>1 DEF BothSides, Side
  <2>3. /\ h \in Range(q) /\ Tail(q) \in Seq(Orders) /\ Range(Tail(q)) = Range(q) \ {h}
        /\ IsInjective(Tail(q)) /\ PriceSorted(Tail(q))
    BY <2>1, <2>2, TailRange
  <2>4. Range(q) \cap {HeadBuy, HeadSell} = {h}
    <3>1. CASE s = "buy"
      <4>1. h = HeadBuy BY <3>1 DEF HeadBuy
      <4>2. HeadSell \notin Range(q) BY <3>1, <2>1, <1>2
      <4> QED BY <4>1, <4>2, <2>3
    <3>2. CASE s = "sell"
      <4>1. h = HeadSell BY <3>2 DEF HeadSell
      <4>2. HeadBuy \notin Range(q) BY <3>2, <2>1, <1>2
      <4> QED BY <4>1, <4>2, <2>3
    <3> QED BY <3>1, <3>2 DEF Side
  <2>5. AfterFill(s) = IF h \in Spent THEN Tail(q) ELSE q BY DEF AfterFill
  <2> HIDE DEF q, h
  <2>6. CASE h \in Spent
    <3>1. Range(q) \ Spent = Range(q) \ {h} BY <2>4, <2>6, <1>5
    <3> QED BY <3>1, <2>1, <2>3, <2>5, <2>6
  <2>7. CASE h \notin Spent
    <3>1. Range(q) \ Spent = Range(q) BY <2>4, <2>7, <1>5
    <3> QED BY <3>1, <2>1, <2>5, <2>7
  <2> QED BY <2>6, <2>7
<1>9. \A p \in Perps : \A s \in Side : BookedAt(p, s)' = BookedAt(p, s) \ Spent
  <2> SUFFICES ASSUME NEW p \in Perps, NEW s \in Side
               PROVE  BookedAt(p, s)' = BookedAt(p, s) \ Spent
    OBVIOUS
  <2>1. CASE p = cur BY <2>1, <1>7, <1>8 DEF BookedAt
  <2>2. CASE p /= cur
    <3>1. BookedAt(p, s)' = BookedAt(p, s) BY <2>2, <1>7 DEF BookedAt
    <3>2. HeadBuy.perp = cur /\ HeadSell.perp = cur BY <1>1, HeadFacts
    <3>3. \A o \in BookedAt(p, s) : o.perp = p BY BookFacts
    <3>4. BookedAt(p, s) \cap Spent = {} BY <3>2, <3>3, <2>2, <1>5
    <3> QED BY <3>1, <3>4
  <2> QED BY <2>1, <2>2
<1>10. TypeOK'
  <2>1. [s \in Side |-> AfterFill(s)] \in [Side -> Seq(Orders)] BY <1>8
  <2>2. book' \in [Perps -> [Side -> Seq(Orders)]]
    BY <2>1, <1>7 DEF TypeOK
  <2> QED BY <2>2, <1>1, <1>3, <1>4, <1>6 DEF TypeOK
<1>11. BookInv'
  <2>1. Booked' = Booked \ Spent BY <1>9 DEF Booked
  <2>2. RemainIsOpen'
    <3>1. Spent \cap adding = {}
      BY <1>1, <1>2, <1>5, BookFacts DEF Side
    <3> QED BY <3>1, <2>1, <1>3, <1>4 DEF BookInv, RemainIsOpen
  <2>3. EachOrderOnce'
    <3>1. \A p \in Perps : \A s \in Side : IsInjective(book'[p][s])
      BY <1>7, <1>8 DEF BookInv, EachOrderOnce
    <3> QED BY <3>1, <2>1, <1>3, <1>9 DEF BookInv, EachOrderOnce
  <2>4. BooksSorted' BY <1>7, <1>8 DEF BookInv, BooksSorted
  <2> QED BY <2>2, <2>3, <2>4 DEF BookInv
<1>12. AmountInv'
  <2>1. LoopState' BY <1>3 DEF LoopState
  <2>2. SubmittedOnly' BY <1>3, <1>4 DEF AmountInv, SubmittedOnly
  <2>3. \A x : ~InDeduct(x)' /\ (InDeduct(x) <=> x \in {HeadBuy, HeadSell})
    BY <1>3 DEF InDeduct
  <2>4. RemainAccounts'
    <3> SUFFICES ASSUME NEW o \in DOMAIN remain'
                 PROVE  remain'[o] + matched[o] = Size(o)
      <4>1. \A o \in DOMAIN remain' : Size(o) \in Nat
        BY <1>4, SizePriceType DEF TypeOK
      <4> QED BY <4>1, <2>3, <1>3 DEF RemainAccounts
    <3>1. o \in DOMAIN remain /\ o \in Orders /\ remain[o] \in Nat
      BY <1>4 DEF TypeOK
    <3>2. Size(o) \in Nat /\ matched[o] \in Nat BY <3>1, SizePriceType DEF TypeOK
    <3>3. remain[o] + matched[o] = Size(o) + (IF InDeduct(o) THEN amount ELSE 0)
      BY <3>1 DEF AmountInv, RemainAccounts
    <3> QED BY <3>1, <3>2, <3>3, <2>3, <1>1, <1>4
  <2> QED BY <2>1, <2>2, <2>4, <1>3 DEF AmountInv, NoOverfill
<1>13. TradesWithinLimits' BY <1>3 DEF TradesWithinLimits
<1> QED BY <1>10, <1>11, <1>12, <1>13

LEMMA TakePendingStep ==
    ASSUME IInv, TakePending PROVE IInv'
<1> USE DEF IInv, TakePending
<1>1. TypeOK' BY DEF TypeOK
<1>2. BookInv' BY SameBooks
<1>3. AmountInv'
  <2>1. HeadBuy' = HeadBuy /\ HeadSell' = HeadSell BY DEF HeadBuy, HeadSell
  <2>2. LoopState' BY <2>1 DEF AmountInv, LoopState, BothSides
  <2>3. \A x : InDeduct(x)' <=> InDeduct(x) BY <2>1 DEF InDeduct
  <2> QED BY <2>2, <2>3 DEF AmountInv, SubmittedOnly, RemainAccounts, NoOverfill
<1>4. TradesWithinLimits' BY DEF TradesWithinLimits
<1> QED BY <1>1, <1>2, <1>3, <1>4

\* Restart: an empty engine, and what was matched stays matched.
LEMMA RestartStep ==
    ASSUME IInv, Restart PROVE IInv'
<1> USE DEF IInv, Restart
<1>1. \A p \in Perps : \A s \in Side : book'[p][s] = <<>> BY DEF EmptyBook
<1>2. \A p \in Perps : \A s \in Side : BookedAt(p, s)' = {}
  BY <1>1 DEF BookedAt, Range
<1>3. Booked' = {} BY <1>2 DEF Booked
<1>4. TypeOK'
  <2>1. book' \in [Perps -> [Side -> Seq(Orders)]] BY DEF EmptyBook
  <2>2. DOMAIN remain' = {} OBVIOUS
  <2> QED BY <2>1, <2>2 DEF TypeOK
<1>5. BookInv'
  <2>1. RemainIsOpen' BY <1>3 DEF RemainIsOpen
  <2>2. EachOrderOnce' BY <1>1, <1>2 DEF EachOrderOnce, IsInjective
  <2>3. BooksSorted' BY <1>1 DEF BooksSorted, PriceSorted
  <2> QED BY <2>1, <2>2, <2>3 DEF BookInv
<1>6. AmountInv'
  BY DEF AmountInv, SubmittedOnly, LoopState, RemainAccounts, NoOverfill
<1>7. TradesWithinLimits' BY DEF TradesWithinLimits
<1> QED BY <1>4, <1>5, <1>6, <1>7

LEMMA StutterStep ==
    ASSUME IInv, UNCHANGED vars PROVE IInv'
<1> USE DEF IInv, vars
<1>1. TypeOK' BY DEF TypeOK
<1>2. BookInv' BY SameBooks
<1>3. AmountInv'
  <2>1. HeadBuy' = HeadBuy /\ HeadSell' = HeadSell BY DEF HeadBuy, HeadSell
  <2>2. LoopState' BY <2>1 DEF AmountInv, LoopState, BothSides
  <2>3. \A x : InDeduct(x)' <=> InDeduct(x) BY <2>1 DEF InDeduct
  <2> QED BY <2>2, <2>3 DEF AmountInv, SubmittedOnly, RemainAccounts, NoOverfill
<1>4. TradesWithinLimits' BY DEF TradesWithinLimits
<1> QED BY <1>1, <1>2, <1>3, <1>4

-----------------------------------------------------------------------------
\* The inductive invariant holds in every reachable state of the engine.
THEOREM Invariance == Spec => []IInv
<1>1. Init => IInv BY InitIInv
<1>2. IInv /\ [Next]_vars => IInv'
  <2> SUFFICES ASSUME IInv, [Next]_vars PROVE IInv' OBVIOUS
  <2>1. ASSUME NEW o \in Orders, AddRemain(o) PROVE IInv' BY <2>1, AddRemainStep
  <2>2. ASSUME NEW o \in Orders, AddToBook(o) PROVE IInv' BY <2>2, AddToBookStep
  <2>3. CASE StartPass BY <2>3, WalkStep
  <2>4. CASE EndPass BY <2>4, WalkStep
  <2>5. CASE \E p \in Perps : PickBook(p) BY <2>5, WalkStep
  <2>6. CASE LeaveBook BY <2>6, WalkStep
  <2>7. CASE Scan BY <2>7, ScanStep
  <2>8. CASE Emit BY <2>8, EmitStep
  <2>9. CASE Deduct BY <2>9, DeductStep
  <2>10. CASE TakePending BY <2>10, TakePendingStep
  <2>11. CASE Restart BY <2>11, RestartStep
  <2>12. CASE UNCHANGED vars BY <2>12, StutterStep
  <2> QED
    BY <2>1, <2>2, <2>3, <2>4, <2>5, <2>6, <2>7, <2>8, <2>9, <2>10, <2>11, <2>12
    DEF Next, Step, MatchStep
<1> QED BY <1>1, <1>2, PTL DEF Spec

\* The fields of the engine keep their types; no remaining amount is negative.
THEOREM TypeCorrect == Spec => []TypeOK
<1>1. IInv => TypeOK BY DEF IInv
<1> QED BY <1>1, Invariance, PTL

\* However orders arrive, passes interleave and the process restarts, the
\* trades of an order never add up to more than its signed size.
THEOREM NeverOverfilled == Spec => []NoOverfill
<1>1. IInv => NoOverfill BY DEF IInv, AmountInv
<1> QED BY <1>1, Invariance, PTL

\* remain has an entry for exactly the orders being added or booked.
THEOREM RemainCorrect == Spec => []RemainIsOpen
<1>1. IInv => RemainIsOpen BY DEF IInv, BookInv
<1> QED BY <1>1, Invariance, PTL

\* The entry is what the trades emitted so far have left of the order, at
\* every point of a pass (matchengine.go:193, 227).
THEOREM RemainAddsUp == Spec => []RemainAccounts
<1>1. IInv => RemainAccounts BY DEF IInv, AmountInv
<1> QED BY <1>1, Invariance, PTL

\* Each order stands in one place of the book of its perp and side.
THEOREM BookedOnce == Spec => []EachOrderOnce
<1>1. IInv => EachOrderOnce BY DEF IInv, BookInv
<1> QED BY <1>1, Invariance, PTL

\* Every trade waiting for the submit loop pairs a buy and a sell of one
\* perpetual at a price the buyer accepts.
THEOREM TradesSound == Spec => []TradesWithinLimits
<1>1. IInv => TradesWithinLimits BY DEF IInv
<1> QED BY <1>1, Invariance, PTL

-----------------------------------------------------------------------------
\* The trade that Emit appends is the one between the two heads.
LEMMA NewTradeIs ==
    ASSUME IInv, Emit
    PROVE  NewTrade.taker = HeadBuy /\ NewTrade.maker = HeadSell
<1>1. cur \in Perps /\ BothSides(cur) /\ amount \in Nat BY AmountFacts DEF Emit
<1>2. {HeadBuy, HeadSell} \subseteq Orders BY <1>1, HeadFacts DEF IInv
<1>3. MatchResult(HeadBuy, HeadSell, amount) \in Trades
  BY <1>1, <1>2, SizePriceType DEF MatchResult, Trades
<1>4. NewTrade = MatchResult(HeadBuy, HeadSell, amount)
  BY <1>3, AppendProperties DEF Emit, NewTrade, IInv, TypeOK
<1> QED BY <1>4 DEF MatchResult

\* A trade is always made between the best prices on the two sides of the
\* book, whatever sort.Slice does to orders of equal price.
THEOREM BestPriceFirst == Spec => PricePriority
<1>1. ASSUME IInv, Emit
      PROVE  /\ \A o \in BookedAt(cur, "buy") : ~Ahead(o, NewTrade.taker)
             /\ \A o \in BookedAt(cur, "sell") : ~Ahead(o, NewTrade.maker)
  <2>1. cur \in Perps /\ BothSides(cur) /\ amount \in Nat
    BY <1>1, AmountFacts DEF Emit
  <2>2. NewTrade.taker = HeadBuy /\ NewTrade.maker = HeadSell BY <1>1, NewTradeIs
  <2>3. \A s \in Side : book[cur][s] \in Seq(Orders) /\ PriceSorted(book[cur][s])
    BY <1>1, <2>1, BookFacts DEF IInv
  <2>4. "buy" \in Side /\ "sell" \in Side BY DEF Side
  <2>5. \A o \in BookedAt(cur, "buy") : ~Ahead(o, HeadBuy)
    BY <2>1, <2>3, <2>4, HeadIsBest DEF BookedAt, HeadBuy, BothSides
  <2>6. \A o \in BookedAt(cur, "sell") : ~Ahead(o, HeadSell)
    BY <2>1, <2>3, <2>4, HeadIsBest DEF BookedAt, HeadSell, BothSides
  <2> QED BY <2>2, <2>5, <2>6
<1>2. IInv /\ [Next]_vars
        => [Emit => /\ \A o \in BookedAt(cur, "buy") : ~Ahead(o, NewTrade.taker)
                    /\ \A o \in BookedAt(cur, "sell") : ~Ahead(o, NewTrade.maker)]_vars
  BY <1>1
<1> QED BY <1>2, Invariance, PTL DEF Spec, PricePriority

-----------------------------------------------------------------------------
(* Time priority.  It holds as long as no side of a book is longer than    *)
(* what sort.Slice sorts stably: MCMatchEngineUnstable.cfg shows it broken *)
(* beyond that.                                                            *)

ShortBooks == \A p \in Perps : \A s \in Side : Len(book[p][s]) <= StableMax

\* An order enters the books once, when AddOrder is done with it.
ArrivedOnce ==
    /\ IsInjective(arrived)
    /\ Range(arrived) \subseteq submitted
    /\ adding \cap Range(arrived) = {}
    /\ Booked \subseteq Range(arrived)

\* Of two orders of a price, the one that stands further back came later.
OldestFirst(q) ==
    \A i, j \in DOMAIN q :
        i < j /\ Price(q[i]) = Price(q[j]) => ~ArrivedBefore(q[j], q[i])

BooksByAge == \A p \in Perps : \A s \in Side : OldestFirst(book[p][s])

TimeInv == ArrivedOnce /\ BooksByAge

\* With one arrival each, coming before is a strict order of what has arrived.
LEMMA ArrivedOrder ==
    ASSUME arrived \in Seq(Orders), IsInjective(arrived)
    PROVE  /\ \A x : ~ArrivedBefore(x, x)
           /\ \A x, y : ArrivedBefore(x, y) => ~ArrivedBefore(y, x)
<1>1. DOMAIN arrived = 1..Len(arrived) /\ Len(arrived) \in Nat BY LenProperties
<1> QED BY <1>1 DEF ArrivedBefore, IsInjective

\* The arrival of an order leaves the order of the others, and it is last.
LEMMA NewestIsLast ==
    ASSUME arrived \in Seq(Orders), NEW o \in Orders, o \notin Range(arrived),
           arrived' = Append(arrived, o)
    PROVE  /\ \A x \in Range(arrived) : ~ArrivedBefore(o, x)'
           /\ \A x, y \in Range(arrived) : ArrivedBefore(x, y)' => ArrivedBefore(x, y)
<1>1. /\ arrived' \in Seq(Orders) /\ Len(arrived') = Len(arrived) + 1
      /\ \A i \in 1..Len(arrived) : arrived'[i] = arrived[i]
      /\ arrived'[Len(arrived) + 1] = o
  BY AppendProperties
<1>2. /\ DOMAIN arrived = 1..Len(arrived) /\ Len(arrived) \in Nat
      /\ DOMAIN arrived' = 1..(Len(arrived) + 1)
  BY <1>1, LenProperties
<1>3. \A i \in DOMAIN arrived' :
         /\ i \in Nat /\ i <= Len(arrived) + 1
         /\ arrived'[i] \in Range(arrived) => i \in DOMAIN arrived /\ arrived'[i] = arrived[i]
         /\ arrived'[i] = o => i = Len(arrived) + 1
  BY <1>1, <1>2 DEF Range
<1>4. \A x \in Range(arrived) : ~ArrivedBefore(o, x)'
  <2> SUFFICES ASSUME NEW x \in Range(arrived), NEW i \in DOMAIN arrived',
                      NEW j \in DOMAIN arrived', i < j, arrived'[i] = o, arrived'[j] = x
               PROVE  FALSE
    BY DEF ArrivedBefore
  <2> QED BY <1>2, <1>3
<1>5. \A x, y \in Range(arrived) : ArrivedBefore(x, y)' => ArrivedBefore(x, y)
  <2> SUFFICES ASSUME NEW x \in Range(arrived), NEW y \in Range(arrived),
                      NEW i \in DOMAIN arrived', NEW j \in DOMAIN arrived',
                      i < j, arrived'[i] = x, arrived'[j] = y
               PROVE  ArrivedBefore(x, y)
    BY DEF ArrivedBefore
  <2> QED BY <1>3 DEF ArrivedBefore
<1> QED BY <1>4, <1>5

\* Books and arrivals as they were.
LEMMA SameTimes ==
    ASSUME TimeInv, UNCHANGED <<book, arrived, adding, submitted>> PROVE TimeInv'
<1>1. Booked' = Booked BY DEF Booked, BookedAt
<1>2. \A x, y : ArrivedBefore(x, y)' <=> ArrivedBefore(x, y) BY DEF ArrivedBefore
<1>3. \A p \in Perps : \A s \in Side : OldestFirst(book[p][s])' = OldestFirst(book[p][s])
  BY <1>2 DEF OldestFirst
<1> QED BY <1>1, <1>3 DEF TimeInv, ArrivedOnce, BooksByAge

LEMMA InitTimes == Init => TimeInv
<1> SUFFICES ASSUME Init PROVE TimeInv OBVIOUS
<1>1. arrived = <<>> /\ \A p \in Perps : \A s \in Side : book[p][s] = <<>>
  BY DEF Init, Fresh, EmptyBook
<1>2. Booked = {} BY <1>1 DEF Booked, BookedAt, Range
<1>3. ArrivedOnce BY <1>1, <1>2 DEF ArrivedOnce, IsInjective, Range, Init, Fresh
<1>4. BooksByAge BY <1>1 DEF BooksByAge, OldestFirst
<1> QED BY <1>3, <1>4 DEF TimeInv

\* Sorting the slice with the new order at its end: stable, so the new order
\* ends up behind those of its price.
LEMMA InsertKeepsAge ==
    ASSUME NEW q \in Seq(Orders), NEW o \in Orders, o \notin Range(q), IsInjective(q),
           OldestFirst(q), Range(q) \subseteq Range(arrived),
           \A x \in Range(q) : SideOf(x) = SideOf(o),
           arrived \in Seq(Orders), o \notin Range(arrived), arrived' = Append(arrived, o),
           NEW t \in SortOutcomes(Append(q, o)), Len(t) <= StableMax
    PROVE  OldestFirst(t)'
<1> DEFINE a == Append(q, o)
           n == Len(q) + 1
<1>1. /\ a \in Seq(Orders) /\ Range(a) = Range(q) \cup {o} /\ IsInjective(a)
      /\ Len(a) = n /\ (\A i \in 1..Len(q) : a[i] = q[i]) /\ a[n] = o
  BY AppendRange, AppendProperties
<1>2. /\ DOMAIN q = 1..Len(q) /\ Len(q) \in Nat /\ DOMAIN a = 1..n
  BY <1>1, LenProperties
<1>3. t \in SortOutcomes(a) OBVIOUS
<1> HIDE DEF a
<1>4. t \in Seq(Orders) /\ Range(t) = Range(a) /\ IsInjective(t) BY <1>1, <1>3, SortKeeps
<1>5. DOMAIN t = 1..Len(t) /\ Len(t) \in Nat BY <1>4, LenProperties
<1>6. \A x, y \in Range(a) : Price(x) = Price(y) => ~Ahead(x, y)
  <2>1. \A x \in Range(a) : Price(x) \in Nat BY <1>1, RangeInSet, SizePriceType
  <2> QED BY <2>1 DEF Ahead
<1>7. ASSUME NEW k \in DOMAIN t, NEW l \in DOMAIN t, k < l, Price(t[k]) = Price(t[l]),
             NEW i \in DOMAIN a, NEW j \in DOMAIN a, t[k] = a[i], t[l] = a[j]
      PROVE  i < j
  <2>1. i /= j BY <1>4, <1>5, <1>7 DEF IsInjective
  <2>2. ~(j < i)
    <3> SUFFICES ASSUME j < i PROVE FALSE OBVIOUS
    <3>1. ~Ahead(a[i], a[j]) BY <1>6, <1>7 DEF Range
    <3>2. CASE PriceSorted(a)
      <4>1. t = a BY <1>3, <3>2 DEF SortOutcomes
      <4>2. i = k /\ j = l BY <4>1, <1>1, <1>7 DEF IsInjective
      <4> QED BY <4>2, <1>5, <1>7
    <3>3. CASE ~PriceSorted(a)
      <4>1. t \in Surjection(DOMAIN a, Range(a)) /\ (Len(a) <= StableMax => KeepsOrderOf(t, a))
        BY <1>3, <3>3 DEF SortOutcomes
      <4>2. DOMAIN t = DOMAIN a BY <4>1 DEF Surjection
      <4>3. Len(t) = Len(a) BY <4>2, <1>1, <1>2, <1>5
      <4>4. KeepsOrderOf(t, a) BY <4>1, <4>3
      <4>5. l < k BY <4>4, <3>1, <1>7 DEF KeepsOrderOf
      <4> QED BY <4>5, <1>5, <1>7
    <3> QED BY <3>2, <3>3
  <2> QED BY <2>1, <2>2, <1>2
<1>8. \A x, y \in Range(q) : ArrivedBefore(x, y)' => ArrivedBefore(x, y)
  BY NewestIsLast
<1>9. \A x \in Range(q) : ~ArrivedBefore(o, x)' BY NewestIsLast
<1> SUFFICES ASSUME NEW k \in DOMAIN t, NEW l \in DOMAIN t, k < l, Price(t[k]) = Price(t[l])
             PROVE  ~ArrivedBefore(t[l], t[k])'
  BY DEF OldestFirst
<1>10. PICK i \in DOMAIN a, j \in DOMAIN a : t[k] = a[i] /\ t[l] = a[j]
  <2>1. t[k] \in Range(a) /\ t[l] \in Range(a) BY <1>4 DEF Range
  <2> QED BY <2>1 DEF Range
<1>11. i < j BY <1>7, <1>10
<1>12. i \in DOMAIN q /\ a[i] = q[i] /\ q[i] \in Range(q) BY <1>1, <1>2, <1>11 DEF Range
<1>13. CASE j = n BY <1>1, <1>9, <1>10, <1>12, <1>13
<1>14. CASE j /= n
  <2>1. j \in DOMAIN q /\ a[j] = q[j] /\ q[j] \in Range(q) BY <1>1, <1>2, <1>14 DEF Range
  <2>2. ~ArrivedBefore(q[j], q[i]) BY <2>1, <1>10, <1>11, <1>12 DEF OldestFirst
  <2> QED BY <2>1, <2>2, <1>8, <1>10, <1>12
<1> QED BY <1>13, <1>14

LEMMA AddToBookTimes ==
    ASSUME IInv, TimeInv, ShortBooks', NEW o \in Orders, AddToBook(o) PROVE TimeInv'
<1> DEFINE P == o.perp
           S == SideOf(o)
<1>1. P \in Perps /\ S \in Side BY OrdersAssumption, SizePriceType
<1>2. PICK t \in SortOutcomes(Append(book[P][S], o)) :
            book' = [book EXCEPT ![P] = [@ EXCEPT ![S] = t]]
  BY DEF AddToBook
<1>3. o \in adding /\ adding' = adding \ {o} /\ arrived' = Append(arrived, o)
      /\ submitted' = submitted
  BY DEF AddToBook
<1>4. o \notin Booked /\ o \notin Range(arrived) /\ o \in submitted
  BY <1>3 DEF IInv, BookInv, EachOrderOnce, TimeInv, ArrivedOnce, TypeOK
<1>5. /\ book[P][S] \in Seq(Orders) /\ IsInjective(book[P][S])
      /\ o \notin Range(book[P][S]) /\ Range(book[P][S]) \subseteq Range(arrived)
      /\ \A x \in Range(book[P][S]) : SideOf(x) = S
  BY <1>1, <1>4, BookFacts DEF IInv, Booked, BookedAt, TimeInv, ArrivedOnce
<1>6. book \in [Perps -> [Side -> Seq(Orders)]] /\ arrived \in Seq(Orders)
  BY DEF IInv, TypeOK
<1>7. /\ book'[P][S] = t
      /\ \A p \in Perps : \A s \in Side : (p /= P \/ s /= S) => book'[p][s] = book[p][s]
  BY <1>1, <1>2, <1>6
<1>8. Range(t) = Range(book[P][S]) \cup {o}
  <2> DEFINE a == Append(book[P][S], o)
  <2>1. a \in Seq(Orders) /\ Range(a) = Range(book[P][S]) \cup {o} /\ IsInjective(a)
    BY <1>5, AppendRange
  <2>2. t \in SortOutcomes(a) OBVIOUS
  <2> HIDE DEF a
  <2> QED BY <2>1, <2>2, SortKeeps
<1>9. OldestFirst(t)'
  <2>1. OldestFirst(book[P][S]) BY <1>1 DEF TimeInv, BooksByAge
  <2>2. Len(t) <= StableMax BY <1>1, <1>7 DEF ShortBooks
  <2> QED BY <2>1, <2>2, <1>2, <1>3, <1>4, <1>5, <1>6, InsertKeepsAge
<1>10. /\ Range(arrived') = Range(arrived) \cup {o} /\ IsInjective(arrived')
  BY <1>3, <1>4, <1>6, AppendRange DEF TimeInv, ArrivedOnce
<1> HIDE DEF P, S
<1>11. ArrivedOnce'
  <2>1. \A p \in Perps : \A s \in Side : BookedAt(p, s)' \subseteq BookedAt(p, s) \cup {o}
    BY <1>7, <1>8 DEF BookedAt
  <2>2. Booked' \subseteq Booked \cup {o} BY <2>1 DEF Booked
  <2> QED BY <2>2, <1>3, <1>4, <1>10 DEF TimeInv, ArrivedOnce
<1>12. BooksByAge'
  <2> SUFFICES ASSUME NEW p \in Perps, NEW s \in Side PROVE OldestFirst(book[p][s])'
    BY DEF BooksByAge
  <2>1. CASE p = P /\ s = S BY <2>1, <1>7, <1>9 DEF OldestFirst
  <2>2. CASE p /= P \/ s /= S
    <3>1. book'[p][s] = book[p][s] BY <2>2, <1>7
    <3>2. Range(book[p][s]) \subseteq Range(arrived)
      BY DEF TimeInv, ArrivedOnce, Booked, BookedAt
    <3>3. \A x, y \in Range(arrived) : ArrivedBefore(x, y)' => ArrivedBefore(x, y)
      BY <1>3, <1>4, <1>6, NewestIsLast
    <3>4. OldestFirst(book[p][s]) BY DEF TimeInv, BooksByAge
    <3> QED BY <3>1, <3>2, <3>3, <3>4 DEF OldestFirst, Range
  <2> QED BY <2>1, <2>2
<1> QED BY <1>11, <1>12 DEF TimeInv

\* A filled head leaves; those behind it keep their order.
LEMMA DeductTimes ==
    ASSUME IInv, TimeInv, Deduct PROVE TimeInv'
<1>1. /\ UNCHANGED <<arrived, adding, submitted>> /\ cur \in Perps /\ BothSides(cur)
      /\ book' = [book EXCEPT ![cur] = [s \in Side |-> AfterFill(s)]]
      /\ book \in [Perps -> [Side -> Seq(Orders)]]
  BY AmountFacts DEF Deduct, IInv, TypeOK
<1>2. \A x, y : ArrivedBefore(x, y)' <=> ArrivedBefore(x, y) BY <1>1 DEF ArrivedBefore
<1>3. ASSUME NEW q \in Seq(Orders), q /= <<>>, OldestFirst(q)
      PROVE  OldestFirst(Tail(q)) /\ Range(Tail(q)) \subseteq Range(q)
  <2>1. /\ Tail(q) \in Seq(Orders) /\ Len(Tail(q)) = Len(q) - 1
        /\ \A i \in 1..Len(Tail(q)) : Tail(q)[i] = q[i + 1]
    BY <1>3, HeadTailProperties
  <2>2. /\ DOMAIN q = 1..Len(q) /\ Len(q) \in Nat /\ DOMAIN Tail(q) = 1..(Len(q) - 1)
    BY <2>1, LenProperties
  <2>3. \A i \in DOMAIN Tail(q) : i + 1 \in DOMAIN q /\ Tail(q)[i] = q[i + 1] /\ i \in Nat
    BY <2>1, <2>2
  <2>4. Range(Tail(q)) \subseteq Range(q) BY <2>3 DEF Range
  <2>5. ASSUME NEW i \in DOMAIN Tail(q), NEW j \in DOMAIN Tail(q), i < j,
               Price(Tail(q)[i]) = Price(Tail(q)[j])
        PROVE  ~ArrivedBefore(Tail(q)[j], Tail(q)[i])
    <3>1. i + 1 < j + 1 BY <2>3, <2>5
    <3> QED BY <3>1, <2>3, <2>5, <1>3 DEF OldestFirst
  <2> QED BY <2>4, <2>5 DEF OldestFirst
<1>4. ASSUME NEW p \in Perps, NEW s \in Side
      PROVE  OldestFirst(book'[p][s]) /\ Range(book'[p][s]) \subseteq Range(book[p][s])
  <2>1. OldestFirst(book[p][s]) BY DEF TimeInv, BooksByAge
  <2>2. CASE p = cur
    <3>1. book'[p][s] \in {book[p][s], Tail(book[p][s])} BY <2>2, <1>1 DEF AfterFill
    <3>2. book[p][s] /= <<>> BY <2>2, <1>1 DEF BothSides, Side
    <3> QED BY <3>1, <3>2, <2>1, <1>1, <1>3
  <2>3. CASE p /= cur BY <2>1, <2>3, <1>1
  <2> QED BY <2>2, <2>3
<1>5. Booked' \subseteq Booked BY <1>4 DEF Booked, BookedAt
<1>6. ArrivedOnce' BY <1>1, <1>5 DEF TimeInv, ArrivedOnce
<1>7. BooksByAge' BY <1>2, <1>4 DEF BooksByAge, OldestFirst
<1> QED BY <1>6, <1>7 DEF TimeInv

LEMMA TimeStep ==
    ASSUME IInv, TimeInv, ShortBooks', [Next]_vars PROVE TimeInv'
<1>1. ASSUME NEW o \in Orders, AddRemain(o) PROVE TimeInv'
  <2>1. /\ o \notin submitted /\ submitted' = submitted \cup {o}
        /\ adding' = adding \cup {o} /\ UNCHANGED <<book, arrived>>
    BY <1>1 DEF AddRemain
  <2>2. Booked' = Booked BY <2>1 DEF Booked, BookedAt
  <2>3. \A x, y : ArrivedBefore(x, y)' <=> ArrivedBefore(x, y) BY <2>1 DEF ArrivedBefore
  <2>4. ArrivedOnce' BY <2>1, <2>2 DEF TimeInv, ArrivedOnce
  <2>5. BooksByAge' BY <2>1, <2>3 DEF TimeInv, BooksByAge, OldestFirst
  <2> QED BY <2>4, <2>5 DEF TimeInv
<1>2. ASSUME NEW o \in Orders, AddToBook(o) PROVE TimeInv' BY <1>2, AddToBookTimes
<1>3. CASE StartPass \/ EndPass \/ (\E p \in Perps : PickBook(p)) \/ LeaveBook \/ Scan
  BY <1>3, SameTimes DEF StartPass, EndPass, PickBook, LeaveBook, Scan
<1>4. CASE Emit BY <1>4, SameTimes DEF Emit
<1>5. CASE Deduct BY <1>5, DeductTimes
<1>6. CASE TakePending BY <1>6, SameTimes DEF TakePending
<1>7. CASE Restart
  <2>1. /\ arrived' = <<>> /\ adding' = {}
        /\ \A p \in Perps : \A s \in Side : book'[p][s] = <<>>
    BY <1>7 DEF Restart, EmptyBook
  <2>2. Booked' = {} BY <2>1 DEF Booked, BookedAt, Range
  <2>3. ArrivedOnce' BY <2>1, <2>2 DEF ArrivedOnce, IsInjective, Range
  <2>4. BooksByAge' BY <2>1 DEF BooksByAge, OldestFirst
  <2> QED BY <2>3, <2>4 DEF TimeInv
<1>8. CASE UNCHANGED vars BY <1>8, SameTimes DEF vars
<1> QED BY <1>1, <1>2, <1>3, <1>4, <1>5, <1>6, <1>7, <1>8 DEF Next, Step, MatchStep

\* While no side of a book outgrows the stable sort, of two orders of a price
\* the one that came first trades first, whatever came and traded in between.
THEOREM OldestTradesFirst == Spec /\ []ShortBooks => TimePriority
<1> DEFINE Fair == \A o \in BookedAt(cur, "buy") \cup BookedAt(cur, "sell") :
                      \A h \in {NewTrade.taker, NewTrade.maker} :
                         SideOf(o) = SideOf(h) /\ Price(o) = Price(h)
                           => ~ArrivedBefore(o, h)
<1>1. ASSUME IInv, TimeInv, Emit PROVE Fair
  <2>1. cur \in Perps /\ BothSides(cur) BY <1>1, AmountFacts DEF Emit
  <2>2. NewTrade.taker = HeadBuy /\ NewTrade.maker = HeadSell BY <1>1, NewTradeIs
  <2>3. arrived \in Seq(Orders) /\ IsInjective(arrived)
    BY <1>1 DEF IInv, TypeOK, TimeInv, ArrivedOnce
  <2>4. ASSUME NEW s \in Side, NEW o \in BookedAt(cur, s), Price(o) = Price(Head(book[cur][s]))
        PROVE  ~ArrivedBefore(o, Head(book[cur][s]))
    <3> DEFINE q == book[cur][s]
    <3>1. q \in Seq(Orders) /\ OldestFirst(q)
      BY <1>1, <2>1, BookFacts DEF IInv, TimeInv, BooksByAge
    <3>2. PICK i \in DOMAIN q : o = q[i] BY DEF BookedAt, Range
    <3>3. DOMAIN q = 1..Len(q) /\ Len(q) \in Nat /\ Head(q) = q[1]
      BY <3>1, LenProperties
    <3> HIDE DEF q
    <3>4. CASE i = 1 BY <3>2, <3>3, <3>4, <2>3, ArrivedOrder DEF q
    <3>5. CASE i /= 1
      <4>1. 1 < i /\ 1 \in DOMAIN q BY <3>3, <3>5
      <4> QED BY <4>1, <3>1, <3>2, <3>3, <2>4 DEF OldestFirst, q
    <3> QED BY <3>4, <3>5
  <2>5. /\ SideOf(HeadBuy) = "buy" /\ SideOf(HeadSell) = "sell"
        /\ \A s \in Side : \A o \in BookedAt(cur, s) : SideOf(o) = s
    BY <1>1, <2>1, HeadFacts, BookFacts DEF IInv
  <2>6. \A o \in BookedAt(cur, "buy") : Price(o) = Price(HeadBuy) => ~ArrivedBefore(o, HeadBuy)
    BY <2>4 DEF Side, HeadBuy
  <2>7. \A o \in BookedAt(cur, "sell") :
           Price(o) = Price(HeadSell) => ~ArrivedBefore(o, HeadSell)
    BY <2>4 DEF Side, HeadSell
  <2>8. \A o \in BookedAt(cur, "buy") : SideOf(o) /= SideOf(HeadSell) BY <2>5 DEF Side
  <2>9. \A o \in BookedAt(cur, "sell") : SideOf(o) /= SideOf(HeadBuy) BY <2>5 DEF Side
  <2> QED BY <2>2, <2>6, <2>7, <2>8, <2>9
<1>2. IInv /\ TimeInv /\ [Next]_vars => [Emit => Fair]_vars BY <1>1
<1> HIDE DEF Fair
<1>3. Spec /\ []ShortBooks => []TimeInv
  BY InitTimes, TimeStep, Invariance, PTL DEF Spec
<1>4. Spec /\ []ShortBooks => [][Emit => Fair]_vars BY <1>2, <1>3, Invariance, PTL DEF Spec
<1> QED BY <1>4 DEF TimePriority, Fair

-----------------------------------------------------------------------------
(* Only an order signed with size zero leads to the anomaly the code logs, *)
(* and but for a book such an order heads, a pass leaves nothing behind    *)
(* that could trade.                                                       *)

\* What the engine still knows of has something left: a filled order goes from
\* its book and from remain in the step that uses it up.
Left == \A o \in DOMAIN remain : Size(o) > 0 => remain[o] > 0

LEMMA LeftStep ==
    ASSUME IInv, Left, [Next]_vars
    PROVE  Left'
<1> USE DEF Left
<1>1. ASSUME NEW o \in Orders, AddRemain(o) PROVE Left'
  BY <1>1 DEF AddRemain
<1>2. ASSUME NEW o \in Orders, AddToBook(o) PROVE Left'
  BY <1>2 DEF AddToBook
<1>3. CASE StartPass \/ EndPass \/ (\E p \in Perps : PickBook(p)) \/ LeaveBook \/ Scan
  BY <1>3 DEF StartPass, EndPass, PickBook, LeaveBook, Scan
<1>4. CASE Emit BY <1>4 DEF Emit
<1>5. CASE Deduct
  <2> SUFFICES ASSUME NEW o \in DOMAIN remain', Size(o) > 0 PROVE remain'[o] > 0
    OBVIOUS
  <2>1. /\ o \in DOMAIN remain \ Spent
        /\ remain'[o] = IF o \in {HeadBuy, HeadSell} THEN remain[o] - amount ELSE remain[o]
    BY <1>5 DEF Deduct, Charged
  <2>2. CASE o \in {HeadBuy, HeadSell}
    <3>1. remain[o] \in Nat /\ amount \in Nat /\ amount <= remain[o]
      BY <1>5, <2>2, AmountFacts DEF Deduct
    <3>2. remain[o] /= amount BY <2>1, <2>2 DEF Spent, Charged
    <3> QED BY <2>1, <2>2, <3>1, <3>2
  <2>3. CASE o \notin {HeadBuy, HeadSell}
    BY <2>1, <2>3
  <2> QED BY <2>2, <2>3
<1>6. CASE TakePending BY <1>6 DEF TakePending
<1>7. CASE Restart BY <1>7 DEF Restart
<1>8. CASE UNCHANGED vars BY <1>8 DEF vars
<1> QED BY <1>1, <1>2, <1>3, <1>4, <1>5, <1>6, <1>7, <1>8 DEF Next, Step, MatchStep

LEMMA LeftAlways == Spec => []Left
<1>1. Init => Left BY DEF Init, Fresh, Left
<1> QED BY <1>1, LeftStep, Invariance, PTL DEF Spec

\* Heads that cross have something left, or the sell never had anything: no
\* order that was used up is ever found at the head of a side.
THEOREM NoAnomaly == Spec => []HeadsHaveRemain
<1>1. IInv /\ Left => HeadsHaveRemain
  <2> SUFFICES ASSUME IInv, Left, mpc = "scan", BothSides(cur)
               PROVE  remain[HeadBuy] > 0 /\ (remain[HeadSell] > 0 \/ Size(HeadSell) = 0)
    BY DEF HeadsHaveRemain
  <2>1. cur \in Perps BY DEF IInv, TypeOK
  <2>2. /\ {HeadBuy, HeadSell} \subseteq DOMAIN remain
        /\ HeadBuy \in Orders /\ HeadSell \in Orders /\ SideOf(HeadBuy) = "buy"
    BY <2>1, HeadFacts DEF IInv
  <2>3. Size(HeadBuy) > 0
    BY <2>2, OrdersAssumption DEF SideOf, Size, AbsVal
  <2>4. Size(HeadSell) \in Nat BY <2>2, SizePriceType
  <2> QED BY <2>2, <2>3, <2>4 DEF Left
<1> QED BY <1>1, LeftAlways, Invariance, PTL

\* A pass leaves no two orders that could trade with one another in any book it
\* has visited, unless an order of size zero heads the sells there.
THEOREM PassComplete == Spec => []PassUncrosses
<1> DEFINE Clear(p) == \A b \in BookedAt(p, "buy"), s \in BookedAt(p, "sell") :
                           Price(b) < Price(s)
           Done(p) == Blocked(p) \/ Clear(p)
           Visited == mpc /= "idle" => \A p \in Perps \ todo : p /= cur => Done(p)
<1>1. Init => Visited BY DEF Init, Fresh
<1>2. ASSUME IInv, HeadsHaveRemain, Visited, [Next]_vars PROVE Visited'
  <2>1. ASSUME UNCHANGED book PROVE \A p : Done(p)' <=> Done(p)
    BY <2>1 DEF BookedAt, Blocked
  <2>2. ASSUME NEW o \in Orders, AddRemain(o) PROVE Visited'
    BY <1>2, <2>1, <2>2 DEF AddRemain
  <2>3. ASSUME NEW o \in Orders, AddToBook(o) PROVE Visited'
    BY <2>3 DEF AddToBook
  <2>4. CASE StartPass BY <2>4 DEF StartPass
  <2>5. CASE EndPass BY <2>5 DEF EndPass
  <2>6. ASSUME NEW p \in Perps, PickBook(p) PROVE Visited'
    <3>1. cur = NoPerp /\ mpc = "pass" BY <1>2, <2>6 DEF IInv, TypeOK, PickBook
    <3>2. \A x \in Perps : x /= cur BY <3>1, NoPerpAssumption
    <3>3. todo' = todo \ {p} /\ cur' = p /\ UNCHANGED book BY <2>6 DEF PickBook
    <3> QED BY <1>2, <2>1, <3>1, <3>2, <3>3
  <2>7. CASE LeaveBook
    <3>1. cur \in Perps /\ mpc = "scan" BY <1>2, <2>7 DEF IInv, TypeOK, LeaveBook
    <3>2. UNCHANGED <<book, todo>> BY <2>7 DEF LeaveBook
    <3>3. Done(cur)
      <4> SUFFICES ASSUME ~Blocked(cur),
                          NEW b \in BookedAt(cur, "buy"), NEW s \in BookedAt(cur, "sell")
                   PROVE  Price(b) < Price(s)
        OBVIOUS
      <4>1. "buy" \in Side /\ "sell" \in Side BY DEF Side
      <4>2. /\ book[cur]["buy"] \in Seq(Orders) /\ PriceSorted(book[cur]["buy"])
            /\ book[cur]["sell"] \in Seq(Orders) /\ PriceSorted(book[cur]["sell"])
        BY <1>2, <3>1, <4>1, BookFacts DEF IInv
      <4>3. BothSides(cur)
        <5>1. \A q \in Seq(Orders) : q = <<>> => Range(q) = {} BY DEF Range
        <5> QED BY <4>2, <5>1 DEF BothSides, BookedAt
      <4>4. {HeadBuy, HeadSell} \subseteq DOMAIN remain
            /\ {HeadBuy, HeadSell} \subseteq Orders
        BY <1>2, <3>1, <4>3, HeadFacts DEF IInv
      <4>5. remain[HeadBuy] \in Nat /\ remain[HeadSell] \in Nat
            /\ Price(HeadBuy) \in Nat /\ Price(HeadSell) \in Nat
        BY <1>2, <4>4, SizePriceType DEF IInv, TypeOK
      <4>6. Price(HeadBuy) < Price(HeadSell)
        <5>1. Size(HeadSell) /= 0
          BY <4>3 DEF Blocked, BothSides, HeadSell
        <5>2. Price(HeadBuy) >= Price(HeadSell) =>
                 remain[HeadBuy] > 0 /\ remain[HeadSell] > 0
          BY <1>2, <3>1, <4>3, <5>1 DEF HeadsHaveRemain
        <5> QED BY <2>7, <4>3, <4>5, <5>2 DEF LeaveBook, HeadsMatch, Crossed, Smaller
      <4>7. /\ b \in Orders /\ SideOf(b) = "buy"
            /\ s \in Orders /\ SideOf(s) = "sell"
        BY <1>2, <3>1, <4>1, BookFacts DEF IInv
      <4>8. ~Ahead(b, HeadBuy) /\ ~Ahead(s, HeadSell)
        BY <4>2, <4>3, HeadIsBest DEF BookedAt, BothSides, HeadBuy, HeadSell
      <4>9. Price(b) <= Price(HeadBuy) /\ Price(HeadSell) <= Price(s)
        BY <4>5, <4>7, <4>8, SizePriceType DEF Ahead
      <4> QED BY <4>5, <4>6, <4>7, <4>9, SizePriceType
    <3> QED BY <1>2, <2>1, <3>1, <3>2, <3>3
  <2>8. CASE Scan BY <1>2, <2>1, <2>8 DEF Scan
  <2>9. CASE Emit BY <1>2, <2>1, <2>9 DEF Emit
  <2>10. CASE Deduct
    <3>1. \A p \in Perps : p /= cur => book'[p] = book[p]
      BY <1>2, <2>10 DEF Deduct, IInv, TypeOK
    <3>2. \A p \in Perps : p /= cur => (Done(p)' <=> Done(p))
      BY <3>1 DEF BookedAt, Blocked
    <3>3. mpc /= "idle" /\ UNCHANGED <<todo, cur>> BY <2>10 DEF Deduct
    <3> HIDE DEF Done
    <3> QED BY <1>2, <3>2, <3>3
  <2>11. CASE TakePending BY <1>2, <2>1, <2>11 DEF TakePending
  <2>12. CASE Restart BY <2>12 DEF Restart
  <2>13. CASE UNCHANGED vars BY <1>2, <2>1, <2>13 DEF vars
  <2> QED BY <1>2, <2>2, <2>3, <2>4, <2>5, <2>6, <2>7, <2>8, <2>9, <2>10,
             <2>11, <2>12, <2>13 DEF Next, Step, MatchStep
<1>3. IInv /\ Visited => PassUncrosses
  BY NoPerpAssumption DEF PassUncrosses, IInv, TypeOK
<1> HIDE DEF Visited
<1>4. Spec => []HeadsHaveRemain BY NoAnomaly
<1> QED BY <1>1, <1>2, <1>3, <1>4, Invariance, PTL DEF Spec

-----------------------------------------------------------------------------
(* No order gets lost in the engine while the process is up.               *)

\* An order in a book stays there until all of it was traded.
LEMMA BookedOrUsedUp ==
    ASSUME IInv, IInv', Step, NEW o \in Orders,
           o \in Booked \/ matched[o] = Size(o)
    PROVE  (o \in Booked \/ matched[o] = Size(o))'
<1>0. Booked = DOMAIN remain \ adding /\ Booked' = DOMAIN remain' \ adding'
  BY DEF IInv, BookInv, RemainIsOpen, EachOrderOnce
<1>1. matched[o] \in Nat /\ matched'[o] \in Nat /\ Size(o) \in Nat /\ matched'[o] <= Size(o)
  BY SizePriceType DEF IInv, TypeOK, AmountInv, NoOverfill
<1>2. CASE Emit
  <2>1. /\ cur \in Perps /\ BothSides(cur) /\ amount \in Nat
        /\ \A h \in {HeadBuy, HeadSell} : remain[h] \in Nat /\ amount <= remain[h]
    BY <1>2, AmountFacts DEF Emit
  <2>2. HeadBuy /= HeadSell
    BY <2>1, HeadFacts DEF IInv
  <2>3. matched'[o] >= matched[o]
    BY <1>1, <1>2, <2>1, <2>2 DEF Emit, IInv, TypeOK
  <2>4. UNCHANGED Booked BY <1>2 DEF Emit, Booked, BookedAt
  <2> QED BY <1>1, <2>3, <2>4
<1>3. CASE Deduct
  <2>1. UNCHANGED <<matched, adding>> /\ DOMAIN remain' = DOMAIN remain \ Spent
    BY <1>3 DEF Deduct
  <2>2. CASE o \in Spent
    <3>1. o \in {HeadBuy, HeadSell} /\ remain[o] = amount /\ InDeduct(o)
      BY <1>3, <2>2 DEF Spent, Charged, InDeduct, Deduct
    <3>2. cur \in Perps /\ BothSides(cur) /\ amount \in Nat
      BY <1>3, AmountFacts DEF Deduct
    <3>3. o \in DOMAIN remain BY <3>1, <3>2, HeadFacts DEF IInv
    <3>4. remain[o] + matched[o] = Size(o) + amount
      BY <3>1, <3>3 DEF IInv, AmountInv, RemainAccounts
    <3> QED BY <1>1, <2>1, <3>1, <3>2, <3>4
  <2>3. CASE o \notin Spent
    BY <1>0, <2>1, <2>3
  <2> QED BY <2>2, <2>3
<1>4. ASSUME NEW a \in Orders, AddRemain(a) PROVE (o \in Booked \/ matched[o] = Size(o))'
  BY <1>4 DEF AddRemain, Booked, BookedAt
<1>5. ASSUME NEW a \in Orders, AddToBook(a) PROVE (o \in Booked \/ matched[o] = Size(o))'
  BY <1>0, <1>5 DEF AddToBook
<1>6. CASE StartPass \/ EndPass \/ (\E p \in Perps : PickBook(p)) \/ Scan \/ LeaveBook
           \/ TakePending
  BY <1>6 DEF StartPass, EndPass, PickBook, Scan, LeaveBook, TakePending, Booked, BookedAt
<1> QED BY <1>2, <1>3, <1>4, <1>5, <1>6 DEF Step, MatchStep

\* AddOrder returns with the order in its book.
LEMMA AddedIsBooked ==
    ASSUME IInv, IInv', NEW o \in Orders, AddToBook(o)
    PROVE  o \in Booked'
<1>1. o \in adding /\ o \notin adding' /\ UNCHANGED remain BY DEF AddToBook
<1>2. o \in DOMAIN remain BY <1>1 DEF IInv, BookInv, RemainIsOpen
<1> QED BY <1>1, <1>2 DEF IInv, BookInv, RemainIsOpen

-----------------------------------------------------------------------------
(* Refinement.                                                             *)

\* The ledger's operators are those of the engine.
LEMMA SameOrderData ==
    ASSUME NEW o
    PROVE  FL!Size(o) = Size(o) /\ FL!Price(o) = Price(o) /\ FL!SideOf(o) = SideOf(o)
BY DEF FL!Size, Size, FL!AbsVal, AbsVal, FL!Price, Price, FL!SideOf, SideOf

\* Emit is a trade of the ledger, of the amount the ledger gives it.
LEMMA EmitIsTrade ==
    ASSUME IInv, Emit
    PROVE  /\ HeadBuy \in Orders /\ HeadSell \in Orders
           /\ {HeadBuy, HeadSell} \subseteq DOMAIN remain
           /\ FL!Trade(HeadBuy, HeadSell)
           /\ amount = FL!Volume(HeadBuy, HeadSell)
<1>1. /\ cur \in Perps /\ BothSides(cur) /\ amount \in Nat /\ amount > 0
      /\ \A h \in {HeadBuy, HeadSell} : remain[h] \in Nat /\ amount <= remain[h]
  BY AmountFacts DEF Emit
<1>2. /\ HeadBuy \in Orders /\ HeadSell \in Orders
      /\ {HeadBuy, HeadSell} \subseteq DOMAIN remain
      /\ SideOf(HeadBuy) = "buy" /\ SideOf(HeadSell) = "sell"
      /\ HeadBuy.perp = HeadSell.perp
  BY <1>1, HeadFacts DEF IInv
<1>3. FL!Tradable(HeadBuy, HeadSell)
  BY <1>2, SameOrderData DEF FL!Tradable, IInv, AmountInv, LoopState, Emit
<1>4. \A h \in {HeadBuy, HeadSell} : remain[h] = FL!Open(h)
  <2> SUFFICES ASSUME NEW h \in {HeadBuy, HeadSell} PROVE remain[h] = FL!Open(h)
    OBVIOUS
  <2>1. remain[h] \in Nat /\ matched[h] \in Nat /\ Size(h) \in Nat
    BY <1>1, <1>2, SizePriceType DEF IInv, TypeOK
  <2>2. ~InDeduct(h) BY DEF InDeduct, Emit
  <2>3. remain[h] + matched[h] = Size(h)
    BY <1>2, <2>1, <2>2 DEF IInv, AmountInv, RemainAccounts
  <2> QED BY <2>1, <2>3, SameOrderData DEF FL!Open
<1>5. amount = FL!Volume(HeadBuy, HeadSell)
  BY <1>1, <1>4 DEF Emit, IInv, AmountInv, LoopState, Smaller, FL!Volume
<1>6. FL!Trade(HeadBuy, HeadSell)
  BY <1>1, <1>3, <1>5 DEF FL!Trade, Emit
<1> QED BY <1>2, <1>5, <1>6

\* Every step other than Emit leaves the ledger alone.
THEOREM RefinesLedger == Spec => ImplementsLedger
<1>1. Init => FL!Init BY DEF Init, FL!Init
<1>2. IInv /\ [Next]_vars => [FL!Next]_matched
  <2> SUFFICES ASSUME IInv, [Next]_vars PROVE [FL!Next]_matched OBVIOUS
  <2>1. CASE Emit
    BY <2>1, EmitIsTrade DEF FL!Next
  <2>2. CASE ~Emit
    <3>1. UNCHANGED matched
      BY <2>2 DEF Next, Step, MatchStep, AddRemain, AddToBook, StartPass, EndPass,
                  PickBook, Scan, LeaveBook, Deduct, TakePending, Restart, vars
    <3> QED BY <3>1
  <2> QED BY <2>1, <2>2
<1> QED BY <1>1, <1>2, Invariance, PTL DEF Spec, FL!Spec, ImplementsLedger

=============================================================================
