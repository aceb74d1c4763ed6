---------------------------- MODULE MatchEngine ----------------------------
(***************************************************************************)
(* The in-memory matching engine, src/internal/engine/matchengine.go:      *)
(* AddOrder as called by the HTTP goroutines, the match loop, and the      *)
(* hand-over of pendingTrades to the submit loop.                          *)
(*                                                                         *)
(* AddOrder takes remMu, gives it back, and only then takes e.mu and       *)
(* book.mu, so it is two actions: AddRemain and AddToBook.  A pass of the  *)
(* match loop holds e.mu for reading from beginning to end, which keeps    *)
(* AddToBook out; within it, remMu is taken and given back between reading *)
(* the remaining amounts (Scan), appending the trade under tradeMu (Emit)  *)
(* and subtracting (Deduct), so each is an action of its own.              *)
(*                                                                         *)
(* Submitted and matched are history variables: which orders AddOrder was  *)
(* ever called with, and how much of each order was ever put in a trade.   *)
(* Neither is lost when the process restarts; all the rest is.             *)
(***************************************************************************)
EXTENDS OrderData

CONSTANT NoPerp      \* cur when no book is being matched

ASSUME NoPerpAssumption == NoPerp \notin Perps

VARIABLES
    book,          \* orderBooks: perp -> side -> the slice, best price first
    remain,        \* remain: a map from (some) orders to amounts
    pendingTrades, \* the slice the submit loop takes away
    adding,        \* calls of AddOrder between their two locked sections
    mpc,           \* where the match loop is
    todo,          \* the books this pass has not come to
    cur,           \* the book matchOrderBook works on
    amount,        \* matchAmount
    submitted,     \* history: orders AddOrder was called with
    arrived,       \* history: orders in the order they entered the books
    matched        \* history: order -> the amount traded since the beginning

vars == <<book, remain, pendingTrades, adding, mpc, todo, cur, amount,
          submitted, arrived, matched>>

EmptyBook == [s \in Side |-> <<>>]

HeadBuy == Head(book[cur]["buy"])
HeadSell == Head(book[cur]["sell"])

BookedAt(p, s) == Range(book[p][s])

Booked == UNION {BookedAt(p, s) : p \in Perps, s \in Side}

BothSides(p) == book[p]["buy"] /= <<>> /\ book[p]["sell"] /= <<>>

\* Mutants: the price test is strict; it is left out.
CrossedStrictly(b, s) == Price(b) > Price(s)

CrossedAlways(b, s) == TRUE

Crossed(b, s) == Price(b) >= Price(s)

\* Mutant: the larger of the two.
SmallerSwapped(i, j) == IF i < j THEN j ELSE i

Smaller(i, j) == IF i < j THEN i ELSE j

\* What NewMatchEngine gives.
Fresh == /\ book = [p \in Perps |-> EmptyBook]
         /\ remain = [o \in {} |-> 0]
         /\ pendingTrades = <<>>
         /\ adding = {}
         /\ mpc = "idle"
         /\ todo = {}
         /\ cur = NoPerp
         /\ amount = 0
         /\ arrived = <<>>

Init == Fresh /\ submitted = {} /\ matched = [o \in Orders |-> 0]

-----------------------------------------------------------------------------
(* AddOrder.  CreateOrder calls it at most once for an order: it only does *)
(* so after its own INSERT of the order's id, which is a unique key.       *)

\* Mutant: the same order is handed over again.
AddRemainAgain(o) ==
    /\ o \notin adding
    /\ submitted' = submitted \cup {o}
    /\ adding' = adding \cup {o}
    /\ remain' = [x \in DOMAIN remain \cup {o} |-> IF x = o THEN Size(o) ELSE remain[x]]
    /\ UNCHANGED <<book, pendingTrades, mpc, todo, cur, amount, arrived, matched>>

AddRemain(o) ==
    /\ o \notin submitted
    /\ submitted' = submitted \cup {o}
    /\ adding' = adding \cup {o}
    /\ remain' = [x \in DOMAIN remain \cup {o} |-> IF x = o THEN Size(o) ELSE remain[x]]
    /\ UNCHANGED <<book, pendingTrades, mpc, todo, cur, amount, arrived, matched>>

AddToBook(o) ==
    /\ o \in adding
    /\ mpc = "idle"
    /\ adding' = adding \ {o}
    /\ arrived' = Append(arrived, o)
    /\ \E t \in SortOutcomes(Append(book[o.perp][SideOf(o)], o)) :
          book' = [book EXCEPT ![o.perp] = [@ EXCEPT ![SideOf(o)] = t]]
    /\ UNCHANGED <<remain, pendingTrades, mpc, todo, cur, amount, submitted, matched>>

-----------------------------------------------------------------------------
(* The match loop.  A book no order ever entered is not in orderBooks; to  *)
(* visit it as an empty one changes nothing.                               *)

StartPass ==
    /\ mpc = "idle"
    /\ mpc' = "pass"
    /\ todo' = Perps
    /\ UNCHANGED <<book, remain, pendingTrades, adding, cur, amount,
                   submitted, arrived, matched>>

\* Go ranges over a map in any order.
PickBook(p) ==
    /\ mpc = "pass"
    /\ p \in todo
    /\ todo' = todo \ {p}
    /\ cur' = p
    /\ mpc' = "scan"
    /\ UNCHANGED <<book, remain, pendingTrades, adding, amount,
                   submitted, arrived, matched>>

\* Mutant: the next pass begins without letting go of e.mu.
EndPassKeepsLock ==
    /\ mpc = "pass"
    /\ todo = {}
    /\ todo' = Perps
    /\ UNCHANGED <<book, remain, pendingTrades, adding, mpc, cur, amount,
                   submitted, arrived, matched>>

EndPass ==
    /\ mpc = "pass"
    /\ todo = {}
    /\ mpc' = "idle"
    /\ UNCHANGED <<book, remain, pendingTrades, adding, todo, cur, amount,
                   submitted, arrived, matched>>

HeadsMatch == /\ BothSides(cur)
              /\ Crossed(HeadBuy, HeadSell)
              /\ Smaller(remain[HeadBuy], remain[HeadSell]) > 0

\* The loop head, the price test, the read of remain and the zero test pass.
Scan ==
    /\ mpc = "scan"
    /\ HeadsMatch
    /\ amount' = Smaller(remain[HeadBuy], remain[HeadSell])
    /\ mpc' = "emit"
    /\ UNCHANGED <<book, remain, pendingTrades, adding, todo, cur,
                   submitted, arrived, matched>>

\* One of them does not: matchOrderBook returns.
LeaveBook ==
    /\ mpc = "scan"
    /\ ~HeadsMatch
    /\ cur' = NoPerp
    /\ mpc' = "pass"
    /\ UNCHANGED <<book, remain, pendingTrades, adding, todo, amount,
                   submitted, arrived, matched>>

Emit ==
    /\ mpc = "emit"
    /\ pendingTrades' = Append(pendingTrades, MatchResult(HeadBuy, HeadSell, amount))
    /\ matched' = [matched EXCEPT ![HeadBuy] = @ + amount, ![HeadSell] = @ + amount]
    /\ mpc' = "deduct"
    /\ UNCHANGED <<book, remain, adding, todo, cur, amount, submitted, arrived>>

\* Mutant: only the taker's remain is reduced.
ChargedTaker == {HeadBuy}

\* The orders whose remain is reduced.
Charged == {HeadBuy, HeadSell}

\* Mutant: a fully filled order is neither deleted nor dropped.
SpentNever == {}

Spent == {o \in Charged : remain[o] = amount}

\* Mutant: the head is dropped whether or not it has something left.
AfterFillAlways(side) == Tail(book[cur][side])

AfterFill(side) == IF Head(book[cur][side]) \in Spent THEN Tail(book[cur][side])
                                                       ELSE book[cur][side]

Deduct ==
    /\ mpc = "deduct"
    /\ remain' = [o \in DOMAIN remain \ Spent |->
                    IF o \in Charged THEN remain[o] - amount ELSE remain[o]]
    /\ book' = [book EXCEPT ![cur] = [s \in Side |-> AfterFill(s)]]
    /\ amount' = 0
    /\ mpc' = "scan"
    /\ UNCHANGED <<pendingTrades, adding, todo, cur, submitted, arrived, matched>>

-----------------------------------------------------------------------------
\* submitTrades swaps the slice out under tradeMu (at any point of a pass).
TakePending ==
    /\ pendingTrades /= <<>>
    /\ pendingTrades' = <<>>
    /\ UNCHANGED <<book, remain, adding, mpc, todo, cur, amount,
                   submitted, arrived, matched>>

\* Mutant: what was in the books is taken in again, in full.
RestartReloads ==
    /\ book' = [p \in Perps |-> EmptyBook]
    /\ remain' = [o \in {} |-> 0]
    /\ pendingTrades' = <<>>
    /\ adding' = {}
    /\ mpc' = "idle"
    /\ todo' = {}
    /\ cur' = NoPerp
    /\ amount' = 0
    /\ arrived' = <<>>
    /\ submitted' = submitted \ Booked
    /\ UNCHANGED matched

\* The process dies or is stopped and comes up with a new, empty engine.
Restart ==
    /\ book' = [p \in Perps |-> EmptyBook]
    /\ remain' = [o \in {} |-> 0]
    /\ pendingTrades' = <<>>
    /\ adding' = {}
    /\ mpc' = "idle"
    /\ todo' = {}
    /\ cur' = NoPerp
    /\ amount' = 0
    /\ arrived' = <<>>
    /\ UNCHANGED <<submitted, matched>>

-----------------------------------------------------------------------------

MatchStep == \/ StartPass \/ EndPass
             \/ \E p \in Perps : PickBook(p)
             \/ Scan \/ LeaveBook \/ Emit \/ Deduct

Step == \/ \E o \in Orders : AddRemain(o) \/ AddToBook(o)
        \/ MatchStep
        \/ TakePending

Next == Step \/ Restart

Spec == Init /\ [][Next]_vars

-----------------------------------------------------------------------------
(* Properties.                                                             *)

InDeduct(o) == mpc = "deduct" /\ o \in {HeadBuy, HeadSell}

\* The types of the engine's fields; in particular a remaining amount is
\* never negative, and the match loop has a book exactly while it needs one.
TypeOK ==
    /\ book \in [Perps -> [Side -> Seq(Orders)]]
    /\ DOMAIN remain \subseteq Orders
    /\ \A o \in DOMAIN remain : remain[o] \in Nat
    /\ pendingTrades \in Seq(Trades)
    /\ adding \subseteq submitted
    /\ submitted \subseteq Orders
    /\ mpc \in {"idle", "pass", "scan", "emit", "deduct"}
    /\ todo \subseteq Perps
    /\ IF mpc \in {"idle", "pass"} THEN cur = NoPerp ELSE cur \in Perps
    /\ amount \in Nat
    /\ arrived \in Seq(Orders)
    /\ matched \in [Orders -> Nat]

\* The map remain holds the orders being added and those in a book, no
\* others: matchOrderBook dereferences the entry of a head without looking
\* whether there is one, and an entry left behind is never deleted.
RemainIsOpen == DOMAIN remain = adding \cup Booked

\* An order stands in one place of one book, that of its perp and side, and
\* not there before AddOrder is done with it: popping it once removes it.
EachOrderOnce ==
    /\ adding \cap Booked = {}
    /\ \A p \in Perps : \A s \in Side :
          /\ \A o \in BookedAt(p, s) : o.perp = p /\ SideOf(o) = s
          /\ IsInjective(book[p][s])

\* remain is what is left of the signed size after every trade ever emitted,
\* except between appending a trade and subtracting it (lines 222 to 245).
RemainAccounts ==
    \A o \in DOMAIN remain :
        remain[o] + matched[o] = Size(o) + (IF InDeduct(o) THEN amount ELSE 0)

\* The trades of an order, over all passes and restarts, never add up to
\* more than the size that was signed.
NoOverfill == \A o \in Orders : matched[o] <= Size(o)

\* A trade handed to the submit loop is between a buy and a sell of one
\* perpetual, of a positive amount, and keeps to what was signed, which is a
\* fraction and not a rounded price: the buyer never pays more, and the seller
\* gets less than one unit of the price under what was asked, because a sell's
\* price is rounded down too.
TradesWithinLimits ==
    \A i \in DOMAIN pendingTrades :
        LET t == pendingTrades[i]
            Signed(o) == AbsVal(o.credit) * Precision
        IN
        /\ SideOf(t.taker) = "buy"
        /\ SideOf(t.maker) = "sell"
        /\ t.taker.perp = t.maker.perp
        /\ t.amount > 0
        /\ t.price * Size(t.taker) <= Signed(t.taker)
        /\ Signed(t.maker) < (t.price + 1) * Size(t.maker)

NewTrade == pendingTrades'[Len(pendingTrades')]

\* No order that is in the book when a trade is made has a better price than
\* the one traded on its side (README.md:149, price priority).
PricePriority ==
    [][Emit => /\ \A o \in BookedAt(cur, "buy") : ~Ahead(o, NewTrade.taker)
               /\ \A o \in BookedAt(cur, "sell") : ~Ahead(o, NewTrade.maker)]_vars

ArrivedBefore(a, b) ==
    \E i, j \in DOMAIN arrived : i < j /\ arrived[i] = a /\ arrived[j] = b

\* ... and none with the same price came earlier (README.md:149, time
\* priority), also after partial fills and later insertions.
TimePriority ==
    [][Emit => \A o \in BookedAt(cur, "buy") \cup BookedAt(cur, "sell") :
                 \A h \in {NewTrade.taker, NewTrade.maker} :
                    SideOf(o) = SideOf(h) /\ Price(o) = Price(h)
                      => ~ArrivedBefore(o, h)]_vars

\* Heads that cross have something left, unless the sell was signed with
\* nothing in it: line 206 logs a head without a rest as an anomaly, and what
\* leads there is never an order that was used up and left in its place.
HeadsHaveRemain ==
    mpc = "scan" /\ BothSides(cur) /\ Price(HeadBuy) >= Price(HeadSell)
        => remain[HeadBuy] > 0 /\ (remain[HeadSell] > 0 \/ Size(HeadSell) = 0)

\* An order of size 0, which nothing refuses and which counts as a sell of
\* price 0, heads the sells of a book: no pass gets beyond it.
Blocked(p) == book[p]["sell"] /= <<>> /\ Size(Head(book[p]["sell"])) = 0

\* When a pass has left a book, no buy and sell in it cross, unless the book is
\* blocked; nothing can enter it before the pass is over.
PassUncrosses ==
    mpc = "pass" =>
        \A p \in Perps \ todo :
            \/ Blocked(p)
            \/ \A b \in BookedAt(p, "buy"), s \in BookedAt(p, "sell") : Price(b) < Price(s)

-----------------------------------------------------------------------------
(* The inductive invariant: what the properties above need to be preserved *)
(* by each step.                                                           *)

\* Nothing is kept or was traded of an order that never came in.
SubmittedOnly ==
    /\ DOMAIN remain \subseteq submitted
    /\ \A o \in Orders \ submitted : matched[o] = 0

\* What Scan found out still holds when Emit and Deduct use it.
LoopState ==
    mpc \in {"emit", "deduct"} =>
        /\ BothSides(cur)
        /\ Price(HeadBuy) >= Price(HeadSell)
        /\ amount > 0
        /\ amount = Smaller(remain[HeadBuy], remain[HeadSell])

BooksSorted == \A p \in Perps : \A s \in Side : PriceSorted(book[p][s])

\* The parts that speak of the books and of the amounts.
BookInv == EachOrderOnce /\ RemainIsOpen /\ BooksSorted

AmountInv == SubmittedOnly /\ LoopState /\ RemainAccounts /\ NoOverfill

IInv == TypeOK /\ BookInv /\ AmountInv /\ TradesWithinLimits

-----------------------------------------------------------------------------
\* Everything the engine emits is a trade of the abstract ledger.
FL == INSTANCE FillLedger WITH traded <- matched

ImplementsLedger == FL!Spec

=============================================================================
