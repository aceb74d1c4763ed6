-------------------------- MODULE ChainViewsProofs --------------------------
(***************************************************************************)
(* Proofs about ChainViews, for any contracts and whatever they hold, how- *)
(* ever often blocks come and calls fail.  GetPositions never divides by   *)
(* a position of size 0; and an answer only has what was so at some time   *)
(* since its request.  The second follows the loops: what a handler has    *)
(* gathered is true of the first entries of its list, what is left to do   *)
(* is the rest of the list, and what was true stays so as blocks come.     *)
(***************************************************************************)
EXTENDS ChainViews, SequenceTheorems, FiniteSetTheorems, WellFoundedInduction, TLAPS

-----------------------------------------------------------------------------
(* GetPositions never divides by a position of size 0.                     *)

\* What BalanceOf has seen of the position is what the division uses, however
\* often the chain changes and whichever calls fail in between.
Divisible == /\ pc /= "panic"
             /\ pc \in {"mark", "liq"} => entry.paper /= 0

\* The handlers other than GetPositions, and the requests, are never at the
\* calls between the balance and the division.
LEMMA OthersKeep ==
    ASSUME Divisible,
           \/ AskPositions \/ AskRisk \/ AskMarkets \/ AskTickers
           \/ GetPositions \/ Fails \/ SkipPosition
           \/ GetTraderRisk \/ GetIsSafe
           \/ QuoteMark \/ QuoteRate \/ ChainTicker
           \/ Gathered \/ Write \/ Reply
    PROVE  Divisible'
<1>1. CASE AskPositions \/ AskRisk \/ AskMarkets \/ AskTickers
  BY <1>1 DEF Divisible, AskPositions, AskRisk, AskMarkets, AskTickers, Ask, Goto
<1>2. CASE GetPositions \/ Fails \/ SkipPosition
  BY <1>2 DEF Divisible, GetPositions, Fails, SkipPosition, Goto
<1>3. CASE GetTraderRisk \/ GetIsSafe
  BY <1>3 DEF Divisible, GetTraderRisk, GetIsSafe, Goto
<1>4. CASE QuoteMark \/ QuoteRate \/ ChainTicker
  BY <1>4 DEF Divisible, QuoteMark, QuoteRate, ChainTicker, Goto
<1>5. CASE Gathered \/ Write \/ Reply
  BY <1>5 DEF Divisible, Gathered, Write, Reply, Goto
<1> QED BY <1>1, <1>2, <1>3, <1>4, <1>5

\* A position closed between the call that lists it and the call that reads it
\* never leads into the division by its size (getpositionslogic.go:41, 49).
THEOREM NeverDividesByZero == Spec => []NoDivisionByZero
<1>1. Init => Divisible BY DEF Init, Divisible
<1>2. Divisible /\ [Next]_vars => Divisible'
  <2> SUFFICES ASSUME Divisible, [Next]_vars PROVE Divisible'
    OBVIOUS
  <2>1. CASE BalanceOf
    BY <2>1 DEF Divisible, BalanceOf, Shown, Goto
  <2>2. CASE GetMarkPrice
    BY <2>2 DEF Divisible, GetMarkPrice, Goto
  <2>3. CASE GetLiquidationPrice
    BY <2>3 DEF Divisible, GetLiquidationPrice, Goto
  <2>4. CASE Leave \/ Block
    BY <2>4 DEF Divisible, Leave, Block
  <2>5. CASE UNCHANGED vars
    BY <2>5 DEF Divisible, vars
  <2> QED BY <2>1, <2>2, <2>3, <2>4, <2>5, OthersKeep DEF Next, HandlerStep
<1>3. Divisible => NoDivisionByZero BY DEF Divisible, NoDivisionByZero
<1> QED BY <1>1, <1>2, <1>3, PTL DEF Spec

-----------------------------------------------------------------------------
(* Going through a list.                                                   *)

Values(E) == UNION {E[p] : p \in Perps}

\* A loop over L has done n entries: a are such as E allows for the contracts it
\* came by, t is what it has not come to.
Through(L, E, n, a, t) ==
    /\ L \in Seq(Perps) /\ n \in 0..Len(L)
    /\ a \in Seq(Values(E)) /\ Len(a) = n
    /\ \A i \in 1..n : a[i] \in E[L[i]]
    /\ t \in Seq(Perps) /\ Len(t) = Len(L) - n
    /\ \A i \in 1..Len(t) : t[i] = L[n + i]

LEMMA ThroughNone ==
    ASSUME NEW L \in Seq(Perps), NEW E
    PROVE  Through(L, E, 0, <<>>, L)
<1>1. <<>> \in Seq(Values(E)) /\ Len(<<>>) = 0 BY EmptySeq
<1>2. Len(L) \in Nat BY LenProperties
<1>3. \A i \in 1..Len(L) : 0 + i = i BY <1>2
<1> QED BY <1>1, <1>2, <1>3 DEF Through

LEMMA ThroughHead ==
    ASSUME NEW L, NEW E, NEW n, NEW a, NEW t, Through(L, E, n, a, t), t /= <<>>
    PROVE  /\ n + 1 \in 1..Len(L) /\ Head(t) = L[n + 1] /\ Head(t) \in Perps
<1>1. /\ L \in Seq(Perps) /\ n \in 0..Len(L)
      /\ t \in Seq(Perps) /\ Len(t) = Len(L) - n
      /\ \A i \in 1..Len(t) : t[i] = L[n + i]
  BY DEF Through
<1>2. Len(L) \in Nat /\ Len(t) \in Nat \ {0} BY <1>1, LenProperties, EmptySeq
<1>3. 1 \in 1..Len(t) BY <1>2
<1>4. Head(t) = t[1] OBVIOUS
<1>5. Head(t) \in Perps BY <1>1, HeadTailProperties
<1> QED BY <1>1, <1>2, <1>3, <1>4, <1>5

LEMMA ThroughNext ==
    ASSUME NEW L, NEW E, NEW n, NEW a, NEW t, NEW e, Through(L, E, n, a, t), t /= <<>>,
           e \in E[Head(t)]
    PROVE  Through(L, E, n + 1, Append(a, e), Tail(t))
<1>1. /\ L \in Seq(Perps) /\ n \in 0..Len(L)
      /\ a \in Seq(Values(E)) /\ Len(a) = n
      /\ \A i \in 1..n : a[i] \in E[L[i]]
      /\ t \in Seq(Perps) /\ Len(t) = Len(L) - n
      /\ \A i \in 1..Len(t) : t[i] = L[n + i]
  BY DEF Through
<1>2. n + 1 \in 1..Len(L) /\ Head(t) = L[n + 1] /\ Head(t) \in Perps BY ThroughHead
<1>3. e \in Values(E) BY <1>2 DEF Values
<1> PICK b : b = Append(a, e) OBVIOUS
<1>4. /\ b \in Seq(Values(E)) /\ Len(b) = n + 1 /\ b[n + 1] = e
      /\ \A i \in 1..n : b[i] = a[i]
  BY <1>1, <1>3, AppendProperties
<1>5. Len(L) \in Nat BY <1>1, LenProperties
<1>6. \A i \in 1..(n + 1) : b[i] \in E[L[i]]
  <2> TAKE i \in 1..(n + 1)
  <2>1. CASE i = n + 1 BY <2>1, <1>2, <1>4
  <2>2. CASE i /= n + 1
    <3>1. i \in 1..n BY <2>2, <1>1, <1>5
    <3> QED BY <3>1, <1>1, <1>4
  <2> QED BY <2>1, <2>2
<1> PICK u : u = Tail(t) OBVIOUS
<1>7. /\ u \in Seq(Perps) /\ Len(u) = Len(L) - (n + 1)
      /\ \A i \in 1..Len(u) : u[i] = t[i + 1]
  BY <1>1, <1>5, HeadTailProperties
<1>8. \A i \in 1..Len(u) : u[i] = L[(n + 1) + i]
  <2> TAKE i \in 1..Len(u)
  <2>1. n \in Nat /\ i \in Nat BY <1>1, <1>5
  <2>2. i + 1 \in 1..Len(t) BY <2>1, <1>1, <1>5, <1>7
  <2>3. n + (i + 1) = (n + 1) + i BY <2>1
  <2>4. u[i] = t[i + 1] BY <1>7
  <2> QED BY <2>2, <2>3, <2>4, <1>1
<1>9. n + 1 \in 0..Len(L) BY <1>2
<1>10. Through(L, E, n + 1, b, u) BY <1>1, <1>4, <1>6, <1>7, <1>8, <1>9 DEF Through
<1> QED BY <1>10

\* What is allowed later is more.
LEMMA ThroughMore ==
    ASSUME NEW L, NEW E, NEW F, NEW n, NEW a, NEW t, Through(L, E, n, a, t),
           \A p \in Perps : E[p] \subseteq F[p]
    PROVE  Through(L, F, n, a, t)
<1>1. /\ L \in Seq(Perps) /\ n \in 0..Len(L) /\ a \in Seq(Values(E))
      /\ \A i \in 1..n : a[i] \in E[L[i]]
  BY DEF Through
<1>2. Values(E) \subseteq Values(F) BY DEF Values
<1>3. a \in Seq(Values(F)) BY <1>1, <1>2, SeqMonotonic
<1>4. \A i \in 1..n : L[i] \in Perps BY <1>1, LenProperties, ElementOfSeq
<1>5. \A i \in 1..n : a[i] \in F[L[i]] BY <1>1, <1>4
<1> QED BY <1>3, <1>5 DEF Through

LEMMA ThroughAll ==
    ASSUME NEW L, NEW E, NEW n, NEW a, Through(L, E, n, a, <<>>)
    PROVE  /\ DOMAIN a = 1..Len(L) /\ Len(a) = Len(L)
           /\ \A i \in 1..Len(L) : a[i] \in E[L[i]]
<1>1. /\ L \in Seq(Perps) /\ n \in 0..Len(L)
      /\ a \in Seq(Values(E)) /\ Len(a) = n
      /\ \A i \in 1..n : a[i] \in E[L[i]]
      /\ Len(<<>>) = Len(L) - n
  BY DEF Through
<1>2. Len(L) \in Nat /\ Len(<<>>) = 0 BY <1>1, LenProperties, EmptySeq
<1>3. n = Len(L) BY <1>1, <1>2
<1>4. DOMAIN a = 1..Len(a) BY <1>1, LenProperties
<1> QED BY <1>1, <1>3, <1>4

LEMMA Least ==
    ASSUME NEW T \in SUBSET Nat, T /= {}
    PROVE  \E x \in T : \A y \in T : x <= y
<1> DEFINE R == OpToRel(<, Nat)
<1>1. IsWellFoundedOn(R, Nat) BY NatLessThanWellFounded
<1>2. \A x, y \in Nat : y < x => <<y, x>> \in R BY DEF OpToRel
<1> HIDE DEF R
<1>3. PICK x \in T : \A y \in T : ~(<<y, x>> \in R) BY <1>1, WFMin
<1>4. ASSUME NEW y \in T PROVE x <= y
  <2>1. x \in Nat /\ y \in Nat OBVIOUS
  <2>2. ~(y < x) BY <1>2, <1>3, <2>1
  <2> QED BY <2>1, <2>2
<1> QED BY <1>4

\* A sequence of all elements of a finite set has them all, each once.
LEMMA AllOfThem ==
    ASSUME NEW S, IsFiniteSet(S), NEW L \in SetToSeqs(S)
    PROVE  /\ L \in Seq(S) /\ {L[i] : i \in 1..Len(L)} = S
           /\ \A i, j \in 1..Len(L) : i /= j => L[i] /= L[j]
<1> DEFINE n == Cardinality(S)
<1>1. n \in Nat BY FS_CardinalityType
<1>2. L \in [1..n -> S] /\ \A i, j \in 1..n : i /= j => L[i] /= L[j]
  BY DEF SetToSeqs
<1>3. L \in Seq(S) /\ Len(L) = n
  <2>1. L \in Seq(S) BY <1>1, <1>2, SeqDef
  <2>2. DOMAIN L = 1..n BY <1>2
  <2>3. DOMAIN L = 1..Len(L) /\ Len(L) \in Nat BY <2>1, LenProperties
  <2> QED BY <2>1, <2>2, <2>3, <1>1
<1>4. L \in Injection(1..n, S) BY <1>2 DEF Injection, IsInjective
<1>5. IsFiniteSet(1..n) /\ Cardinality(1..n) = n BY <1>1, FS_Interval
<1>6. L \in Surjection(1..n, S) BY <1>4, <1>5, FS_Injection
<1>7. \A x \in S : \E i \in 1..n : L[i] = x BY <1>6 DEF Surjection
<1> QED BY <1>1, <1>2, <1>3, <1>7

-----------------------------------------------------------------------------
(* What may be shown of a contract.                                        *)

Quotes == [p \in Perps |-> QuotesOf(p)]

Tickers == [p \in Perps |-> TickersOf(p)]

\* Blocks come and calls fail; nothing that was so is forgotten.
Grows == past \subseteq past' /\ (failed => failed')

LEMMA More ==
    ASSUME Grows
    PROVE  /\ \A v : Missing(v) \subseteq Missing(v)'
           /\ \A p : /\ MarksOf(p) \subseteq MarksOf(p)'
                     /\ RatesOf(p) \subseteq RatesOf(p)'
                     /\ LiquidationsOf(p) \subseteq LiquidationsOf(p)'
                     /\ PositionsOf(p) \subseteq PositionsOf(p)'
           /\ \A p \in Perps : Quotes[p] \subseteq Quotes'[p] /\ Tickers[p] \subseteq Tickers'[p]
           /\ OpenThroughout' \subseteq OpenThroughout
           /\ {RiskInfo(TraderRisk[c]) : c \in past} \subseteq {RiskInfo(TraderRisk[c]) : c \in past'}
<1>1. \A v : Missing(v) \subseteq Missing(v)' BY DEF Grows, Missing
<1>2. \A p : /\ MarksOf(p) \subseteq MarksOf(p)'
             /\ RatesOf(p) \subseteq RatesOf(p)'
             /\ LiquidationsOf(p) \subseteq LiquidationsOf(p)'
  BY DEF Grows, MarksOf, RatesOf, LiquidationsOf, LiquidationPrice
<1>3. \A p : PositionsOf(p) \subseteq PositionsOf(p)'
  <2> TAKE p
  <2> SUFFICES ASSUME NEW e \in PositionsOf(p) PROVE e \in PositionsOf(p)'
    OBVIOUS
  <2>1. PICK c \in {d \in past : d[p].paper /= 0},
             mark \in MarksOf(p) \cup Missing(Nil),
             liq \in LiquidationsOf(p) \cup Missing(Nil) :
           e = [perp |-> p, paper |-> c[p].paper, credit |-> c[p].credit, mark |-> mark,
                liq |-> liq, price |-> EntryPrice(c[p].paper, c[p].credit)]
    BY DEF PositionsOf
  <2>2. /\ c \in {d \in past' : d[p].paper /= 0}
        /\ mark \in (MarksOf(p) \cup Missing(Nil))'
        /\ liq \in (LiquidationsOf(p) \cup Missing(Nil))'
    BY <1>1, <1>2 DEF Grows
  <2> QED BY <2>1, <2>2 DEF PositionsOf
<1>4. \A p \in Perps : Quotes[p] \subseteq Quotes'[p]
  <2> SUFFICES ASSUME NEW p \in Perps, NEW e \in QuotesOf(p) PROVE e \in QuotesOf(p)'
    BY DEF Quotes
  <2>1. PICK mark \in MarksOf(p) \cup Missing(Nil), rate \in RatesOf(p) \cup Missing(Nil) :
           e = [perp |-> p, mark |-> mark, rate |-> rate]
    BY DEF QuotesOf
  <2>2. /\ mark \in (MarksOf(p) \cup Missing(Nil))'
        /\ rate \in (RatesOf(p) \cup Missing(Nil))'
    BY <1>1, <1>2
  <2> QED BY <2>1, <2>2 DEF QuotesOf
<1>5. \A p \in Perps : Tickers[p] \subseteq Tickers'[p]
  <2> SUFFICES ASSUME NEW p \in Perps, NEW e \in TickersOf(p) PROVE e \in TickersOf(p)'
    BY DEF Tickers
  <2>1. PICK mark \in MarksOf(p) \cup Missing(0) : e = [perp |-> p, mark |-> mark]
    BY DEF TickersOf
  <2>2. mark \in (MarksOf(p) \cup Missing(0))' BY <1>1, <1>2
  <2> QED BY <2>1, <2>2 DEF TickersOf
<1>6. OpenThroughout' \subseteq OpenThroughout BY DEF Grows, OpenThroughout
<1>7. {RiskInfo(TraderRisk[c]) : c \in past} \subseteq {RiskInfo(TraderRisk[c]) : c \in past'}
  BY DEF Grows
<1> QED BY <1>1, <1>2, <1>3, <1>4, <1>5, <1>6, <1>7

LEMMA MarketsArePerps ==
    /\ Markets \in Seq(Perps) /\ Markets \in Seq(ToSet(Markets))
    /\ Len(Markets) \in Nat /\ DOMAIN Markets = 1..Len(Markets)
    /\ ToSet(Markets) \subseteq Perps
    /\ \A p : p \in ToSet(Markets) <=> \E i \in 1..Len(Markets) : Markets[i] = p
<1>1. /\ Markets \in Seq(Perps) /\ Len(Markets) \in Nat /\ DOMAIN Markets = 1..Len(Markets)
      /\ Markets \in [1..Len(Markets) -> Perps]
  BY MarketsAssumption, LenProperties
<1>2. \A p : p \in ToSet(Markets) <=> \E i \in 1..Len(Markets) : Markets[i] = p
  BY <1>1 DEF ToSet
<1>3. ToSet(Markets) \subseteq Perps BY <1>1, <1>2
<1>4. Markets \in [1..Len(Markets) -> ToSet(Markets)] BY <1>1, <1>2
<1>5. Markets \in Seq(ToSet(Markets)) BY <1>1, <1>4, SeqDef
<1> QED BY <1>1, <1>2, <1>3, <1>5

\* The ticker GetTicker picks out is the one of the market it was asked for,
\* also if that market is in the configuration twice.
LEMMA PickedAreAsked ==
    ASSUME asked \in Seq(ToSet(Markets)), DOMAIN answer = 1..Len(Markets),
           \A k \in 1..Len(Markets) : answer[k] \in Tickers[Markets[k]]
    PROVE  /\ Len(Picked) = Len(asked)
           /\ \A i \in DOMAIN asked : Picked[i] \in TickersOf(asked[i])
<1>1. ASSUME NEW i \in DOMAIN asked
      PROVE  answer[CHOOSE k \in DOMAIN answer :
                      /\ answer[k].perp = asked[i]
                      /\ \A n \in 1..(k - 1) : answer[n].perp /= asked[i]]
                \in TickersOf(asked[i])
  <2> DEFINE First(k) == /\ answer[k].perp = asked[i]
                         /\ \A n \in 1..(k - 1) : answer[n].perp /= asked[i]
             T == {k \in 1..Len(Markets) : Markets[k] = asked[i]}
  <2>1. asked[i] \in ToSet(Markets) BY LenProperties, ElementOfSeq
  <2>2. /\ Len(Markets) \in Nat
        /\ \A k \in 1..Len(Markets) : /\ answer[k].perp = Markets[k]
                                      /\ answer[k] \in TickersOf(Markets[k])
    <3>1. \A k \in 1..Len(Markets) : Markets[k] \in Perps
      BY MarketsArePerps, ElementOfSeq
    <3>2. \A p \in Perps : \A e \in TickersOf(p) : e.perp = p BY DEF TickersOf
    <3>3. \A p \in Perps : Tickers[p] = TickersOf(p) BY DEF Tickers
    <3> QED BY <3>1, <3>2, <3>3, MarketsArePerps
  <2>3. T \in SUBSET Nat /\ T /= {}
    <3>1. T \subseteq 1..Len(Markets) OBVIOUS
    <3>2. PICK k \in 1..Len(Markets) : Markets[k] = asked[i] BY <2>1, MarketsArePerps
    <3>3. k \in T BY <3>2
    <3> HIDE DEF T
    <3> QED BY <3>1, <3>3, <2>2
  <2>4. PICK x \in T : \A y \in T : x <= y
    <3> HIDE DEF T
    <3> QED BY <2>3, Least
  <2>5. x \in DOMAIN answer /\ First(x)
    <3>1. x \in 1..Len(Markets) /\ Markets[x] = asked[i] OBVIOUS
    <3>2. ASSUME NEW n \in 1..(x - 1) PROVE answer[n].perp /= asked[i]
      <4>1. n \in 1..Len(Markets) /\ ~(x <= n) BY <2>2, <3>1
      <4>2. n \notin T
        <5> HIDE DEF T
        <5> QED BY <2>4, <4>1
      <4>3. Markets[n] /= asked[i] BY <4>1, <4>2
      <4> QED BY <4>1, <4>3, <2>2
    <3> QED BY <2>2, <3>1, <3>2
  <2>6. PICK c : c = CHOOSE k \in DOMAIN answer : First(k) OBVIOUS
  <2>7. c \in DOMAIN answer /\ First(c)
    <3> HIDE DEF First
    <3> QED BY <2>5, <2>6
  <2>8. answer[c] \in TickersOf(asked[i]) BY <2>2, <2>7
  <2> QED BY <2>6, <2>8
<1>2. \A i \in DOMAIN asked : Picked[i] \in TickersOf(asked[i]) BY <1>1 DEF Picked
<1>3. Len(Picked) = Len(asked)
  <2>1. DOMAIN asked = 1..Len(asked) /\ Len(asked) \in Nat BY LenProperties
  <2>2. DOMAIN Picked = 1..Len(asked) BY <2>1 DEF Picked
  <2> QED BY <2>1, <2>2
<1> QED BY <1>2, <1>3

-----------------------------------------------------------------------------
(* An answer has what was so since its request.                            *)

\* Which handler is where, what it was asked for, and that the chain of now is
\* one of those since the request.
Placed ==
    /\ chain \in [Perps -> Accounts]
    /\ failed \in BOOLEAN
    /\ pc /= "idle" => chain \in past
    /\ asked \in Seq(ToSet(Markets))
    /\ pc = "idle" => answer = <<>>
    /\ pc \in {"list", "balance", "mark", "liq"} => view = "positions"
    /\ pc \in {"risk", "safe"} => view = "risk"
    /\ pc \in {"quote", "rate"} => view = "markets"
    /\ pc = "ticker" => view \in {"tickers", "socket"}
    /\ pc = "write" => view = "socket"
    /\ pc = "answered" => view \in {"positions", "risk", "markets", "tickers"}
    /\ pc /= "idle" /\ view = "socket" => asked = Markets

\* The entry a loop is at is of the contract that is next, as it was.
AtEntry ==
    /\ pc \in {"mark", "liq", "rate"} => todo /= <<>> /\ entry.perp = Head(todo)
    /\ pc \in {"mark", "liq"} =>
          /\ entry.paper /= 0
          /\ \E c \in past : /\ c[entry.perp].paper = entry.paper
                             /\ c[entry.perp].credit = entry.credit
    /\ pc \in {"liq", "rate"} => entry.mark \in MarksOf(entry.perp) \cup Missing(Nil)

\* The positions gathered are true, all different, and with those to come they
\* are all that were open throughout, unless a call has failed.
InPositions ==
    /\ todo \in Seq(Perps)
    /\ \A i, k \in 1..Len(todo) : todo[i] = todo[k] => i = k
    /\ answer \in Seq(Values([p \in Perps |-> PositionsOf(p)]))
    /\ \A i, k \in 1..Len(answer) : answer[i].perp = answer[k].perp => i = k
    /\ \A i \in 1..Len(answer), k \in 1..Len(todo) : answer[i].perp /= todo[k]
    /\ failed \/ \A p \in OpenThroughout :
                    \/ \E i \in 1..Len(answer) : answer[i].perp = p
                    \/ \E k \in 1..Len(todo) : todo[k] = p

InQuotes == \E n : Through(asked, Quotes, n, answer, todo)

InTickers == \E n : Through(Markets, Tickers, n, answer, todo)

\* What GetTraderRisk leaves for GetIsSafe.
AtRisk == \E r : answer = <<r>> /\ r \in {RiskInfo(TraderRisk[c]) : c \in past}

Gathering ==
    /\ AtEntry
    /\ pc \in {"list", "risk"} => answer = <<>>
    /\ pc \in {"balance", "mark", "liq"} => InPositions
    /\ pc = "safe" => AtRisk
    /\ pc \in {"quote", "rate"} => InQuotes
    /\ pc = "ticker" => InTickers

AnswerInv == Placed /\ Gathering /\ AnswersWereTrue

LEMMA PlacedStep ==
    ASSUME Placed, [Next]_vars
    PROVE  Placed'
<1>1. CASE UNCHANGED vars BY <1>1 DEF Placed, vars
<1>2. CASE Block
  <2>1. PICK p \in Perps, a \in Accounts : chain' = [chain EXCEPT ![p] = a]
    BY <1>2 DEF Block
  <2> QED BY <2>1, <1>2 DEF Placed, Block
<1>3. CASE AskPositions \/ AskRisk \/ AskMarkets \/ AskTickers
  <2>1. <<>> \in Seq(ToSet(Markets)) BY EmptySeq
  <2>2. Markets \in Seq(ToSet(Markets)) BY MarketsArePerps
  <2>3. \A p \in ToSet(Markets) : <<p>> \in Seq(ToSet(Markets)) OBVIOUS
  <2>4. /\ pc = "idle" /\ answer' = answer /\ Anew /\ chain' = chain
        /\ asked' \in Seq(ToSet(Markets))
        /\ \/ view' = "positions" /\ pc' = "list"
           \/ view' = "risk" /\ pc' = "risk"
           \/ view' = "markets" /\ pc' \in {"quote", "failed"}
           \/ view' = "tickers" /\ pc' = "ticker"
           \/ view' = "socket" /\ pc' = "ticker" /\ asked' = Markets
    BY <1>3, <2>1, <2>2, <2>3 DEF AskPositions, AskRisk, AskMarkets, AskTickers, Ask, Goto
  <2> QED BY <2>4 DEF Placed, Anew
<1>4. CASE GetPositions \/ Fails \/ BalanceOf \/ SkipPosition \/ GetMarkPrice
           \/ GetLiquidationPrice
  BY <1>4 DEF Placed, GetPositions, Fails, BalanceOf, SkipPosition, GetMarkPrice,
              GetLiquidationPrice, Noted, Goto
<1>5. CASE GetTraderRisk \/ GetIsSafe
  BY <1>5 DEF Placed, GetTraderRisk, GetIsSafe, Noted, Goto
<1>6. CASE QuoteMark \/ QuoteRate \/ ChainTicker
  BY <1>6 DEF Placed, QuoteMark, QuoteRate, ChainTicker, Noted, Goto
<1>7. CASE Gathered
  BY <1>7 DEF Placed, Gathered, Goto
<1>8. CASE Write \/ Leave
  BY <1>8 DEF Placed, Write, Leave, Anew, Goto
<1>9. CASE Reply
  <2>1. <<>> \in Seq(ToSet(Markets)) BY EmptySeq
  <2> QED BY <1>9, <2>1 DEF Placed, Reply, Goto
<1> QED BY <1>1, <1>2, <1>3, <1>4, <1>5, <1>6, <1>7, <1>8, <1>9 DEF Next, HandlerStep

\* What a call may have answered, since the chain of now is one of those.
LEMMA NowIsPast ==
    ASSUME Placed, pc /= "idle"
    PROVE  \A p : /\ chain[p].mark \in MarksOf(p) /\ chain[p].rate \in RatesOf(p)
                  /\ LiquidationPrice(chain, p) \in LiquidationsOf(p)
                  /\ p \in OpenThroughout => chain[p].paper /= 0
BY DEF Placed, MarksOf, RatesOf, LiquidationsOf, OpenThroughout

LEMMA AskGathers ==
    ASSUME Placed, AskPositions \/ AskRisk \/ AskMarkets \/ AskTickers
    PROVE  Gathering'
<1>1. /\ pc = "idle" /\ answer' = answer
      /\ \/ pc' \in {"list", "risk", "failed"}
         \/ pc' = "quote" /\ asked' \in Seq(Perps) /\ todo' = asked'
         \/ pc' = "ticker" /\ todo' = Markets
  <2>1. \A p \in ToSet(Markets) : <<p>> \in Seq(Perps) BY MarketsArePerps
  <2>2. Markets \in Seq(Perps) BY MarketsArePerps
  <2> QED BY <2>1, <2>2 DEF AskPositions, AskRisk, AskMarkets, AskTickers, Ask, Goto
<1>2. answer' = <<>> BY <1>1 DEF Placed
<1>3. AtEntry' BY <1>1 DEF AtEntry
<1>4. CASE pc' \in {"list", "risk", "failed"}
  BY <1>2, <1>3, <1>4 DEF Gathering
<1>5. CASE pc' = "quote" /\ asked' \in Seq(Perps) /\ todo' = asked'
  <2>1. Through(asked', Quotes', 0, <<>>, asked') BY <1>5, ThroughNone
  <2>2. InQuotes' BY <1>2, <1>5, <2>1 DEF InQuotes
  <2> QED BY <1>2, <1>3, <1>5, <2>2 DEF Gathering
<1>6. CASE pc' = "ticker" /\ todo' = Markets
  <2>1. Through(Markets, Tickers', 0, <<>>, Markets) BY MarketsArePerps, ThroughNone
  <2>2. InTickers' BY <1>2, <1>6, <2>1 DEF InTickers
  <2> QED BY <1>2, <1>3, <1>6, <2>2 DEF Gathering
<1> QED BY <1>1, <1>4, <1>5, <1>6

\* The list of positions has all that are open, each once.
LEMMA ListGathers ==
    ASSUME Placed, Gathering, GetPositions
    PROVE  Gathering'
<1>1. /\ pc = "list" /\ pc' = "balance" /\ answer' = answer
      /\ todo' \in SetToSeqs(Open) /\ UNCHANGED <<chain, past, failed>>
  BY DEF GetPositions, Goto
<1>2. answer' = <<>> BY <1>1 DEF Gathering
<1>3. AtEntry' BY <1>1 DEF AtEntry
<1>4. IsFiniteSet(Open) /\ Open \subseteq Perps BY PerpsAssumption, FS_Subset DEF Open
<1>5. /\ todo' \in Seq(Perps)
      /\ \A i, k \in 1..Len(todo') : todo'[i] = todo'[k] => i = k
      /\ \A p \in Open : \E k \in 1..Len(todo') : todo'[k] = p
  <2>1. /\ todo' \in Seq(Open) /\ {todo'[i] : i \in 1..Len(todo')} = Open
        /\ \A i, k \in 1..Len(todo') : i /= k => todo'[i] /= todo'[k]
    BY <1>1, <1>4, AllOfThem
  <2>2. todo' \in Seq(Perps) BY <1>4, <2>1, SeqMonotonic
  <2> QED BY <2>1, <2>2
<1>6. \A p \in OpenThroughout' : \E k \in 1..Len(todo') : todo'[k] = p
  <2>1. OpenThroughout' = OpenThroughout BY <1>1 DEF OpenThroughout
  <2>2. \A p \in OpenThroughout : p \in Open
    BY <1>1, NowIsPast DEF Open, OpenThroughout
  <2> QED BY <2>1, <2>2, <1>5
<1>7. InPositions'
  <2>1. answer' \in Seq(Values([p \in Perps |-> PositionsOf(p)])') /\ Len(answer') = 0
    BY <1>2, EmptySeq
  <2> QED BY <1>5, <1>6, <2>1 DEF InPositions
<1> QED BY <1>1, <1>3, <1>7 DEF Gathering

\* What is gathered stays true.
LEMMA LoopsKeep ==
    ASSUME Grows, UNCHANGED <<answer, todo, asked>>
    PROVE  /\ InPositions => InPositions'
           /\ InQuotes => InQuotes'
           /\ InTickers => InTickers'
           /\ AtRisk => AtRisk'
<1>1. InPositions => InPositions'
  <2> SUFFICES ASSUME InPositions PROVE InPositions' OBVIOUS
  <2>1. Values([p \in Perps |-> PositionsOf(p)]) \subseteq Values([p \in Perps |-> PositionsOf(p)])'
    BY More DEF Values
  <2>2. answer \in Seq(Values([p \in Perps |-> PositionsOf(p)]))' BY <2>1, SeqMonotonic DEF InPositions
  <2> QED BY <2>2, More DEF InPositions, Grows
<1>2. InQuotes => InQuotes'
  <2> SUFFICES ASSUME NEW n, Through(asked, Quotes, n, answer, todo)
               PROVE  Through(asked, Quotes', n, answer, todo)
    BY DEF InQuotes
  <2> QED BY More, ThroughMore
<1>3. InTickers => InTickers'
  <2> SUFFICES ASSUME NEW n, Through(Markets, Tickers, n, answer, todo)
               PROVE  Through(Markets, Tickers', n, answer, todo)
    BY DEF InTickers
  <2> QED BY More, ThroughMore
<1>4. AtRisk => AtRisk' BY More DEF AtRisk
<1> QED BY <1>1, <1>2, <1>3, <1>4

LEMMA EntryKeeps ==
    ASSUME Grows, UNCHANGED <<pc, todo, entry>>, AtEntry
    PROVE  AtEntry'
<1>1. (MarksOf(entry.perp) \cup Missing(Nil)) \subseteq (MarksOf(entry.perp) \cup Missing(Nil))'
  BY More
<1> QED BY <1>1 DEF AtEntry, Grows

LEMMA BalanceGathers ==
    ASSUME Placed, Gathering, BalanceOf
    PROVE  Gathering'
<1>1. /\ pc = "balance" /\ pc' = "mark" /\ UNCHANGED <<answer, todo, asked, past, failed>>
      /\ todo /= <<>> /\ chain[Head(todo)].paper /= 0
      /\ entry' = [perp |-> Head(todo), paper |-> chain[Head(todo)].paper,
                   credit |-> chain[Head(todo)].credit]
  BY DEF BalanceOf, Shown, Goto
<1>2. chain \in past BY <1>1 DEF Placed
<1>3. InPositions' BY <1>1, LoopsKeep DEF Gathering, Grows
<1>4. AtEntry' BY <1>1, <1>2 DEF AtEntry
<1> QED BY <1>1, <1>3, <1>4 DEF Gathering

\* A list without its first entry.
LEMMA TailFacts ==
    ASSUME NEW t \in Seq(Perps), t /= <<>>
    PROVE  /\ Tail(t) \in Seq(Perps) /\ Len(t) \in Nat \ {0} /\ Len(Tail(t)) = Len(t) - 1
           /\ \A i \in 1..Len(Tail(t)) : i + 1 \in 1..Len(t) /\ Tail(t)[i] = t[i + 1]
           /\ Head(t) = t[1] /\ Head(t) \in Perps
           /\ \A k \in 1..Len(t) : k = 1 \/ \E i \in 1..Len(Tail(t)) : t[k] = Tail(t)[i]
<1> PICK u : u = Tail(t) OBVIOUS
<1>1. /\ u \in Seq(Perps) /\ Len(t) \in Nat \ {0} /\ Len(u) = Len(t) - 1
      /\ \A i \in 1..Len(u) : u[i] = t[i + 1]
      /\ Head(t) \in Perps
  BY HeadTailProperties, LenProperties, EmptySeq
<1>2. \A i \in 1..Len(u) : i + 1 \in 1..Len(t) BY <1>1
<1>3. \A k \in 1..Len(t) : k = 1 \/ \E i \in 1..Len(u) : t[k] = u[i]
  <2> TAKE k \in 1..Len(t)
  <2> SUFFICES ASSUME k /= 1 PROVE \E i \in 1..Len(u) : t[k] = u[i] OBVIOUS
  <2>1. k - 1 \in 1..Len(u) /\ (k - 1) + 1 = k BY <1>1
  <2>2. u[k - 1] = t[k] BY <1>1, <2>1
  <2> QED BY <2>1, <2>2
<1>4. Head(t) = t[1] OBVIOUS
<1> QED BY <1>1, <1>2, <1>3, <1>4

\* The head of the list is dropped: it was not open throughout, or a call failed.
LEMMA SkipGathers ==
    ASSUME Placed, Gathering, SkipPosition
    PROVE  Gathering'
<1>1. /\ pc = "balance" /\ pc' = "balance" /\ todo /= <<>> /\ todo' = Tail(todo)
      /\ UNCHANGED <<answer, asked, past>> /\ Grows
      /\ failed' \/ chain[Head(todo)].paper = 0
  BY DEF SkipPosition, Shown, Grows
<1>2. InPositions BY <1>1 DEF Gathering
<1>3. /\ todo' \in Seq(Perps) /\ Head(todo) = todo[1]
      /\ \A i \in 1..Len(todo') : i + 1 \in 1..Len(todo) /\ todo'[i] = todo[i + 1]
      /\ \A k \in 1..Len(todo) : k = 1 \/ \E i \in 1..Len(todo') : todo[k] = todo'[i]
      /\ Len(todo) \in Nat /\ Len(todo') \in Nat
  BY <1>1, <1>2, TailFacts DEF InPositions
<1>4. answer \in Seq(Values([p \in Perps |-> PositionsOf(p)]))'
  <2>1. Values([p \in Perps |-> PositionsOf(p)]) \subseteq Values([p \in Perps |-> PositionsOf(p)])'
    BY <1>1, More DEF Values
  <2> QED BY <1>2, <2>1, SeqMonotonic DEF InPositions
<1>5. /\ \A i, k \in 1..Len(todo') : todo'[i] = todo'[k] => i = k
      /\ \A i \in 1..Len(answer), k \in 1..Len(todo') : answer[i].perp /= todo'[k]
  <2>1. ASSUME NEW i \in 1..Len(todo'), NEW k \in 1..Len(todo'), todo'[i] = todo'[k]
        PROVE  i = k
    <3>1. i + 1 = k + 1 BY <1>2, <1>3, <2>1 DEF InPositions
    <3> QED BY <1>3, <3>1
  <2>2. \A i \in 1..Len(answer), k \in 1..Len(todo') : answer[i].perp /= todo'[k]
    BY <1>2, <1>3 DEF InPositions
  <2> QED BY <2>1, <2>2
<1>6. failed' \/ \A p \in OpenThroughout' :
                    \/ \E i \in 1..Len(answer) : answer[i].perp = p
                    \/ \E k \in 1..Len(todo') : todo'[k] = p
  <2> SUFFICES ASSUME ~ failed', NEW p \in OpenThroughout'
               PROVE  \/ \E i \in 1..Len(answer) : answer[i].perp = p
                      \/ \E k \in 1..Len(todo') : todo'[k] = p
    OBVIOUS
  <2>1. p \in OpenThroughout /\ ~ failed BY <1>1, More DEF Grows
  <2>2. p /= Head(todo) BY <1>1, <2>1, NowIsPast
  <2>3. CASE \E i \in 1..Len(answer) : answer[i].perp = p BY <2>3
  <2>4. CASE \E k \in 1..Len(todo) : todo[k] = p
    <3>1. PICK k \in 1..Len(todo) : todo[k] = p BY <2>4
    <3>2. k /= 1 BY <1>3, <2>2, <3>1
    <3>3. \E i \in 1..Len(todo') : todo[k] = todo'[i] BY <1>3, <3>2
    <3> QED BY <3>1, <3>3
  <2> QED BY <1>2, <2>1, <2>3, <2>4 DEF InPositions
<1>7. InPositions' BY <1>1, <1>2, <1>3, <1>4, <1>5, <1>6 DEF InPositions
<1>8. AtEntry' BY <1>1 DEF AtEntry
<1> QED BY <1>1, <1>7, <1>8 DEF Gathering

LEMMA MarkGathers ==
    ASSUME Placed, Gathering, GetMarkPrice
    PROVE  Gathering'
<1>1. PICK mark \in Reads(chain[entry.perp].mark) :
         /\ entry' = [perp |-> entry.perp, paper |-> entry.paper,
                      credit |-> entry.credit, mark |-> mark]
         /\ Noted(mark)
  BY DEF GetMarkPrice
<1>2. pc = "mark" /\ pc' = "liq" /\ UNCHANGED <<answer, todo, asked, past>> /\ Grows
  BY <1>1 DEF GetMarkPrice, Goto, Noted, Grows
<1>3. InPositions' BY <1>2, LoopsKeep DEF Gathering
<1>4. mark \in MarksOf(entry.perp)' \cup Missing(Nil)'
  <2>1. chain[entry.perp].mark \in MarksOf(entry.perp) BY <1>2, NowIsPast
  <2>2. MarksOf(entry.perp) = {c[entry.perp].mark : c \in past} BY DEF MarksOf
  <2> QED BY <1>1, <1>2, <2>1, <2>2 DEF Reads, Noted, Missing, MarksOf
<1>5. AtEntry' BY <1>1, <1>2, <1>4 DEF AtEntry, Gathering, MarksOf
<1> QED BY <1>2, <1>3, <1>5 DEF Gathering

\* The entry joins the answer: each of its parts was so, and its contract is no
\* longer to come.
LEMMA PositionGathers ==
    ASSUME Placed, Gathering, GetLiquidationPrice
    PROVE  Gathering'
<1>1. PICK liq \in Reads(LiquidationPrice(chain, entry.perp)) :
         /\ Noted(liq)
         /\ IF entry.paper = 0
            THEN Goto("panic") /\ UNCHANGED answer
            ELSE /\ Goto("balance")
                 /\ answer' = Append(answer,
                       [perp |-> entry.perp, paper |-> entry.paper,
                        credit |-> entry.credit, mark |-> entry.mark, liq |-> liq,
                        price |-> EntryPrice(entry.paper, entry.credit)])
  BY DEF GetLiquidationPrice
<1>2. /\ pc = "liq" /\ todo' = Tail(todo) /\ UNCHANGED <<asked, past>> /\ Grows
      /\ failed' = (failed \/ liq = Nil)
  BY <1>1 DEF GetLiquidationPrice, Noted, Grows
<1>3. AtEntry /\ InPositions BY <1>2 DEF Gathering
<1>4. PICK p : p = Head(todo) OBVIOUS
<1>5. todo /= <<>> /\ entry.perp = p /\ entry.paper /= 0 BY <1>2, <1>3, <1>4 DEF AtEntry
<1> PICK e : e = [perp |-> p, paper |-> entry.paper, credit |-> entry.credit,
                  mark |-> entry.mark, liq |-> liq,
                  price |-> EntryPrice(entry.paper, entry.credit)]
  OBVIOUS
<1>6. pc' = "balance" /\ answer' = Append(answer, e) BY <1>1, <1>5 DEF Goto
<1>7. /\ todo' \in Seq(Perps) /\ p = todo[1] /\ p \in Perps
      /\ \A i \in 1..Len(todo') : i + 1 \in 1..Len(todo) /\ todo'[i] = todo[i + 1]
      /\ \A k \in 1..Len(todo) : k = 1 \/ \E i \in 1..Len(todo') : todo[k] = todo'[i]
      /\ Len(todo) \in Nat \ {0} /\ Len(todo') \in Nat
  BY <1>2, <1>3, <1>4, <1>5, TailFacts DEF InPositions
<1>8. e \in PositionsOf(p)'
  <2>1. PICK c \in past : c[p].paper = entry.paper /\ c[p].credit = entry.credit
    BY <1>2, <1>3, <1>5 DEF AtEntry
  <2>2. entry.mark \in (MarksOf(p) \cup Missing(Nil))'
    <3>1. entry.mark \in MarksOf(p) \cup Missing(Nil) BY <1>2, <1>3, <1>5 DEF AtEntry
    <3> QED BY <1>2, <3>1, More
  <2>3. liq \in (LiquidationsOf(p) \cup Missing(Nil))'
    <3>1. LiquidationPrice(chain, p) \in LiquidationsOf(p)' BY <1>2, NowIsPast, More
    <3> QED BY <1>1, <1>2, <1>5, <3>1 DEF Reads, Missing
  <2>4. c \in {d \in past' : d[p].paper /= 0} BY <1>2, <1>5, <2>1
  <2>5. e = [perp |-> p, paper |-> c[p].paper, credit |-> c[p].credit, mark |-> entry.mark,
             liq |-> liq, price |-> EntryPrice(c[p].paper, c[p].credit)]
    BY <2>1
  <2> QED BY <2>2, <2>3, <2>4, <2>5 DEF PositionsOf
<1> DEFINE V == Values([q \in Perps |-> PositionsOf(q)])
<1>9. answer \in Seq(V') /\ e \in V' /\ Len(answer) \in Nat
  <2>1. V \subseteq V' BY <1>2, More DEF Values
  <2>2. answer \in Seq(V) BY <1>3 DEF InPositions
  <2>3. e \in V' BY <1>7, <1>8 DEF Values
  <2> HIDE DEF V
  <2> QED BY <2>1, <2>2, <2>3, SeqMonotonic, LenProperties
<1>10. /\ answer' \in Seq(V') /\ Len(answer') = Len(answer) + 1
       /\ answer'[Len(answer) + 1] = e
       /\ \A i \in 1..Len(answer) : answer'[i] = answer[i]
  <2> HIDE DEF V
  <2> QED BY <1>6, <1>9, AppendProperties
<1> HIDE DEF V
<1>11. e.perp = p OBVIOUS
<1>12. \A i \in 1..Len(answer) : answer[i].perp /= p
  <2>1. \A i \in 1..Len(answer), k \in 1..Len(todo) : answer[i].perp /= todo[k]
    BY <1>3 DEF InPositions
  <2>2. 1 \in 1..Len(todo) BY <1>7
  <2> QED BY <1>7, <2>1, <2>2
<1>13. \A i, k \in 1..Len(answer') : answer'[i].perp = answer'[k].perp => i = k
  <2> TAKE i, k \in 1..Len(answer')
  <2>1. /\ i = Len(answer) + 1 \/ i \in 1..Len(answer)
        /\ k = Len(answer) + 1 \/ k \in 1..Len(answer)
    BY <1>9, <1>10
  <2> QED BY <1>3, <1>10, <1>11, <1>12, <2>1 DEF InPositions
<1>14. \A i, k \in 1..Len(todo') : todo'[i] = todo'[k] => i = k
  <2> SUFFICES ASSUME NEW i \in 1..Len(todo'), NEW k \in 1..Len(todo'), todo'[i] = todo'[k]
               PROVE  i = k
    OBVIOUS
  <2>1. i + 1 = k + 1 BY <1>3, <1>7 DEF InPositions
  <2> QED BY <1>7, <2>1
<1>15. \A i \in 1..Len(answer'), k \in 1..Len(todo') : answer'[i].perp /= todo'[k]
  <2> TAKE i \in 1..Len(answer'), k \in 1..Len(todo')
  <2>1. k + 1 \in 1..Len(todo) /\ todo'[k] = todo[k + 1] /\ 1 \in 1..Len(todo) /\ k + 1 /= 1
    BY <1>7
  <2>2. todo'[k] /= p BY <1>3, <1>7, <2>1 DEF InPositions
  <2>3. i = Len(answer) + 1 \/ i \in 1..Len(answer) BY <1>9, <1>10
  <2> QED BY <1>3, <1>10, <1>11, <2>1, <2>2, <2>3 DEF InPositions
<1>16. failed' \/ \A q \in OpenThroughout' :
                    \/ \E i \in 1..Len(answer') : answer'[i].perp = q
                    \/ \E k \in 1..Len(todo') : todo'[k] = q
  <2> SUFFICES ASSUME ~ failed', NEW q \in OpenThroughout'
               PROVE  \/ \E i \in 1..Len(answer') : answer'[i].perp = q
                      \/ \E k \in 1..Len(todo') : todo'[k] = q
    OBVIOUS
  <2>1. q \in OpenThroughout /\ ~ failed BY <1>2, More DEF Grows
  <2>2. Len(answer) + 1 \in 1..Len(answer') /\ 1..Len(answer) \subseteq 1..Len(answer')
    BY <1>9, <1>10
  <2>3. CASE \E i \in 1..Len(answer) : answer[i].perp = q BY <1>10, <2>2, <2>3
  <2>4. CASE \E k \in 1..Len(todo) : todo[k] = q
    <3>1. PICK k \in 1..Len(todo) : todo[k] = q BY <2>4
    <3>2. CASE k = 1 BY <1>7, <1>10, <1>11, <2>2, <3>1, <3>2
    <3>3. CASE k /= 1 BY <1>7, <3>1, <3>3
    <3> QED BY <3>2, <3>3
  <2> QED BY <1>3, <2>1, <2>3, <2>4 DEF InPositions
<1>17. InPositions' BY <1>7, <1>10, <1>13, <1>14, <1>15, <1>16 DEF InPositions, V
<1>18. AtEntry' BY <1>6 DEF AtEntry
<1> QED BY <1>6, <1>17, <1>18 DEF Gathering

LEMMA RiskGathers ==
    ASSUME Placed, Gathering, GetTraderRisk
    PROVE  Gathering'
<1>1. pc = "risk" /\ pc' = "safe" /\ UNCHANGED past /\ answer' = <<RiskInfo(TraderRisk[chain])>>
  BY DEF GetTraderRisk, Goto
<1>2. chain \in past BY <1>1 DEF Placed
<1>3. AtRisk' BY <1>1, <1>2 DEF AtRisk
<1>4. AtEntry' BY <1>1 DEF AtEntry
<1> QED BY <1>1, <1>3, <1>4 DEF Gathering

LEMMA QuoteGathers ==
    ASSUME Placed, Gathering, QuoteMark \/ QuoteRate
    PROVE  Gathering'
<1>1. CASE QuoteMark
  <2>1. PICK mark \in Reads(chain[Head(todo)].mark) :
           entry' = [perp |-> Head(todo), mark |-> mark] /\ Noted(mark)
    BY <1>1 DEF QuoteMark
  <2>2. /\ pc = "quote" /\ pc' = "rate" /\ UNCHANGED <<answer, todo, asked, past>> /\ Grows
        /\ todo /= <<>>
    BY <1>1, <2>1 DEF QuoteMark, Noted, Grows, Goto
  <2>3. InQuotes' BY <2>2, LoopsKeep DEF Gathering
  <2>4. mark \in MarksOf(Head(todo))' \cup Missing(Nil)'
    <3>1. chain[Head(todo)].mark \in MarksOf(Head(todo)) BY <2>2, NowIsPast
    <3> QED BY <2>1, <2>2, <3>1 DEF Reads, Noted, Missing, MarksOf
  <2>5. AtEntry' BY <2>1, <2>2, <2>4 DEF AtEntry, MarksOf
  <2> QED BY <2>2, <2>3, <2>5 DEF Gathering
<1>2. CASE QuoteRate
  <2>1. PICK rate \in Reads(chain[entry.perp].rate) :
           /\ answer' = Append(answer, [perp |-> entry.perp, mark |-> entry.mark, rate |-> rate])
           /\ Noted(rate)
    BY <1>2 DEF QuoteRate
  <2>2. /\ pc = "rate" /\ pc' = "quote" /\ UNCHANGED <<asked, past>> /\ Grows
        /\ todo' = Tail(todo)
    BY <1>2, <2>1 DEF QuoteRate, Noted, Grows, Goto
  <2>3. InQuotes /\ AtEntry BY <2>2 DEF Gathering
  <2>4. PICK n : Through(asked, Quotes, n, answer, todo) BY <2>3 DEF InQuotes
  <2>5. Through(asked, Quotes', n, answer, todo) BY <2>2, <2>4, More, ThroughMore
  <2>6. PICK p : p = Head(todo) OBVIOUS
  <2>7. /\ todo /= <<>> /\ entry.perp = p /\ p \in Perps
        /\ entry.mark \in MarksOf(p) \cup Missing(Nil)
    BY <2>2, <2>3, <2>4, <2>6, ThroughHead DEF AtEntry
  <2>8. entry.mark \in (MarksOf(p) \cup Missing(Nil))' BY <2>2, <2>7, More
  <2>9. rate \in (RatesOf(p) \cup Missing(Nil))'
    <3>1. chain[p].rate \in RatesOf(p)' BY <2>2, NowIsPast, More
    <3> QED BY <2>1, <2>7, <3>1 DEF Reads, Noted, Missing
  <2>10. [perp |-> p, mark |-> entry.mark, rate |-> rate] \in Quotes'[p]
    BY <2>7, <2>8, <2>9 DEF Quotes, QuotesOf
  <2>11. Through(asked, Quotes', n + 1, answer', todo')
    BY <2>1, <2>2, <2>5, <2>6, <2>7, <2>10, ThroughNext
  <2>12. InQuotes' BY <2>2, <2>11 DEF InQuotes
  <2>13. AtEntry' BY <2>2 DEF AtEntry
  <2> QED BY <2>2, <2>12, <2>13 DEF Gathering
<1> QED BY <1>1, <1>2

LEMMA TickerGathers ==
    ASSUME Placed, Gathering, ChainTicker
    PROVE  Gathering'
<1>1. PICK mark \in Reads(chain[Head(todo)].mark) :
         /\ Noted(mark)
         /\ answer' = Append(answer, [perp |-> Head(todo),
                                      mark |-> IF mark = Nil THEN 0 ELSE mark])
  BY DEF ChainTicker
<1>2. /\ pc = "ticker" /\ pc' = pc /\ UNCHANGED past /\ Grows /\ todo /= <<>>
      /\ todo' = Tail(todo)
  BY <1>1 DEF ChainTicker, Noted, Grows
<1>3. PICK n : Through(Markets, Tickers, n, answer, todo) BY <1>2 DEF Gathering, InTickers
<1>4. Through(Markets, Tickers', n, answer, todo) BY <1>2, <1>3, More, ThroughMore
<1>5. PICK p : p = Head(todo) OBVIOUS
<1>6. p \in Perps BY <1>2, <1>3, <1>5, ThroughHead
<1> PICK shown : shown = (IF mark = Nil THEN 0 ELSE mark) OBVIOUS
<1>7. shown \in (MarksOf(p) \cup Missing(0))'
  <2>1. chain[p].mark \in MarksOf(p)' BY <1>2, NowIsPast, More
  <2> QED BY <1>1, <1>5, <2>1 DEF Reads, Noted, Missing
<1>8. [perp |-> p, mark |-> shown] \in Tickers'[p] BY <1>6, <1>7 DEF Tickers, TickersOf
<1>9. Through(Markets, Tickers', n + 1, answer', todo')
  BY <1>1, <1>2, <1>4, <1>5, <1>8, ThroughNext
<1>10. InTickers' BY <1>9 DEF InTickers
<1>11. AtEntry' BY <1>2 DEF AtEntry
<1> QED BY <1>2, <1>10, <1>11 DEF Gathering

LEMMA WriteGathers ==
    ASSUME Placed, Gathering, Write
    PROVE  Gathering'
<1>1. /\ pc = "write" /\ answer' = <<>>
      /\ pc' \in {"ticker", "failed"}
      /\ pc' = "ticker" => todo' = Markets
  BY DEF Write, Goto
<1>2. AtEntry' BY <1>1 DEF AtEntry
<1>3. CASE pc' = "failed" BY <1>2, <1>3 DEF Gathering
<1>4. CASE pc' = "ticker"
  <2>1. Through(Markets, Tickers', 0, <<>>, Markets) BY MarketsArePerps, ThroughNone
  <2>2. InTickers' BY <1>1, <1>4, <2>1 DEF InTickers
  <2> QED BY <1>2, <1>4, <2>2 DEF Gathering
<1> QED BY <1>1, <1>3, <1>4

LEMMA GatheringStep ==
    ASSUME Placed, Gathering, [Next]_vars
    PROVE  Gathering'
<1>1. CASE UNCHANGED vars \/ Leave \/ Block
  <2>1. UNCHANGED <<pc, asked, todo, entry, answer>> /\ Grows
    BY <1>1 DEF vars, Leave, Block, Grows
  <2> QED BY <2>1, LoopsKeep, EntryKeeps DEF Gathering
<1>2. CASE Fails \/ GetIsSafe \/ Gathered \/ Reply
  <2>1. pc' \in {"failed", "answered", "write", "idle"}
    BY <1>2 DEF Fails, GetIsSafe, Gathered, Reply, Goto
  <2> QED BY <2>1 DEF Gathering, AtEntry
<1> QED
  BY <1>1, <1>2, AskGathers, ListGathers, BalanceGathers, SkipGathers, MarkGathers,
     PositionGathers, RiskGathers, QuoteGathers, TickerGathers, WriteGathers
  DEF Next, HandlerStep

-----------------------------------------------------------------------------
(* The end of the loops.                                                   *)

\* A true answer stays true, as blocks come.
LEMMA AnswerKeeps ==
    ASSUME AnswersWereTrue, Grows, UNCHANGED <<pc, view, asked, answer>>
    PROVE  AnswersWereTrue'
<1>1. \A p : PositionsOf(p) \subseteq PositionsOf(p)' /\ OpenThroughout' \subseteq OpenThroughout
  BY More
<1>2. \A p : QuotesOf(p) \subseteq QuotesOf(p)' /\ TickersOf(p) \subseteq TickersOf(p)'
  <2>1. \A v : Missing(v) \subseteq Missing(v)' BY More
  <2>2. \A p : MarksOf(p) \subseteq MarksOf(p)' /\ RatesOf(p) \subseteq RatesOf(p)' BY More
  <2> QED BY <2>1, <2>2 DEF QuotesOf, TickersOf
<1>3. /\ {RiskInfo(TraderRisk[c]) : c \in past} \subseteq {RiskInfo(TraderRisk[c]) : c \in past'}
      /\ {IsSafe(c) : c \in past} \cup Missing(FALSE)
            \subseteq {IsSafe(c) : c \in past'} \cup Missing(FALSE)'
  BY More DEF Grows
<1>4. failed => failed' BY DEF Grows
<1> SUFFICES ASSUME pc' \in {"answered", "write"} PROVE AnswersWereTrue'
  BY DEF AnswersWereTrue
<1>5. CASE view = "positions" BY <1>1, <1>4, <1>5 DEF AnswersWereTrue
<1>6. CASE view = "risk" BY <1>3, <1>6 DEF AnswersWereTrue
<1>7. CASE view = "markets" BY <1>2, <1>7 DEF AnswersWereTrue
<1>8. CASE view \notin {"positions", "risk", "markets"} BY <1>2, <1>8 DEF AnswersWereTrue
<1> QED BY <1>5, <1>6, <1>7, <1>8

LEMMA GatheredIsTrue ==
    ASSUME Placed, Gathering, Gathered
    PROVE  AnswersWereTrue'
<1>1. /\ pc \in {"balance", "quote", "ticker"} /\ todo = <<>>
      /\ UNCHANGED <<past, failed, view, asked>>
  BY DEF Gathered
<1>2. \A p : /\ PositionsOf(p)' = PositionsOf(p) /\ QuotesOf(p)' = QuotesOf(p)
             /\ TickersOf(p)' = TickersOf(p)
  BY <1>1 DEF PositionsOf, QuotesOf, TickersOf, MarksOf, RatesOf, LiquidationsOf, Missing
<1>3. OpenThroughout' = OpenThroughout BY <1>1 DEF OpenThroughout
<1>4. CASE pc = "balance"
  <2>1. view = "positions" /\ InPositions BY <1>4 DEF Placed, Gathering
  <2>2. answer' = answer BY <2>1 DEF Gathered
  <2>3. DOMAIN answer = 1..Len(answer) BY <2>1, LenProperties DEF InPositions
  <2>4. Len(todo) = 0 BY <1>1, EmptySeq
  <2>5. \A i \in DOMAIN answer : \E p \in Perps : answer[i] \in PositionsOf(p)
    <3> DEFINE V == Values([p \in Perps |-> PositionsOf(p)])
    <3>1. \A i \in DOMAIN answer : answer[i] \in V
      <4>1. answer \in Seq(V) BY <2>1 DEF InPositions
      <4> HIDE DEF V
      <4> QED BY <4>1, <2>3, ElementOfSeq
    <3> QED BY <3>1 DEF Values
  <2>6. failed \/ \A p \in OpenThroughout : \E i \in DOMAIN answer : answer[i].perp = p
    BY <2>1, <2>3, <2>4 DEF InPositions
  <2>7. \A i, j \in DOMAIN answer : answer[i].perp = answer[j].perp => i = j
    BY <2>1, <2>3 DEF InPositions
  <2>8. /\ \A i \in DOMAIN answer' : \E p \in Perps : answer'[i] \in PositionsOf(p)'
        /\ \A i, j \in DOMAIN answer' : answer'[i].perp = answer'[j].perp => i = j
        /\ failed' \/ \A p \in OpenThroughout' : \E i \in DOMAIN answer' : answer'[i].perp = p
    BY <1>1, <1>2, <1>3, <2>2, <2>5, <2>6, <2>7
  <2> QED BY <1>1, <2>1, <2>8 DEF AnswersWereTrue
<1>5. CASE pc = "quote"
  <2>1. view = "markets" /\ InQuotes BY <1>5 DEF Placed, Gathering
  <2>2. answer' = answer BY <2>1 DEF Gathered
  <2>3. PICK n : Through(asked, Quotes, n, answer, <<>>) BY <1>1, <2>1 DEF InQuotes
  <2>4. asked \in Seq(Perps) BY <2>3 DEF Through
  <2>5. DOMAIN asked = 1..Len(asked) /\ \A i \in 1..Len(asked) : asked[i] \in Perps
    BY <2>4, LenProperties, ElementOfSeq
  <2>6. Len(answer) = Len(asked) /\ \A i \in DOMAIN asked : answer[i] \in QuotesOf(asked[i])
    BY <2>3, <2>5, ThroughAll DEF Quotes
  <2>7. Len(answer') = Len(asked') /\ \A i \in DOMAIN asked' : answer'[i] \in QuotesOf(asked[i])'
    BY <1>1, <1>2, <2>2, <2>6
  <2> QED BY <1>1, <2>1, <2>7 DEF AnswersWereTrue
<1>6. CASE pc = "ticker"
  <2>1. view \in {"tickers", "socket"} /\ InTickers BY <1>6 DEF Placed, Gathering
  <2>2. PICK n : Through(Markets, Tickers, n, answer, <<>>) BY <1>1, <2>1 DEF InTickers
  <2>3. /\ DOMAIN answer = 1..Len(Markets) /\ Len(answer) = Len(Markets)
        /\ \A k \in 1..Len(Markets) : answer[k] \in Tickers[Markets[k]]
    BY <2>2, ThroughAll
  <2>4. asked \in Seq(ToSet(Markets)) BY DEF Placed
  <2>5. Len(answer') = Len(asked) /\ \A i \in DOMAIN asked : answer'[i] \in TickersOf(asked[i])
    <3>1. CASE asked = Markets
      <4>1. answer' = answer BY <3>1 DEF Gathered
      <4>2. \A k \in 1..Len(Markets) : Markets[k] \in Perps BY MarketsArePerps, ElementOfSeq
      <4> QED BY <2>3, <3>1, <4>1, <4>2, MarketsArePerps DEF Tickers
    <3>2. CASE asked /= Markets
      <4>1. view = "tickers" BY <1>6, <2>1, <3>2 DEF Placed
      <4>2. answer' = Picked BY <3>2, <4>1 DEF Gathered
      <4> QED BY <2>3, <2>4, <4>2, PickedAreAsked
    <3> QED BY <3>1, <3>2
  <2>6. Len(answer') = Len(asked') /\ \A i \in DOMAIN asked' : answer'[i] \in TickersOf(asked[i])'
    BY <1>1, <1>2, <2>5
  <2>7. view' \notin {"positions", "risk", "markets"} BY <1>1, <2>1
  <2> QED BY <2>6, <2>7 DEF AnswersWereTrue
<1> QED BY <1>1, <1>4, <1>5, <1>6

\* The two calls of GetRiskInfo, each of a block since the request.
LEMMA SafeIsTrue ==
    ASSUME Placed, Gathering, GetIsSafe
    PROVE  AnswersWereTrue'
<1>1. PICK safe \in Reads(IsSafe(chain)) : Noted(safe) /\ answer' = Append(answer, safe = TRUE)
  BY DEF GetIsSafe
<1>2. pc = "safe" /\ UNCHANGED <<past, view>> BY <1>1 DEF GetIsSafe, Noted
<1>3. view = "risk" /\ chain \in past BY <1>2 DEF Placed
<1>4. PICK r : answer = <<r>> /\ r \in {RiskInfo(TraderRisk[c]) : c \in past}
  BY <1>2 DEF Gathering, AtRisk
<1>5. answer'[1] = r /\ answer'[2] = (safe = TRUE) BY <1>1, <1>4
<1>6. (safe = TRUE) \in {IsSafe(c) : c \in past} \cup Missing(FALSE)'
  <2>1. CASE safe = IsSafe(chain)
    <3>1. IsSafe(chain) \in BOOLEAN BY DEF IsSafe
    <3>2. (safe = TRUE) = IsSafe(chain) BY <2>1, <3>1
    <3> QED BY <1>3, <3>2
  <2>2. CASE safe /= IsSafe(chain)
    <3>1. safe = Nil BY <2>2 DEF Reads
    <3>2. failed' = TRUE BY <1>1, <3>1 DEF Noted
    <3>3. safe /= TRUE BY <3>1, NilAssumption
    <3> QED BY <3>2, <3>3 DEF Missing
  <2> QED BY <2>1, <2>2
<1> QED BY <1>2, <1>3, <1>4, <1>5, <1>6 DEF AnswersWereTrue

LEMMA AnswerStep ==
    ASSUME Placed, Gathering, AnswersWereTrue, [Next]_vars
    PROVE  AnswersWereTrue'
<1>1. CASE UNCHANGED vars \/ Leave \/ Block
  <2>1. UNCHANGED <<view, pc, asked, answer>> /\ Grows
    BY <1>1 DEF vars, Leave, Block, Grows
  <2> QED BY <2>1, AnswerKeeps
<1>2. CASE Gathered BY <1>2, GatheredIsTrue
<1>3. CASE GetIsSafe BY <1>3, SafeIsTrue
<1>4. CASE AskPositions \/ AskRisk \/ AskMarkets \/ AskTickers
  BY <1>4 DEF AskPositions, AskRisk, AskMarkets, AskTickers, Ask, Goto, AnswersWereTrue
<1>5. CASE GetPositions \/ BalanceOf \/ SkipPosition \/ GetMarkPrice \/ GetLiquidationPrice
  BY <1>5 DEF GetPositions, BalanceOf, SkipPosition, GetMarkPrice, GetLiquidationPrice, Goto,
              AnswersWereTrue
<1>6. CASE GetTraderRisk \/ QuoteMark \/ QuoteRate \/ ChainTicker \/ Write \/ Reply \/ Fails
  BY <1>6 DEF GetTraderRisk, QuoteMark, QuoteRate, ChainTicker, Write, Reply, Fails, Goto,
              AnswersWereTrue
<1> QED BY <1>1, <1>2, <1>3, <1>4, <1>5, <1>6 DEF Next, HandlerStep

\* However many blocks come and calls fail during a request, GetPositions answers
\* with positions of the right contracts, none twice, as each was at some time
\* since, and without a failure with all that were open throughout; GetRiskInfo
\* with the figures of one block, and "safe" only if it was so; ListMarkets,
\* GetMarket, GetTicker and the WebSocket with each market asked for and its own
\* price (getpositionslogic.go:40-70, getriskinfologic.go:35-44, gettickerlogic.go:30-39).
THEOREM AnswersAreTrue == Spec => []AnswersWereTrue
<1>1. Init => AnswerInv
  <2>1. <<>> \in Seq(ToSet(Markets)) BY EmptySeq
  <2> QED BY <2>1 DEF Init, AnswerInv, Placed, Gathering, AtEntry, AnswersWereTrue
<1>2. AnswerInv /\ [Next]_vars => AnswerInv'
  BY PlacedStep, GatheringStep, AnswerStep DEF AnswerInv
<1>3. AnswerInv => AnswersWereTrue BY DEF AnswerInv
<1> QED BY <1>1, <1>2, <1>3, PTL DEF Spec

=============================================================================
