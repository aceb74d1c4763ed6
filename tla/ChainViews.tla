----------------------------- MODULE ChainViews -----------------------------
(***************************************************************************)
(* The handlers that answer from the chain: GetPositions and GetRiskInfo   *)
(* (src/internal/logic/position), ListMarkets, GetMarket, GetTicker and    *)
(* the ticker WebSocket (src/internal/logic/market, ws_ticker.go).         *)
(*                                                                         *)
(* None of them writes anything; what makes them hard is that one answer   *)
(* takes several eth_calls, each of the latest block, so the chain moves   *)
(* on between them, and that each may fail, after which the handler leaves *)
(* something out, puts a default in, or gives up.  A call is an action.    *)
(* Handlers do not touch one another: one of them at a time is followed.   *)
(***************************************************************************)
EXTENDS Integers, Sequences, FiniteSets, SequencesExt

CONSTANTS Perps,      \* the perpetual contracts
          Markets,    \* those in the configuration, in its order
          Accounts,   \* what a contract may hold for the trader and the market
          Precision,  \* 10^18
          TraderRisk, \* external: what getTraderRisk makes of the contracts
          MaxBlocks,  \* bound of the blocks that change anything
          Nil         \* no value: the call failed

ASSUME PerpsAssumption == IsFiniteSet(Perps)
ASSUME MarketsAssumption == Markets \in Seq(Perps)
ASSUME AccountsAssumption ==
    \A a \in Accounts : a \in [paper : Int, credit : Int, mark : Nat, rate : Int]
ASSUME RiskAssumption ==
    TraderRisk \in [[Perps -> Accounts] -> [value : Int, exposure : Nat, maintenance : Nat]]
ASSUME NilAssumption == Nil \notin BOOLEAN
ASSUME BoundsAssumption == Precision \in Nat \ {0} /\ MaxBlocks \in Nat

VARIABLES
    chain,    \* external: contract -> one of Accounts
    blocks,   \* external: how often it changed
    view,     \* which handler runs
    pc,       \* where it is
    asked,    \* the markets it was asked for
    todo,     \* the contracts its loop has not come to
    entry,    \* the entry the loop is at
    answer,   \* what it has gathered
    client,   \* whether a WebSocket's client is still there
    past,     \* history: the states of the chain since the request
    failed    \* history: whether a call has failed since

vars == <<chain, blocks, view, pc, asked, todo, entry, answer, client, past, failed>>

AbsInt(i) == IF i < 0 THEN -i ELSE i

Init ==
    /\ chain \in [Perps -> Accounts]
    /\ blocks = 0
    /\ view = Nil
    /\ pc = "idle"
    /\ asked = <<>> /\ todo = <<>> /\ answer = <<>>
    /\ entry = Nil
    /\ client = TRUE
    /\ past = {}
    /\ failed = FALSE

-----------------------------------------------------------------------------
(* External: the view functions of the contracts.                          *)

Open == {p \in Perps : chain[p].paper /= 0}

IsSafe(c) == TraderRisk[c].value >= TraderRisk[c].maintenance

\* Some function of what the contract holds, which stands for it.
LiquidationPrice(c, p) == c[p]

\* A block: a trade, a new mark price or a funding settlement.
Block ==
    /\ blocks < MaxBlocks
    /\ blocks' = blocks + 1
    /\ \E p \in Perps : \E a \in Accounts \ {chain[p]} : chain' = [chain EXCEPT ![p] = a]
    /\ past' = past \cup {chain'}
    /\ UNCHANGED <<view, pc, asked, todo, entry, answer, client, failed>>

\* A call of the node gives the value of now, or an error.
Reads(value) == {value, Nil}

Noted(result) == /\ failed' = (failed \/ result = Nil)
                 /\ UNCHANGED past

\* What is read from here on belongs to a new answer.
Anew == past' = {chain} /\ failed' = FALSE

Goto(l) == pc' = l

-----------------------------------------------------------------------------
(* A request comes in.                                                     *)

Ask(v, l, markets, loop) ==
    /\ pc = "idle"
    /\ view' = v
    /\ Goto(l)
    /\ asked' = markets
    /\ todo' = loop
    /\ Anew
    /\ UNCHANGED <<chain, blocks, entry, answer, client>>

AskPositions == Ask("positions", "list", <<>>, <<>>)

AskRisk == Ask("risk", "risk", <<>>, <<>>)

\* ListMarkets asks for all, GetMarket for one, or for one that is not there.
AskMarkets == \/ Ask("markets", "quote", Markets, Markets)
              \/ \E p \in ToSet(Markets) : Ask("markets", "quote", <<p>>, <<p>>)
              \/ Ask("markets", "failed", <<>>, <<>>)

\* GetTicker reads all, whatever it was asked for, and picks it out then.
AskTickers == \/ Ask("tickers", "ticker", Markets, Markets)
              \/ \E p \in ToSet(Markets) : Ask("tickers", "ticker", <<p>>, Markets)
              \/ Ask("tickers", "ticker", <<>>, Markets)
              \/ Ask("socket", "ticker", Markets, Markets)

-----------------------------------------------------------------------------
(* GetPositions.                                                           *)

\* The contract lists the open positions in some order.
GetPositions ==
    /\ pc = "list"
    /\ todo' \in SetToSeqs(Open)
    /\ Goto("balance")
    /\ UNCHANGED <<chain, blocks, view, asked, entry, answer, client, past, failed>>

\* A first call that fails is the whole answer: code 500.
Fails ==
    /\ pc \in {"list", "risk"}
    /\ Goto("failed")
    /\ failed' = TRUE
    /\ UNCHANGED <<chain, blocks, view, asked, todo, entry, answer, client, past>>

\* Mutant: no test for a position closed since it was listed.
ShownAll(p) == TRUE

Shown(p) == chain[p].paper /= 0

BalanceOf ==
    /\ pc = "balance"
    /\ todo /= <<>> /\ Shown(Head(todo))
    /\ entry' = [perp |-> Head(todo), paper |-> chain[Head(todo)].paper,
                 credit |-> chain[Head(todo)].credit]
    /\ Goto("mark")
    /\ UNCHANGED <<chain, blocks, view, asked, todo, answer, client, past, failed>>

\* continue: the position was closed, or the call failed.
SkipPosition ==
    /\ pc = "balance"
    /\ todo /= <<>>
    /\ \/ ~Shown(Head(todo)) /\ UNCHANGED failed
       \/ failed' = TRUE
    /\ todo' = Tail(todo)
    /\ UNCHANGED <<chain, blocks, view, pc, asked, entry, answer, client, past>>

\* The errors of the next two are dropped; a nil *big.Int prints as "<nil>".
GetMarkPrice ==
    /\ pc = "mark"
    /\ \E mark \in Reads(chain[entry.perp].mark) :
          /\ entry' = [perp |-> entry.perp, paper |-> entry.paper,
                       credit |-> entry.credit, mark |-> mark]
          /\ Noted(mark)
    /\ Goto("liq")
    /\ UNCHANGED <<chain, blocks, view, asked, todo, answer, client>>

EntryPrice(paper, credit) == (AbsInt(credit) * Precision) \div AbsInt(paper)

\* The last call, and the entry: |credit| / |paper|, by an integer division
\* that panics if the paper is 0.
GetLiquidationPrice ==
    /\ pc = "liq"
    /\ \E liq \in Reads(LiquidationPrice(chain, entry.perp)) :
          /\ Noted(liq)
          /\ IF entry.paper = 0
             THEN Goto("panic") /\ UNCHANGED answer
             ELSE /\ Goto("balance")
                  /\ answer' = Append(answer,
                        [perp |-> entry.perp, paper |-> entry.paper,
                         credit |-> entry.credit, mark |-> entry.mark, liq |-> liq,
                         price |-> EntryPrice(entry.paper, entry.credit)])
    /\ todo' = Tail(todo)
    /\ entry' = Nil
    /\ UNCHANGED <<chain, blocks, view, asked, client>>

-----------------------------------------------------------------------------
(* GetRiskInfo.                                                            *)

\* The ratio; 0 without exposure or margin.
Ratio(value, exposure, maintenance) ==
    IF exposure > 0 /\ maintenance > 0 THEN (value * Precision) \div exposure ELSE 0

RiskInfo(risk) ==
    [value |-> risk.value, exposure |-> risk.exposure, maintenance |-> risk.maintenance,
     available |-> risk.value - risk.maintenance,
     ratio |-> Ratio(risk.value, risk.exposure, risk.maintenance)]

GetTraderRisk ==
    /\ pc = "risk"
    /\ answer' = <<RiskInfo(TraderRisk[chain])>>
    /\ Goto("safe")
    /\ UNCHANGED <<chain, blocks, view, asked, todo, entry, client, past, failed>>

\* Mutant: an account whose safety cannot be read counts as safe.
GetIsSafeTrusting ==
    /\ pc = "safe"
    /\ \E safe \in Reads(IsSafe(chain)) : /\ Noted(safe)
                                          /\ answer' = Append(answer, safe \in {TRUE, Nil})
    /\ Goto("answered")
    /\ UNCHANGED <<chain, blocks, view, asked, todo, entry, client>>

\* The error is dropped: an account whose safety cannot be read is not safe.
GetIsSafe ==
    /\ pc = "safe"
    /\ \E safe \in Reads(IsSafe(chain)) : /\ Noted(safe)
                                   /\ answer' = Append(answer, safe = TRUE)
    /\ Goto("answered")
    /\ UNCHANGED <<chain, blocks, view, asked, todo, entry, client>>

-----------------------------------------------------------------------------
(* Markets and tickers.                                                    *)

\* ListMarkets, GetMarket: a price or rate that cannot be read is left out.
QuoteMark ==
    /\ pc = "quote"
    /\ todo /= <<>>
    /\ \E mark \in Reads(chain[Head(todo)].mark) :
          /\ entry' = [perp |-> Head(todo), mark |-> mark]
          /\ Noted(mark)
    /\ Goto("rate")
    /\ UNCHANGED <<chain, blocks, view, asked, todo, answer, client>>

QuoteRate ==
    /\ pc = "rate"
    /\ \E rate \in Reads(chain[entry.perp].rate) :
          /\ answer' = Append(answer, [perp |-> entry.perp, mark |-> entry.mark, rate |-> rate])
          /\ Noted(rate)
    /\ Goto("quote")
    /\ todo' = Tail(todo)
    /\ entry' = Nil
    /\ UNCHANGED <<chain, blocks, view, asked, client>>

\* ChainTickers: a price that cannot be read is 0; the rate is read and thrown
\* away.
ChainTicker ==
    /\ pc = "ticker"
    /\ todo /= <<>>
    /\ \E mark \in Reads(chain[Head(todo)].mark) :
          /\ Noted(mark)
          /\ answer' = Append(answer, [perp |-> Head(todo),
                                       mark |-> IF mark = Nil THEN 0 ELSE mark])
    /\ todo' = Tail(todo)
    /\ UNCHANGED <<chain, blocks, view, pc, asked, entry, client>>

\* The first ticker of each market asked for.
Picked == [i \in DOMAIN asked |->
             answer[CHOOSE k \in DOMAIN answer :
                      /\ answer[k].perp = asked[i]
                      /\ \A n \in 1..(k - 1) : answer[n].perp /= asked[i]]]

\* The loop is over.
Gathered ==
    /\ pc \in {"balance", "quote", "ticker"}
    /\ todo = <<>>
    /\ answer' = IF view = "tickers" /\ asked /= Markets THEN Picked ELSE answer
    /\ Goto(IF view = "socket" THEN "write" ELSE "answered")
    /\ UNCHANGED <<chain, blocks, view, asked, todo, entry, client, past, failed>>

\* The answer is sent; the next request may come.
Reply ==
    /\ pc \in {"answered", "failed"}
    /\ Goto("idle")
    /\ view' = Nil
    /\ asked' = <<>> /\ todo' = <<>> /\ answer' = <<>>
    /\ client' = TRUE
    /\ past' = {} /\ failed' = FALSE
    /\ UNCHANGED <<chain, blocks, entry>>

\* Mutant: the error of the write is not looked at.
WriteUnseen ==
    /\ pc = "write"
    /\ Goto("ticker") /\ todo' = Markets
    /\ answer' = <<>>
    /\ Anew
    /\ UNCHANGED <<chain, blocks, view, asked, entry, client>>

\* The WebSocket's loop: push, sleep, read all again; only a write that fails
\* ends it, as nothing is ever read from the client.
Write ==
    /\ pc = "write"
    /\ IF client THEN Goto("ticker") /\ todo' = Markets
                 ELSE Goto("failed") /\ UNCHANGED todo
    /\ answer' = <<>>
    /\ Anew
    /\ UNCHANGED <<chain, blocks, view, asked, entry, client>>

\* External: the client of a WebSocket goes away.
Leave ==
    /\ view = "socket"
    /\ client' = FALSE
    /\ UNCHANGED <<chain, blocks, view, pc, asked, todo, entry, answer, past, failed>>

HandlerStep == \/ GetPositions \/ Fails
               \/ BalanceOf \/ SkipPosition \/ GetMarkPrice \/ GetLiquidationPrice
               \/ GetTraderRisk \/ GetIsSafe
               \/ QuoteMark \/ QuoteRate \/ ChainTicker
               \/ Gathered \/ Write \/ Reply

Next == \/ AskPositions \/ AskRisk \/ AskMarkets \/ AskTickers
        \/ HandlerStep
        \/ Leave
        \/ Block

Spec == Init /\ [][Next]_vars

\* A handler's calls return, with an answer or an error.
LiveSpec == Spec /\ WF_vars(HandlerStep)

-----------------------------------------------------------------------------
(* Properties.                                                             *)

\* A position closed between the call that lists it and the call that reads
\* it never leads into the division by its size, which would be a panic.
NoDivisionByZero == pc /= "panic"

\* What the calls for a contract may have answered since the request: what it
\* held then, or nothing, if a call failed.
Missing(value) == IF failed THEN {value} ELSE {}

MarksOf(p) == {c[p].mark : c \in past}

RatesOf(p) == {c[p].rate : c \in past}

LiquidationsOf(p) == {LiquidationPrice(c, p) : c \in past}

PositionsOf(p) ==
    {[perp |-> p, paper |-> c[p].paper, credit |-> c[p].credit, mark |-> mark,
      liq |-> liq, price |-> EntryPrice(c[p].paper, c[p].credit)] :
        c \in {d \in past : d[p].paper /= 0},
        mark \in MarksOf(p) \cup Missing(Nil),
        liq \in LiquidationsOf(p) \cup Missing(Nil)}

QuotesOf(p) ==
    {[perp |-> p, mark |-> mark, rate |-> rate] :
        mark \in MarksOf(p) \cup Missing(Nil), rate \in RatesOf(p) \cup Missing(Nil)}

TickersOf(p) == {[perp |-> p, mark |-> mark] : mark \in MarksOf(p) \cup Missing(0)}

\* The contracts with a position ever since the request.
OpenThroughout == {p \in Perps : \A c \in past : c[p].paper /= 0}

\* Whatever blocks come and calls fail between the calls of a request, its answer
\* has nothing but what was so at some time since.  Positions: each of the right
\* contract, none twice, and without a failure all that were open throughout.
\* Risk: the figures of one block, and "safe" only if it was so in a block.
\* Markets and tickers: each asked for, in place, with its own price.  So an
\* answer that no block and no failure came between is a picture of one block.
AnswersWereTrue ==
    pc \in {"answered", "write"} =>
        CASE view = "positions" ->
                /\ \A i \in DOMAIN answer : \E p \in Perps : answer[i] \in PositionsOf(p)
                /\ \A i, j \in DOMAIN answer : answer[i].perp = answer[j].perp => i = j
                /\ failed \/ \A p \in OpenThroughout :
                                \E i \in DOMAIN answer : answer[i].perp = p
          [] view = "risk" ->
                /\ answer[1] \in {RiskInfo(TraderRisk[c]) : c \in past}
                /\ answer[2] \in {IsSafe(c) : c \in past} \cup Missing(FALSE)
          [] view = "markets" ->
                /\ Len(answer) = Len(asked)
                /\ \A i \in DOMAIN asked : answer[i] \in QuotesOf(asked[i])
          [] OTHER ->
                /\ Len(answer) = Len(asked)
                /\ \A i \in DOMAIN asked : answer[i] \in TickersOf(asked[i])

\* The handler of a WebSocket whose client has gone comes to an end, whatever
\* the node answers.
StreamEnds == ~client ~> pc = "idle"

=============================================================================
