# A verification of perp-backend

perp-backend is the off-chain half of a perpetual futures exchange: an HTTP
service that takes signed orders, matches them in memory, has a contract settle
the trades, and keeps MySQL tables of what happened. This directory holds TLA+
models of it, the TLC configurations that check them and TLAPS proofs. Paths
below are relative to `src/`; the line numbers are those of the modelled commit.

## 1. The system

### 1.1 Components

| Component | State | Operations | Talks to |
|---|---|---|---|
| Order creation `internal/logic/order/createorderlogic.go` | none of its own; a goroutine per request | `CreateOrder`: expiry, fields, digest, signature, look up, insert, `AddOrder`, answer | `orders` table, engine |
| Order encoding `internal/chain/eip712.go`, `tradedata.go` | none | parse fields, pack `info`, digest (= order id), decode and check signatures, trade data | used by order creation and the submit loop |
| Match engine `internal/engine/matchengine.go` | `orderBooks` (under `mu` and one lock per book), `remain` (`remMu`), `pendingTrades` (`tradeMu`) | `AddOrder`; `matchLoop`/`match`/`matchOrderBook` every 100 ms | submit loop, through `pendingTrades` |
| Submit loop, same file | the slice it took; nothing persistent | every second: `submitTrades`, `submitBatch`, `applyFillStatus` | contract, `orders` and `trades` tables |
| Funding rate keeper `internal/engine/fundingratekeeper.go` | none between ticks | every 8 h: read index and prices, compute, `updateFundingRate`, record | contract, Chainlink, `funding_rates` table |
| Transaction sending `internal/chain/client.go` | the one account's key | `SubmitPerpTrade`, `SubmitFundingRateUpdate`: nonce, gas price, send | node |
| Chain queries, same file | none | one `eth_call` of the latest block each | node |
| Chain views `internal/logic/position`, `internal/logic/market`, ticker WebSocket `internal/handler/market/ws_ticker.go` | what the answer has so far | `GetPositions`, `GetRiskInfo`, `ListMarkets`, `GetMarket`, `GetTicker`, the push loop: several queries each | node, client |
| Order list `internal/logic/order/listorderslogic.go`, `FindByTrader` in `internal/model/order.go` | none | a count and a page of a signer's orders | `orders` table |
| Other read-only handlers `internal/logic/...` | none | answer from one table or one query | tables, node |
| Liquidator `internal/engine/liquidator.go`, cancel order, several lists | none | stubs: they do nothing | - |
| Tables `internal/model`, `doc/sql/schema.sql` | `orders`, `trades`, `funding_rates`; others without a writer | insert, find, update | MySQL |
| Process `metanode.go`, `internal/svc` | the objects above | wire up, start, stop | - |

One order goes: request -> row in `orders` -> `remain` and a book -> trades in
`pendingTrades` -> a transaction each -> the filled amounts of two rows and a
row in `trades`. Only rows and transactions survive the process; nothing is read
back when it starts again (`FindPendingOrders` has no caller).

### 1.2 What is hard about it

- Handlers, match loop and submit loop run concurrently, and every operation is
  cut into several locked sections: `AddOrder` into two, one trade of a pass into
  three, one settled trade into up to nine calls.
- Every database and RPC call may fail, before or after it took effect, and all
  errors after the insert of the row are logged and dropped.
- The process may stop between any two of these.
- Two goroutines send transactions from one account without a lock.
- The funding keeper sends absolute values computed from what it read earlier.
- A client reads a list in pages, each of two queries, while rows are inserted and
  updated between them, and rows of one second have no order.
- One answer of a chain view takes several queries, between which the chain goes
  on, and each of which may fail and be left out.
- Prices, ids, fees and rates are integer arithmetic with rounding, packing and
  fixed widths, on texts that are parsed twice by different rules.

### 1.3 What makes each part correct

- Order creation: an order reaches the engine at most once, and only after its row
  is there; a client told of success finds it there; a row whose order never got
  there is one of a request that ended badly.
- Encoding: an id stands for what an order says; the contract, the engine and the
  client mean the same order by it.
- Engine: remaining amounts and books agree; no order is filled beyond its size; a
  trade respects price, time, perpetual and both limits; a pass leaves no crossing
  orders but behind one of size 0; everything emitted is a trade of an abstract ledger.
- Submit loop: rows never run ahead of what was traded and catch up if nothing
  fails; status and amount of a row agree; nothing is sent or recorded twice;
  a trade's row has the hash and block of its own transaction.
- Funding: an update replaces the index it was computed from and moves it by no
  more than the configured maximum, but for updates that overlap; only what was sent
  is recorded.
- Order list: a walk through the pages misses nothing that was there all along.
- Account: nonces leave no gap, a goroutine's calls get to the chain once and in
  order, a receipt waited for comes.
- Chain views: an answer has nothing but what was so at some time since the request,
  each part in its place; no change of the chain makes a handler panic; a stream ends after its client has gone.

## 2. The modules

| Module | Models | Composition |
|---|---|---|
| `OrderData` | orders as data: size, side, price, order of a book, what `sort.Slice` may do | extended by the next ones |
| `FillLedger` | abstract: two orders trade, neither beyond its size | implemented by `MatchEngine`, environment of `Settlement` |
| `MatchEngine` | the engine up to the hand-over of trades | |
| `Settlement` | submit loop, both tables, transactions | |
| `CreateOrder` | the handler from request to answer | |
| `OrderPages` | a client's walk through `GET /api/v1/orders` | extends `CreateOrder`, whose steps go on meanwhile |
| `Exchange` | engine, settlement and handlers over one table, with restarts | INSTANCEs `MatchEngine`, `Settlement`, `CreateOrder` |
| `OrderCodec` | what the texts of a request become | |
| `FundingRate` | the keeper and the chain's index | |
| `ChainAccount` | the shared account | |
| `ChainViews` | the handlers that answer from several chain queries | |
| `MatchEngineProofs`, `SettlementProofs`, `OrderPagesProofs`, `OrderCodecProofs`, `FundingRateProofs`, `ChainAccountProofs`, `ChainViewsProofs` | theorems | |
| `ExchangeProofs` | theorems about `CreateOrder` and `Exchange` | INSTANCEs `MatchEngineProofs`, `SettlementProofs` |
| `MC*` | small instances for TLC | |

An action is one locked section, one call of the database or the node, or one
step of the environment; the comment at each says which lines. Names are those of
the code; `mpc`, `spc`, `hpc` and `pc` say where a goroutine is.

**MatchEngine.** `AddRemain` and `AddToBook` are the two sections of `AddOrder`;
the second needs `e.mu`, which a pass holds from `StartPass` to `EndPass`.
`PickBook` takes any book that is left (map iteration). `Scan` is the copy of the
two remaining amounts with the exits of the loop, `Emit` the append to
`pendingTrades`, `Deduct` the section that subtracts and removes filled heads.
`TakePending` is the submit loop's swap. The match loop is the only one that
removes orders, and a book is locked by the pass, so reads of a book between
these steps need no steps of their own. `submitted`, `arrived` and `matched` are
history: what came in, in which order, and how much was ever traded. The guard of
`AddRemain` (never twice the same order) is `CreateOrder`'s promise, checked in
`Exchange` as `AddedOnce`.

**Settlement.** `row` maps orders to status and filled amount. One trade goes
through `Build`, `Send`, `WaitMined`, then `FindRow`/`WriteRow` for taker and maker,
then `Record`, each call with its failing variant where `Faults` has it. Batches
only cut the loop into pieces and are left out. `tx` is what the loop knows of a
trade's transaction, its hash (here the place in `chain`) and its block: nothing
else gets into the trade's row, as the receipt's status is only logged. `chain` is
external: a block takes in any transactions that wait, also after a restart; that
the contract reverts one changes nothing for this code and is left out. `Encodable`
is a parameter since the engine takes orders without asking whether they encode; the
handler refuses those that do not.

**CreateOrder.** Requests run concurrently; `Acceptable` stands for the checks
`OrderCodec` has in detail. `Insert` and `InsertFails` respect the unique key.

**OrderPages.** A client asks for page after page until one is not full, and asks
again after an error. `Count` and `List` are the two queries of a page; `List` puts
rows of one second in any order, another one each time. `born` is the time a
handler takes when the request comes in, which `HandlersStep` stores with the row,
perhaps after rows that came in later. `Fill` is the submit loop's update, which
takes an order out of a list of pending ones. `shrunk` and `quiet` are history:
whether a listed order lost its status, and whether nothing changed at all.

**Exchange.** A step of one part leaves the others' variables alone except where
they meet: a handler's two steps inside `AddOrder` are the engine's, the submit
loop's first step takes the engine's slice, and `Restart` is all three restarts.

**OrderCodec.** Texts are a value, a spelling and a leading blank; the id is the
tuple the digest is computed from. `hasChain` decides whether signatures are
checked. What the contract decodes is the reference definition. `EngineOrder` is
the order the engine makes of the same texts, which it parses again by another
rule, an order as `OrderData` has them.

**FundingRate.** A settlement is a step per call. Marks and indexes are arbitrary
answers, a failed mark is 0, a failed feed is a second read of the mark, as in the
code. `chain` holds sent updates, which are mined in their order at any later time,
after the next settlement as well as before it; mining one writes `index`, unless it
is reverted. `missed` is history: the updates that were pending when the index was
read.

**ChainAccount.** Two senders, each: get nonce, send, perhaps wait. The node takes
a transaction with a free nonce, replaces a pending one if the price is at least
`Bump` percent higher, refuses it otherwise, and mines in the order of nonces. A
transaction whose sending failed is in `late`: it may arrive at any later time
(`Arrive`), after others of its sender or after a restart, or never.

**ChainViews.** One handler at a time, as they touch nothing of one another; a
query is an action that gives what the contract holds then, or an error. `Block`
changes what a contract holds at any moment. What a contract computes of a trader
is the parameter `TraderRisk`, any function of what the contracts hold. `Leave` is a
WebSocket's client going away. `past` and `failed` are history: the states of the
chain since the request, and whether a call failed since. That no chain client is
configured, and a position's market name, are left out.

## 3. What is checked

Runs are started with `tlc -config <cfg> <module>`.

| Run (cfg) | Shows | Instance and bounds |
|---|---|---|
| `MCMatchEngine` | `TypeOK`, `RemainIsOpen`, `RemainAccounts`, `NoOverfill`, `TradesWithinLimits`, `HeadsHaveRemain`, `PassUncrosses`, `PricePriority`, `TimePriority`, and the ledger is implemented | six orders, two perpetuals: two sells of one price, partial fills on both sides, a better buy, a sell that only that one accepts, a sell whose price is rounded (it asks 2.5), a sell of size 0; the other perpetual's book is empty |
| `MCSettlement` | `StatusAgrees`, `RowsBehindLedger`, `NothingTwice`, `RecordsFollowChain`, `FillsOnlyGrow` | four crossing orders, two of them filled by two trades, one that cannot be encoded; all faults, restarts |
| `MCOrderPages` | `NoneMissed`, `QuietWalkIsList` | two requests, four orders of which two have rows at the start, perhaps of one second, and one is of another perpetual and expires; pages of one and of two, all and pending orders, faults, restarts |
| `MCExchange` | `RowsAreHanded`, `AddedOnce`, `FillsWithinSigned`, `FilledIsGone`; handlers and engine are an environment `Settlement` allows | a buy of 2 and a sell of 1 that cross (one trade), three requests, faults, restarts |
| `MCExchangeLive` | `RequestsAnswered`, `AcceptedTrade`, `FillsArrive`; `SuccessInEngine`, `NothingLost` | that buy and two sells of 1, at its price and at a lower one, which together fill it (two trades); three requests; no faults, no restarts |
| `MCOrderCodec` | `ContractReadsRequest`, `SignedOrderOnce`, `DuplicateExists`, `ReadAlike` | fourteen requests at the ends of the ranges, in several spellings, buys and sells of one market, limits with a blank; words of 2 bits, amounts of 3 |
| `MCFundingRate` | `NoUpdateLost`, `StepWithinLimit`, `RecordedWasSent` | two markets, one with a feed, two settlements, the updates of the first mined before, during or after the second; all faults, restarts |
| `MCChainAccount` | `NoGap`, `SentOnceInOrder`, `WaitEnds` | two senders, three calls of the submit loop and two of the keeper, two gas prices of which one replaces the other, transactions that come late |
| `MCChainViews` | `NoDivisionByZero`, `AnswersWereTrue`, `StreamEnds` | two contracts, both markets; no, a long and a short position; two blocks |

Orders enter at most once, so the number of orders bounds every behaviour of the
first five; the other counters are bounded by `MaxTime` (clock ticks), `MaxRounds`
(settlements), `MaxCalls` (sends) and `MaxBlocks` (blocks). The bounds are enough in this sense: an
interaction inside the engine needs at most two orders on one side of a book, a third
that takes from both, and one more actor that interferes (`MCMatchEngine`,
`MCSettlement`); two updates to overwrite one another; three sends for a gap and a
replacement; a page that is full, with a row that comes in above it before the next;
one block to close a position between two queries, and a second to open it again.
`MCExchange` is smaller: a buy and a sell and at most one trade, since a third order
with faults and restarts takes it beyond what can be searched; what it adds to the
other runs is how the parts meet, and `ExchangeProofs` proves its properties for any
orders. The liveness properties have no proof behind them: `AcceptedTrade`,
`RequestsAnswered` and `FillsArrive` hold for what `MCExchangeLive` has, three orders,
of which two compete for the third. `Precision`, `Scale`, `Word` and
`Wide` are small: the code's are powers of ten and two, and the instances are
chosen so that quotients are rounded and words are full.

### 3.1 Fairness

Safety is checked without fairness. `Exchange!LiveSpec` has no restart and no
fault, as the code promises nothing otherwise, and assumes
- weak fairness of the handlers' calls, of the match loop and of the submit loop:
  the tickers fire and nothing else holds these goroutines up. Some handler that can
  go on goes on: less than fairness to each, and enough, as a request takes a few
  steps;
- strong fairness of the second section of `AddOrder`, again of some one of those that
  wait: they wait for a lock that passes take again and again, and `sync.RWMutex` lets
  a waiting writer go before later readers;
- weak fairness of mining: `WaitMined` is called with a context without a deadline.
`ChainAccount!LiveSpec` keeps restarts and faults, and is weakly fair to senders and
to mining. `ChainViews!LiveSpec` is weakly fair to the handler: a query returns,
with an answer or an error, and `time.Sleep` ends. Nothing is assumed of blocks or
of the client.

Deadlock is not checked: every bounded instance ends when its orders or calls are
used up, and a service without requests is idle.

### 3.2 Disagreements between the code and what it says

Each is a run that TLC ends with a counterexample.

- `MCMatchEngineUnstable`, `TimePriority`: README.md:149 promises price-time
  priority; `sort.Slice` (matchengine.go:119) is stable only up to 12 elements. The
  instance sets that length (`StableMax`) to 2 to keep the book small.
- `MCFundingRateDecimal`, `StepWithinLimit`: etc/metanode.yaml:75 sets
  `MaxRate: "0.001"`; fundingratekeeper.go:182 reads it as an integer, fails, and
  applies no limit.
- `MCOrderCodecSignature`, `SupportedSignature`: tradedata.go:127 supports v as 0 or
  1; the decoder makes 27 or 28 of it, which `crypto.SigToPub` (line 116) refuses.
  With a chain client no order gets in, so `Settlement` with a chain describes what
  the loop does once that is repaired.

Also met, and not a run: an amount of `" 5"` is 5 for the digest and the table, but
`absPaperString` (matchengine.go:89) does not trim and makes a sell of size 0 of it,
as `calculatePrice` makes a price of 0 of a limit with a blank (`ReadAlike` says
what still holds);
an order of size 0 is accepted, sorts before all sells at
price 0 and can be neither traded nor removed (matchengine.go:205), so no pass gets
beyond it in its book until a restart: `MCMatchEngine` has such an order, and
`HeadsHaveRemain` and `PassUncrosses` name it as the one exception; an update of the
funding rate that is mined after the next settlement has read the index is undone by
that one's (`NoUpdateLost` says that no other is); a reverted trade's row looks like
any other's, which the comment at matchengine.go:292 owns to; a keeper's
transaction may replace the trade's, and the submit loop then waits for ever
(`ChainAccount`, `IsReplaced`); an insert whose answer is lost leaves an order that
is neither in the engine nor can be sent again (`RowsAreHanded` says what else may).

## 4. What is proved

`tlapm` checks every proof to its leaves. The theorems hold for every value of the
constants that satisfies the named assumptions of the modules.

**MatchEngineProofs.** `Invariance` proves `Spec => []IInv`. The invariant has four
parts. `TypeOK`. `BookInv`: an order is at most once in the books, on its side and
in its book; `remain` has exactly the orders being added or booked; books are
sorted. `AmountInv`: what is left plus what was traded plus, between emit and
deduct, the amount under way is the size; and while the match loop is there, the
heads and the amount it read are still the heads and the minimum - which is why
the unlocked stretch is harmless. `TradesWithinLimits`. From it follow the
invariants of the run, `PricePriority`, `NoAnomaly` and `PassComplete`, the last two
with a size of 0 as the exception they name: an order of a positive size that has
nothing left has left its book (`Left`), so the head the code calls an anomaly is one
signed with nothing in it. `RefinesLedger` maps `matched` to the ledger: `Emit`
is a trade, all other steps stutter. The lemmas on prices, sorting and sequences
come first.

`OldestTradesFirst` proves `TimePriority` under `ShortBooks`, that no side of a book
ever is longer than what `sort.Slice` sorts by insertion (`StableMax`, 12 in Go);
that it needs this is what `MCMatchEngineUnstable` shows. Its invariant says that
an order arrives once and that in a book, of two orders with one price, the earlier
comes first (`BooksByAge`): a new order is appended, and a stable sort moves it only
past orders of another price.

`RemainAddsUp` sums up the parts of `AmountInv`. For the composition, `Left` says
that what is not left of a booked order was traded.

**FundingRateProofs.** An update carries the result and not the change, so what
counts is what happens to an index between its reading and the update's taking effect.
The invariant says (`ReadOf`) that all that is still pending before an update was
pending when its index was read, and that the index is the one read or was moved by
one of these. Updates are mined in their order, so when one takes effect nothing
pending is before it: `UpdatesAddUp`, however late. `LimitHolds` also assumes that the
limit is an integer; its other half is that no row goes further than it
(`WithinLimit`). `RatesWereSent`: `RecordInv` says that what is about to be recorded
stands on the chain.

**OrderCodecProofs.** `PairInjective` (a number is determined by quotient and
remainder) three times gives `InfoInjective`; with `CutInjective` for amounts, ids
are equal exactly if orders say the same (`IdIsMeaning`). With the invariant that
ids in the table differ, `OnceWhateverSpelling` and `NoFalseDuplicate` follow.
`NothingLostInPacking` divides the packed word by each field's weight in turn and
gets the field back, the signed ones by their sign. So the contract reads what was
written, and `EngineReadsAlike` compares the engine's reading with that.

**SettlementProofs.** `Rowed` says that no row shows more than its order's size and
that the sum about to be written is still the one the row gives: the submit loop is
the only writer, so the two statements of `applyFillStatus` are as good as one.
`Waiting` says that the trades under way are of positive amounts. They make
`StatusAlwaysAgrees` and `FillsNeverShrink` inductive, whatever fails. The other
theorems need a past that no variable holds: `History` says that there is a
sequence `G` of all trades there ever were, whose last ones are those that wait,
that transactions and table rows follow it in order with gaps where a call failed
or the process restarted, and that each row shows no more than the ledger did after
the trades that were applied to it. From it follow `RowsNeverAhead` and
`NothingIsRetried`. For `RecordsTellTheChain` a second
invariant, `Told`, says what the loop knows of its transaction (`TxTold`), that a row's
hash and block are those of its own trade (`RowTold`), and that the transaction under
way is not mined yet or above all blocks in the table: the loop waits for each before
it sends the next, and what is mined later is in a later block (`ChainGoesOn`).

`NothingIsLost` is the converse of `RowsNeverAhead`: without faults and restarts,
and if the orders with a row encode, a row is behind the ledger by exactly what
waits for it. `NothingLost` adds that up with a recursive function over the trades
that wait. Induction theorems cannot be instantiated here, so `SumsExist` shows that
there is no shortest beginning without running sums (`Least`), and `SumIs` that
these are what the recursion gives; `SumAppend` and `SumTail` say what a trade that is added or
finished changes. `Levels` is the invariant: while a row is being written, the sum
about to be written takes the place of what the row shows.

**OrderPagesProofs.** The rank of an order is the number of listed orders that are
newer. In any listing that puts newer orders first, an order that shares its second
with no other stands at its rank (a count of the orders above it). As long as no
listed order is taken away, ranks only grow, so an order that was there at the start
and was not seen lies beyond the pages read so far (`NotPassed`), and when the last
page is not full there is none: `NothingMissed`. While the table does not change,
what was seen is at its ranks (`QuietSoFar`), which makes the pages side by side the
list: `QuietWalkReadsList`. Both hold for any page size and any rows.

**ExchangeProofs.** First the handlers alone: the key is `AddsAlone`, of one order
at most one request is past its insert, and no order that was handed over has such
a request; the unique key makes it so when two requests insert. Then the whole:
each of its steps is a step of the engine or none, and likewise for handlers and
settlement, so that what was proved of each holds here. `SameOrders` says that the
engine got what the handlers handed over, which turns `AddedAtMostOnce` into
`NeverAddedAgain`, the guard the engine's model has. `TableAndEngineAgree` follows a
row from its insert to the hand-over: `Explained` says that until then a handler is
about to do it or ended badly. `SettlementIsRefined` shows
that engine and handlers are an environment `Settlement` allows: a deduction is a
trade that does not overfill, since the amount under way is of the two heads.
`FillsAreSigned` and `FilledHasLeft` join a row that is behind the ledger with a
ledger that is within the sizes and with `Left`. `SuccessMeansHeld` is under
`LiveSpec`, as a restart drops what the engine held. So is `NothingIsLost`, with
`Faults = {}` and, if there is a chain, acceptable orders that can be encoded:
`RowsAcceptable` then has what the settlement's theorem asks for.

**ChainAccountProofs.** `UpTo(k)` says where the pending nonces end and that nobody
was told a later one, transactions on their way included; `CallsFresh` that the
call a sender is at has sent nothing yet; `InOrder` that a later call of a sender
never has a smaller nonce. A replacement takes a nonce over and frees none, so
`NoncesLeaveNoGap` and `CallsKeepOrder` hold for any number of senders.

**ChainViewsProofs.** `NeverDividesByZero`: the size that `BalanceOf` tested is the
one the division uses, and the later queries never read it again (`Divisible`).
`AnswersAreTrue` follows the loops: what a handler has gathered is what the contracts
held, at some time since the request, for the first entries of its list, and the rest
of the list is what it still asks for (`Through`). A position's entry is assembled from
three calls and may be of three blocks (`AtEntry`); the list names every position that
was open, so unless a call failed those open throughout are gathered or still to come
(`InPositions`). What was true stays so as `past` grows (`More`). Contracts, their number
and what they compute of a trader (`TraderRisk`) are arbitrary.

Every safety property of the passing runs is stated by a theorem. What stays with
TLC is liveness under fairness (`AcceptedTrade`, `RequestsAnswered`, `FillsArrive`,
`WaitEnds`, `StreamEnds`), which is out of this prover's reach. The hypotheses that
single theorems need are `ShortBooks` (`OldestTradesFirst`), an integer limit
(`LimitHolds`), and no faults or restarts (`SuccessMeansHeld`, `NothingIsLost`).
Section 3.2 says what happens when books are long or the limit is a decimal.

## 5. What is not modelled

- Stubs (cancel order, liquidator, klines, order book, several lists): they change
  nothing.
- Tables without a writer (positions, deposits, withdrawals, liquidations,
  markets, klines).
- `GetOrder` and `GetBalance`, which answer from one query.
- Hashing, curve arithmetic, ABI encoding: external, taken to be injective or
  unforgeable.
- The contract's own checks (expiry, margin, exact price), and whether it reverts: the submit loop only
  logs it, and settles a reverted trade like any other.
- Gas estimates, configuration, routing, logging.
- The expiry of an order after it was accepted: the code never looks again.

## 6. Plan

Done: the order path (`OrderData`, `FillLedger`, `MatchEngine`, `Settlement`,
`CreateOrder`, `Exchange`), `OrderCodec`, `FundingRate`, `ChainAccount`,
`ChainViews`, `OrderPages`, and the proofs above. Next, in this order:

1. Model: expiry together with the contract's check; `ChainAccount` composed with
   `Settlement` and `FundingRate`, whose trades and updates compete for nonces.
2. Prove: what `ChainAccountProofs` says of one sender's calls, carried over to the
   trades and updates of that composition as `ExchangeProofs` does for the engine.
