----------------------------- MODULE Settlement -----------------------------
(***************************************************************************)
(* The submit loop of the matching engine (submitTrades, submitBatch and   *)
(* applyFillStatus in src/internal/engine/matchengine.go) with the two     *)
(* tables it writes and the blockchain it sends transactions to.           *)
(*                                                                         *)
(* The environment is CreateOrder, which inserts the rows, and the engine, *)
(* here the abstract FillLedger: a trade of the ledger between orders with *)
(* a row is appended to pendingTrades.  The chain is external: a           *)
(* transaction that was accepted is mined in some later block, whether or  *)
(* not the process that sent it still runs.  Whether the contract accepted *)
(* or reverted the trade is left out: the loop only logs rec.Status, and a *)
(* reverted trade is applied and recorded like any other.  Batches only    *)
(* group the log lines and are left out too.                               *)
(*                                                                         *)
(* The submit loop is the only writer of order rows once they are          *)
(* inserted; the row is still read and written back by two statements.     *)
(***************************************************************************)
EXTENDS OrderData, SequencesExt

CONSTANTS HasChain,    \* svcCtx.Chain /= nil
          Faults,      \* which calls may fail: a subset of {"db", "rpc"}
          Encodable    \* orders BuildMatchTradeData can encode

ASSUME HasChainAssumption == HasChain \in BOOLEAN
ASSUME FaultsAssumption == Faults \subseteq {"db", "rpc"}

VARIABLES
    traded,         \* the ledger: order -> amount ever put in a trade
    pendingTrades,  \* as in MatchEngine
    work,           \* what is left of the slice submitTrades took
    spc,            \* where submitBatch is with the first trade of work
    tx,             \* its locals txHash and blockNum
    total,          \* the new filled amount applyFillStatus computed
    row,            \* table orders: order -> status and filled_amount
    tradeRows,      \* table trades, in the order of the inserts
    chain           \* external: the transactions the chain accepted

vars == <<traded, pendingTrades, work, spc, tx, total, row, tradeRows, chain>>

Pending == "Pending"
PartialFill == "PartialFill"
Filled == "Filled"

Rows == [status : {Pending, PartialFill, Filled}, filled : Nat]

NewRow == [status |-> Pending, filled |-> 0]

\* txHash and blockNum.  A hash is the place of its transaction on the chain;
\* 0 is the empty string, and the block number of what is not mined.
TxInfo == [hash : Nat, block : Nat]

NoTx == [hash |-> 0, block |-> 0]

FL == INSTANCE FillLedger

Trade0 == Head(work)

\* The order whose row applyFillStatus is at, taker first.
Leg == IF spc \in {"readTaker", "writeTaker"} THEN Trade0.taker ELSE Trade0.maker

Init ==
    /\ FL!Init
    /\ pendingTrades = <<>>
    /\ work = <<>>
    /\ spc = "idle"
    /\ tx = NoTx
    /\ total = 0
    /\ row = [o \in {} |-> NewRow]
    /\ tradeRows = <<>>
    /\ chain = <<>>

-----------------------------------------------------------------------------
\* CreateOrder inserts the row of an order.
InsertRow(o) ==
    /\ o \notin DOMAIN row
    /\ row' = [x \in DOMAIN row \cup {o} |-> IF x = o THEN NewRow ELSE row[x]]
    /\ UNCHANGED <<traded, pendingTrades, work, spc, tx, total, tradeRows, chain>>

\* The engine emits a trade (MatchEngine, ImplementsLedger); it has no order
\* that was not inserted (Exchange, SettlementRefined).
Match(b, s) ==
    /\ {b, s} \subseteq DOMAIN row
    /\ FL!Trade(b, s)
    /\ pendingTrades' = Append(pendingTrades, MatchResult(b, s, FL!Volume(b, s)))
    /\ UNCHANGED <<work, spc, tx, total, row, tradeRows, chain>>

\* Mutant: a single trade waits for company.
SubmitTradesFull ==
    /\ spc = "idle"
    /\ Len(pendingTrades) > 1
    /\ work' = pendingTrades
    /\ pendingTrades' = <<>>
    /\ spc' = "build"
    /\ UNCHANGED <<traded, tx, total, row, tradeRows, chain>>

\* submitTrades: swap the slice out, then go through it.
SubmitTrades ==
    /\ spc = "idle"
    /\ pendingTrades /= <<>>
    /\ work' = pendingTrades
    /\ pendingTrades' = <<>>
    /\ spc' = "build"
    /\ UNCHANGED <<traded, tx, total, row, tradeRows, chain>>

\* Mutant: txHash and blockNum are declared in front of the loop.
NextTradeKeeps ==
    /\ work' = Tail(work)
    /\ spc' = IF Tail(work) = <<>> THEN "idle" ELSE "build"
    /\ total' = 0
    /\ UNCHANGED tx

\* On to the next trade; tx and total are locals of the loop body.
NextTrade ==
    /\ work' = Tail(work)
    /\ spc' = IF Tail(work) = <<>> THEN "idle" ELSE "build"
    /\ tx' = NoTx
    /\ total' = 0

\* BuildMatchTradeData, or nothing at all without a chain client.  A trade
\* that cannot be encoded is skipped altogether.
Build ==
    /\ spc = "build"
    /\ IF HasChain /\ ~({Trade0.taker, Trade0.maker} \subseteq Encodable)
       THEN NextTrade
       ELSE /\ spc' = IF HasChain THEN "send" ELSE "readTaker"
            /\ UNCHANGED <<work, tx, total>>
    /\ UNCHANGED <<traded, pendingTrades, row, tradeRows, chain>>

Accepted == chain' = Append(chain, [trade |-> Trade0, block |-> 0])

\* SubmitPerpTrade returned a transaction: wait for it to be mined.
Send ==
    /\ spc = "send"
    /\ Accepted
    /\ tx' = [tx EXCEPT !.hash = Len(chain) + 1]
    /\ spc' = "wait"
    /\ UNCHANGED <<traded, pendingTrades, work, total, row, tradeRows>>

\* SubmitPerpTrade failed, before the node took the transaction or after.
SendFails ==
    /\ spc = "send"
    /\ "rpc" \in Faults
    /\ chain' = chain \/ Accepted
    /\ spc' = "readTaker"
    /\ UNCHANGED <<traded, pendingTrades, work, tx, total, row, tradeRows>>

\* WaitMined returns only with a receipt: its context has no deadline.
WaitMined ==
    /\ spc = "wait"
    /\ chain[tx.hash].block > 0
    /\ tx' = [tx EXCEPT !.block = chain[tx.hash].block]
    /\ spc' = "readTaker"
    /\ UNCHANGED <<traded, pendingTrades, work, total, row, tradeRows, chain>>

-----------------------------------------------------------------------------
(* applyFillStatus for the taker, then for the maker.                      *)

\* Mutant: the maker is forgotten.
AfterLegRecord(pc) == "record"

AfterLeg(pc) == IF pc \in {"readTaker", "writeTaker"} THEN "readMaker" ELSE "record"

Min2(i, j) == IF i < j THEN i ELSE j

\* Mutant: filled_amount is overwritten, not added to.
FindRowForgets ==
    /\ spc \in {"readTaker", "readMaker"}
    /\ total' = Min2(Trade0.amount, Size(Leg))
    /\ spc' = IF spc = "readTaker" THEN "writeTaker" ELSE "writeMaker"
    /\ UNCHANGED <<traded, pendingTrades, work, tx, row, tradeRows, chain>>

FindRow ==
    /\ spc \in {"readTaker", "readMaker"}
    /\ Leg \in DOMAIN row
    /\ total' = Min2(row[Leg].filled + Trade0.amount, Size(Leg))
    /\ spc' = IF spc = "readTaker" THEN "writeTaker" ELSE "writeMaker"
    /\ UNCHANGED <<traded, pendingTrades, work, tx, row, tradeRows, chain>>

\* The query failed or there is no row: applyFillStatus returns.
FindRowFails ==
    /\ spc \in {"readTaker", "readMaker"}
    /\ Leg \notin DOMAIN row \/ "db" \in Faults
    /\ spc' = AfterLeg(spc)
    /\ UNCHANGED <<traded, pendingTrades, work, tx, total, row, tradeRows, chain>>

\* Mutant: the status is decided by the amount of this trade alone.
StatusForDelta(o, t) == IF Trade0.amount >= Size(o) THEN Filled ELSE PartialFill

StatusFor(o, t) == IF t >= Size(o) THEN Filled ELSE PartialFill

\* Mutant: both rows get the taker's new amount.
WriteRowTaker ==
    /\ spc \in {"writeTaker", "writeMaker"}
    /\ row' = [o \in DOMAIN row |->
                 IF o \in {Trade0.taker, Trade0.maker}
                 THEN [status |-> StatusFor(o, total), filled |-> total] ELSE row[o]]
    /\ spc' = AfterLeg(spc)
    /\ UNCHANGED <<traded, pendingTrades, work, tx, total, tradeRows, chain>>

WriteRow ==
    /\ spc \in {"writeTaker", "writeMaker"}
    /\ row' = [row EXCEPT ![Leg] = [status |-> StatusFor(Leg, total), filled |-> total]]
    /\ spc' = AfterLeg(spc)
    /\ UNCHANGED <<traded, pendingTrades, work, tx, total, tradeRows, chain>>

\* UpdateStatus failed; its error is ignored.
WriteRowFails ==
    /\ spc \in {"writeTaker", "writeMaker"}
    /\ "db" \in Faults
    /\ spc' = AfterLeg(spc)
    /\ UNCHANGED <<traded, pendingTrades, work, tx, total, row, tradeRows, chain>>

\* The row has the hash and the block number, but not how the trade ended.
Record ==
    /\ spc = "record"
    /\ tradeRows' = Append(tradeRows, [trade |-> Trade0, tx |-> tx])
    /\ NextTrade
    /\ UNCHANGED <<traded, pendingTrades, row, chain>>

\* The insert into trades failed, or was refused: the trade id is made of the
\* second and the clock's last digits, and uk_trade_id forbids one that is
\* taken.  Only a log line tells.
RecordFails ==
    /\ spc = "record"
    /\ "db" \in Faults \/ tradeRows /= <<>>
    /\ NextTrade
    /\ UNCHANGED <<traded, pendingTrades, row, tradeRows, chain>>

-----------------------------------------------------------------------------
\* External: the next block of the chain that has transactions of the process
\* has those of I.
Mine(I) ==
    /\ \A i \in I : chain[i].block = 0
    /\ \E b \in 1..Len(chain) :
          /\ \A i \in DOMAIN chain : chain[i].block < b
          /\ b = 1 \/ \E i \in DOMAIN chain : chain[i].block = b - 1
          /\ chain' = [i \in DOMAIN chain |->
                         IF i \in I THEN [chain[i] EXCEPT !.block = b] ELSE chain[i]]
    /\ UNCHANGED <<traded, pendingTrades, work, spc, tx, total, row, tradeRows>>

\* Mutant: what was under way is taken up again from the start.
RestartResumes ==
    /\ pendingTrades' = <<>>
    /\ spc' = IF work = <<>> THEN "idle" ELSE "build"
    /\ tx' = NoTx
    /\ total' = 0
    /\ UNCHANGED <<traded, work, row, tradeRows, chain>>

\* The process dies or stops: stopCh ends the loop without draining anything,
\* and what was taken or still pending is gone.
Restart ==
    /\ pendingTrades' = <<>>
    /\ work' = <<>>
    /\ spc' = "idle"
    /\ tx' = NoTx
    /\ total' = 0
    /\ UNCHANGED <<traded, row, tradeRows, chain>>

SubmitStep == \/ SubmitTrades \/ Build
              \/ Send \/ SendFails \/ WaitMined
              \/ FindRow \/ FindRowFails
              \/ WriteRow \/ WriteRowFails
              \/ Record \/ RecordFails

MineStep == \E I \in (SUBSET DOMAIN chain) \ {{}} : Mine(I)

Step == \/ \E o \in Orders : InsertRow(o)
        \/ \E b, s \in Orders : Match(b, s)
        \/ SubmitStep
        \/ MineStep

Next == Step \/ Restart

Spec == Init /\ [][Next]_vars

-----------------------------------------------------------------------------
(* Properties.                                                             *)

TypeOK ==
    /\ traded \in [Orders -> Nat]
    /\ pendingTrades \in Seq(Trades)
    /\ work \in Seq(Trades)
    /\ spc \in {"idle", "build", "send", "wait", "readTaker", "writeTaker",
                "readMaker", "writeMaker", "record"}
    /\ work = <<>> <=> spc = "idle"
    /\ tx \in TxInfo
    /\ total \in Nat
    /\ DOMAIN row \subseteq Orders
    /\ \A o \in DOMAIN row : row[o] \in Rows
    /\ tradeRows \in Seq([trade : Trades, tx : TxInfo])
    /\ chain \in Seq([trade : Trades, block : Nat])

\* status and filled_amount of a row say the same: GET /orders and the query
\* for pending orders read one or the other.
StatusAgrees ==
    \A o \in DOMAIN row :
        LET r == row[o] IN
        /\ r.status = Filled <=> r.filled = Size(o) /\ r.filled > 0
        /\ r.status = Pending <=> r.filled = 0

\* The database never shows more of an order filled than the engine traded,
\* whatever fails or restarts between the two.
RowsBehindLedger == \A o \in DOMAIN row : row[o].filled <= traded[o]

\* filled_amount only grows, and a filled order stays filled.
FillsOnlyGrow ==
    [][\A o \in DOMAIN row : /\ row'[o].filled >= row[o].filled
                             /\ row[o].status = Filled => row'[o].status = Filled]_vars

\* One emitted trade is sent to the chain at most once and recorded at most
\* once: nothing is ever retried.  (A pair of orders trades at most once,
\* since a trade uses up one of the two.)
NothingTwice ==
    /\ \A i, j \in DOMAIN chain : chain[i].trade = chain[j].trade => i = j
    /\ \A i, j \in DOMAIN tradeRows : tradeRows[i].trade = tradeRows[j].trade => i = j

SentBefore(i, j) ==
    \E k, l \in DOMAIN chain : /\ chain[k].trade = tradeRows[i].trade
                               /\ chain[l].trade = tradeRows[j].trade
                               /\ k < l

Hash(i) == tradeRows[i].tx.hash

Block(i) == tradeRows[i].tx.block

\* The trades table is in the order of the transactions, also of those whose
\* hash it does not have.  A hash it has is that of the row's own trade, never
\* that of the trade before, and comes with the block it was mined in; as each
\* is waited for before the next is sent, the blocks go up from row to row.
RecordsFollowChain ==
    /\ \A i, j \in DOMAIN tradeRows : SentBefore(i, j) => i < j
    /\ \A i \in DOMAIN tradeRows : Hash(i) > 0 =>
          /\ Hash(i) \in DOMAIN chain
          /\ chain[Hash(i)] = [trade |-> tradeRows[i].trade, block |-> Block(i)]
          /\ Block(i) > 0
    /\ \A i, j \in DOMAIN tradeRows :
          i < j /\ Hash(i) > 0 /\ Hash(j) > 0 => Block(i) < Block(j)

\* What a trade adds to the fills of o, and what the trades of q add in all.
Part(t, o) == IF o \in {t.taker, t.maker} THEN t.amount ELSE 0

SumFor(o, q) ==
    LET upTo[n \in 0..Len(q)] == IF n = 0 THEN 0 ELSE upTo[n - 1] + Part(q[n], o)
    IN upTo[Len(q)]

\* applyFillStatus is done with the row of o, but not submitBatch with the trade.
Passed(o) == \/ spc \in {"readMaker", "writeMaker", "record"} /\ o = Trade0.taker
             \/ spc = "record" /\ o = Trade0.maker

\* The trades of which the row of o does not yet show the effect.
WaitingFor(o) == (IF Passed(o) THEN Tail(work) ELSE work) \o pendingTrades

\* Without faults and restarts the rows lag behind the ledger by exactly the
\* trades that wait, whatever the receipts say (line 292 says so).
NothingLost == \A o \in DOMAIN row : row[o].filled + SumFor(o, WaitingFor(o)) = traded[o]

\* ... and they catch up: every amount traded is eventually in the row.
FillsArrive ==
    \A o \in Orders : \A n \in 1..Size(o) :
        traded[o] >= n ~> (o \in DOMAIN row /\ row[o].filled >= n)

=============================================================================
