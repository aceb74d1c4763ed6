-------------------------- MODULE SettlementProofs --------------------------
(***************************************************************************)
(* Proofs about Settlement, whatever fails and when it restarts.  From     *)
(* what a single state says: status and filled amount of a row agree, and  *)
(* fills only grow.  From the history of all emitted trades, which no      *)
(* variable holds: rows stay behind the ledger, nothing is sent or         *)
(* recorded twice, and the trades table tells what the chain did.  Last,   *)
(* from the sums of what waits: without faults nothing is lost.            *)
(***************************************************************************)
EXTENDS Settlement, SequenceTheorems, FiniteSetTheorems, WellFoundedInduction, TLAPS

\* Sizes and prices are natural numbers whatever the signs of the fields.
LEMMA SizePriceType ==
    ASSUME NEW o \in Orders
    PROVE  Size(o) \in Nat /\ Price(o) \in Nat /\ SideOf(o) \in Side
<1>1. o.paper \in Int /\ o.credit \in Int BY OrdersAssumption
<1>2. Size(o) \in Nat BY <1>1 DEF Size, AbsVal
<1>3. SideOf(o) \in Side BY DEF SideOf, Side
<1>4. Price(o) \in Nat
  <2>1. CASE o.paper = 0 BY <2>1 DEF Price
  <2>2. CASE o.paper /= 0
    <3>1. Size(o) > 0 BY <1>1, <2>2 DEF Size, AbsVal
    <3>2. AbsVal(o.credit) \in Nat BY <1>1 DEF AbsVal
    <3> DEFINE c == AbsVal(o.credit) * Precision
    <3>3. c \in Nat BY <3>2, PrecisionAssumption
    <3> HIDE DEF c
    <3>4. c \div Size(o) \in Nat BY <3>1, <3>3, <1>2
    <3> QED BY <3>4, <2>2 DEF Price, c
  <2> QED BY <2>1, <2>2
<1> QED BY <1>2, <1>3, <1>4

\* What a trade of the ledger is: a positive amount of two sized orders.
RealTrades == {t \in Trades : t.amount > 0 /\ Size(t.taker) > 0 /\ Size(t.maker) > 0}

\* What the chain and the trades table are sequences of.
Sent == [trade : Trades, block : Nat]

Recorded == [trade : Trades, tx : TxInfo]

\* The trades that wait are real; a transaction that was sent is on the chain.
Waiting ==
    /\ pendingTrades \in Seq(RealTrades)
    /\ work \in Seq(RealTrades)
    /\ spc = "wait" => tx.hash \in 1..Len(chain)

Writing == spc \in {"writeTaker", "writeMaker"}

\* No row shows more than its order's size, and what is about to be written is
\* still computed from what the row says: nobody else writes between the two.
Rowed ==
    /\ \A o \in DOMAIN row : row[o].filled <= Size(o)
    /\ Writing => /\ Leg \in DOMAIN row
                  /\ total = Min2(row[Leg].filled + Trade0.amount, Size(Leg))

IInv == TypeOK /\ StatusAgrees /\ Waiting /\ Rowed

-----------------------------------------------------------------------------

LEMMA HeadIsReal ==
    ASSUME IInv, spc /= "idle"
    PROVE  /\ Trade0 \in RealTrades /\ Tail(work) \in Seq(RealTrades)
           /\ Leg \in Orders /\ Leg \in {Trade0.taker, Trade0.maker}
           /\ Size(Leg) \in Nat /\ Size(Leg) > 0
           /\ Trade0.amount \in Nat /\ Trade0.amount > 0
<1>1. work \in Seq(RealTrades) /\ work /= <<>> BY DEF IInv, TypeOK, Waiting
<1>2. Trade0 \in RealTrades /\ Tail(work) \in Seq(RealTrades)
  BY <1>1, HeadTailProperties DEF Trade0
<1>3. Leg \in {Trade0.taker, Trade0.maker} BY DEF Leg
<1>4. Trade0.taker \in Orders /\ Trade0.maker \in Orders /\ Trade0.amount \in Nat
  BY <1>2 DEF RealTrades, Trades
<1> QED BY <1>2, <1>3, <1>4, SizePriceType DEF RealTrades

LEMMA RealAreTrades == \A q \in Seq(RealTrades) : q \in Seq(Trades)
BY SeqMonotonic DEF RealTrades

LEMMA InitInv == Init => IInv
<1> SUFFICES ASSUME Init PROVE IInv
  OBVIOUS
<1>1. pendingTrades \in Seq(RealTrades) /\ work \in Seq(RealTrades) BY DEF Init
<1>2. TypeOK BY DEF Init, TypeOK, FL!Init, TxInfo, NoTx
<1>3. StatusAgrees /\ Waiting /\ Rowed
  BY <1>1 DEF Init, StatusAgrees, Waiting, Rowed, Writing
<1> QED BY <1>2, <1>3 DEF IInv

\* What changes neither a row nor where the loop is changes nothing they say.
LEMMA RowsKeep ==
    ASSUME IInv, UNCHANGED <<row, spc, work, total>>
    PROVE  StatusAgrees' /\ Rowed'
BY DEF IInv, StatusAgrees, Rowed, Writing, Leg, Trade0

LEMMA InsertRowInv ==
    ASSUME IInv, NEW o \in Orders, InsertRow(o)
    PROVE  IInv'
<1>1. Size(o) \in Nat BY SizePriceType
<1>2. TypeOK' BY DEF IInv, TypeOK, InsertRow, NewRow, Rows
<1>3. Waiting' BY DEF IInv, Waiting, InsertRow
<1>4. StatusAgrees'
  BY <1>1 DEF IInv, StatusAgrees, InsertRow, NewRow, Pending, Filled
<1>5. Rowed'
  BY <1>1 DEF IInv, Rowed, Writing, Leg, Trade0, InsertRow, NewRow
<1> QED BY <1>2, <1>3, <1>4, <1>5 DEF IInv

LEMMA MatchInv ==
    ASSUME IInv, NEW b \in Orders, NEW s \in Orders, Match(b, s)
    PROVE  IInv'
<1> DEFINE v == FL!Volume(b, s)
           t == MatchResult(b, s, v)
<1>1. /\ Size(b) \in Nat /\ Size(s) \in Nat /\ Price(s) \in Nat
      /\ traded[b] \in Nat /\ traded[s] \in Nat /\ traded \in [Orders -> Nat]
  BY SizePriceType DEF IInv, TypeOK
<1>0. FL!Size(b) = Size(b) /\ FL!Size(s) = Size(s)
  BY DEF FL!Size, FL!AbsVal, Size, AbsVal
<1>2. v > 0 /\ v \in Nat /\ Size(b) > 0 /\ Size(s) > 0
  BY <1>1, <1>0 DEF Match, FL!Trade, FL!Volume, FL!Open
<1>3. traded' = [traded EXCEPT ![b] = @ + v, ![s] = @ + v]
  BY DEF Match, FL!Trade
<1> HIDE DEF v
<1>4. traded' \in [Orders -> Nat] BY <1>1, <1>2, <1>3
<1>5. t \in RealTrades BY <1>1, <1>2 DEF RealTrades, Trades, MatchResult
<1> HIDE DEF t
<1>6. pendingTrades' = Append(pendingTrades, t) BY DEF Match, t, v
<1>7. pendingTrades' \in Seq(RealTrades)
  BY <1>5, <1>6, AppendProperties DEF IInv, Waiting
<1>8. UNCHANGED <<work, spc, tx, total, row, tradeRows, chain>> BY DEF Match
<1>9. TypeOK' BY <1>4, <1>7, <1>8, RealAreTrades DEF IInv, TypeOK
<1>10. Waiting' BY <1>7, <1>8 DEF IInv, Waiting
<1> QED BY <1>8, <1>9, <1>10, RowsKeep DEF IInv

LEMMA SubmitTradesInv ==
    ASSUME IInv, SubmitTrades
    PROVE  IInv'
<1>1. pendingTrades' = <<>> /\ pendingTrades' \in Seq(RealTrades)
  BY DEF SubmitTrades
<1>2. work' \in Seq(RealTrades) /\ work' /= <<>> /\ spc' = "build"
  BY DEF SubmitTrades, IInv, Waiting
<1>3. UNCHANGED <<traded, tx, total, row, tradeRows, chain>> BY DEF SubmitTrades
<1>4. TypeOK' BY <1>1, <1>2, <1>3, RealAreTrades DEF IInv, TypeOK
<1>5. Waiting' BY <1>1, <1>2, <1>3 DEF IInv, Waiting, SubmitTrades
<1>6. StatusAgrees' BY <1>3 DEF IInv, StatusAgrees
<1>7. Rowed' BY <1>2, <1>3 DEF IInv, Rowed, Writing
<1> QED BY <1>4, <1>5, <1>6, <1>7 DEF IInv

\* The end of one trade, whatever is recorded of it.
LEMMA NextTradeInv ==
    ASSUME IInv, spc /= "idle", NextTrade,
           UNCHANGED <<traded, pendingTrades, row, chain>>,
           tradeRows' \in Seq(Recorded)
    PROVE  IInv'
<1>1. work' \in Seq(RealTrades) BY HeadIsReal DEF NextTrade
<1>2. /\ spc' \in {"idle", "build"} /\ tx' \in TxInfo /\ total' = 0
      /\ work' = <<>> <=> spc' = "idle"
  BY DEF NextTrade, TxInfo, NoTx
<1>3. TypeOK' BY <1>1, <1>2, RealAreTrades DEF IInv, TypeOK, Recorded
<1>4. Waiting' BY <1>1, <1>2 DEF IInv, Waiting
<1>5. StatusAgrees' BY DEF IInv, StatusAgrees
<1>6. Rowed' BY <1>2 DEF IInv, Rowed, Writing
<1> QED BY <1>3, <1>4, <1>5, <1>6 DEF IInv

LEMMA BuildInv ==
    ASSUME IInv, Build
    PROVE  IInv'
<1>1. spc = "build" /\ UNCHANGED <<traded, pendingTrades, row, tradeRows, chain>>
  BY DEF Build
<1>2. CASE NextTrade BY <1>1, <1>2, NextTradeInv DEF IInv, TypeOK, Recorded
<1>3. CASE UNCHANGED <<work, tx, total>> /\ spc' \in {"send", "readTaker"}
  <2>1. TypeOK' BY <1>1, <1>3 DEF IInv, TypeOK
  <2>2. Waiting' BY <1>1, <1>3 DEF IInv, Waiting
  <2>3. StatusAgrees' BY <1>1 DEF IInv, StatusAgrees
  <2>4. Rowed' BY <1>1, <1>3 DEF IInv, Rowed, Writing
  <2> QED BY <2>1, <2>2, <2>3, <2>4 DEF IInv
<1> QED BY <1>2, <1>3 DEF Build

-----------------------------------------------------------------------------
(* The chain.                                                              *)

LEMMA AcceptedChain ==
    ASSUME IInv, spc /= "idle", Accepted
    PROVE  /\ chain \in Seq(Sent) /\ Len(chain) \in Nat
           /\ chain' \in Seq(Sent) /\ Len(chain') = Len(chain) + 1
           /\ \A i \in 1..Len(chain) : chain'[i] = chain[i]
           /\ chain'[Len(chain) + 1] = [trade |-> Trade0, block |-> 0]
<1> DEFINE e == [trade |-> Trade0, block |-> 0]
<1>1. e \in Sent BY HeadIsReal DEF RealTrades, Sent
<1>2. chain \in Seq(Sent) /\ Len(chain) \in Nat
  BY LenProperties DEF IInv, TypeOK, Sent
<1>3. chain' = Append(chain, e) BY DEF Accepted
<1> HIDE DEF e
<1>4. /\ chain' \in Seq(Sent) /\ Len(chain') = Len(chain) + 1
      /\ \A i \in 1..Len(chain) : chain'[i] = chain[i]
      /\ chain'[Len(chain) + 1] = e
  BY <1>1, <1>2, <1>3, AppendProperties
<1> QED BY <1>2, <1>4 DEF e

LEMMA SendInv ==
    ASSUME IInv, Send \/ SendFails
    PROVE  IInv'
<1>1. /\ spc = "send" /\ UNCHANGED <<traded, pendingTrades, work, total, row, tradeRows>>
      /\ spc' \in {"wait", "readTaker"}
      /\ spc' = "wait" => Accepted /\ tx' = [tx EXCEPT !.hash = Len(chain) + 1]
      /\ spc' = "readTaker" => tx' = tx /\ (chain' = chain \/ Accepted)
  BY DEF Send, SendFails
<1>2. /\ chain' \in Seq(Sent)
      /\ spc' = "wait" => Len(chain') = Len(chain) + 1 /\ Len(chain) \in Nat
  BY <1>1, AcceptedChain DEF IInv, TypeOK, Sent
<1>3. tx \in TxInfo BY DEF IInv, TypeOK
<1>4. tx' \in TxInfo /\ (spc' = "wait" => tx'.hash \in 1..Len(chain'))
  BY <1>1, <1>2, <1>3 DEF TxInfo
<1>5. TypeOK' BY <1>1, <1>2, <1>4 DEF IInv, TypeOK, Sent
<1>6. Waiting' BY <1>1, <1>4 DEF IInv, Waiting
<1>7. StatusAgrees' BY <1>1 DEF IInv, StatusAgrees
<1>8. Rowed' BY <1>1 DEF IInv, Rowed, Writing
<1> QED BY <1>5, <1>6, <1>7, <1>8 DEF IInv

LEMMA WaitMinedInv ==
    ASSUME IInv, WaitMined
    PROVE  IInv'
<1>1. spc = "wait" /\ spc' = "readTaker"
      /\ UNCHANGED <<traded, pendingTrades, work, total, row, tradeRows, chain>>
  BY DEF WaitMined
<1>2. tx' \in TxInfo
  <2>1. chain \in Seq(Sent) /\ tx.hash \in 1..Len(chain) /\ tx \in TxInfo
    BY <1>1 DEF IInv, TypeOK, Waiting, Sent
  <2>2. chain[tx.hash] \in Sent BY <2>1, ElementOfSeq
  <2> QED BY <2>1, <2>2 DEF WaitMined, TxInfo, Sent
<1>3. TypeOK' BY <1>1, <1>2 DEF IInv, TypeOK
<1>4. Waiting' BY <1>1 DEF IInv, Waiting
<1>5. StatusAgrees' BY <1>1 DEF IInv, StatusAgrees
<1>6. Rowed' BY <1>1 DEF IInv, Rowed, Writing
<1> QED BY <1>3, <1>4, <1>5, <1>6 DEF IInv

\* A block gives the transactions it takes a number above all given so far.
LEMMA MineChain ==
    ASSUME IInv, NEW I, Mine(I)
    PROVE  /\ chain \in Seq(Sent) /\ Len(chain) \in Nat
           /\ chain' \in Seq(Sent) /\ Len(chain') = Len(chain)
           /\ \A i \in 1..Len(chain) : chain'[i].trade = chain[i].trade
           /\ \E b \in Nat :
                 /\ \A i \in 1..Len(chain) : chain[i].block \in Nat /\ chain[i].block < b
                 /\ \A i \in 1..Len(chain) :
                       \/ chain'[i] = chain[i]
                       \/ chain[i].block = 0 /\ chain'[i].block = b
<1>1. chain \in Seq(Sent) /\ Len(chain) \in Nat /\ DOMAIN chain = 1..Len(chain)
  BY LenProperties DEF IInv, TypeOK, Sent
<1>2. \A i \in 1..Len(chain) : chain[i] \in Sent BY <1>1, ElementOfSeq
<1>3. PICK b \in 1..Len(chain) :
        /\ \A i \in 1..Len(chain) : chain[i].block < b
        /\ chain' = [i \in 1..Len(chain) |->
                       IF i \in I THEN [chain[i] EXCEPT !.block = b] ELSE chain[i]]
  BY <1>1 DEF Mine
<1>4. b \in Nat BY <1>1, <1>3
<1>5. \A i \in 1..Len(chain) :
        /\ chain'[i] \in Sent /\ chain'[i].trade = chain[i].trade
        /\ chain'[i] = chain[i] \/ (i \in I /\ chain'[i].block = b)
  BY <1>2, <1>3, <1>4 DEF Sent
<1>6. \A i \in I : chain[i].block = 0 BY DEF Mine
<1>7. chain' \in Seq(Sent) /\ Len(chain') = Len(chain)
  <2>1. chain' \in [1..Len(chain) -> Sent] BY <1>3, <1>5
  <2>2. chain' \in Seq(Sent) BY <2>1, <1>1, SeqDef
  <2> QED BY <2>1, <2>2, <1>1, LenProperties
<1>8. \A i \in 1..Len(chain) : chain[i].block \in Nat BY <1>2 DEF Sent
<1> QED BY <1>1, <1>3, <1>4, <1>5, <1>6, <1>7, <1>8

LEMMA MineInv ==
    ASSUME IInv, NEW I, Mine(I)
    PROVE  IInv'
<1>1. UNCHANGED <<traded, pendingTrades, work, spc, tx, total, row, tradeRows>>
  BY DEF Mine
<1>2. chain' \in Seq(Sent) /\ Len(chain') = Len(chain) BY MineChain
<1>3. TypeOK' BY <1>1, <1>2 DEF IInv, TypeOK, Sent
<1>4. Waiting' BY <1>1, <1>2 DEF IInv, Waiting
<1> QED BY <1>1, <1>3, <1>4, RowsKeep DEF IInv

-----------------------------------------------------------------------------
(* The two tables.                                                         *)

LEMMA FindRowInv ==
    ASSUME IInv, FindRow
    PROVE  IInv'
<1>1. /\ spc \in {"readTaker", "readMaker"} /\ spc' \in {"writeTaker", "writeMaker"}
      /\ spc' = "writeTaker" <=> spc = "readTaker"
      /\ UNCHANGED <<traded, pendingTrades, work, tx, row, tradeRows, chain>>
      /\ Leg \in DOMAIN row
      /\ total' = Min2(row[Leg].filled + Trade0.amount, Size(Leg))
  BY DEF FindRow
<1>2. Leg' = Leg /\ Trade0' = Trade0 BY <1>1 DEF Leg, Trade0
<1>3. total' \in Nat
  <2>1. row[Leg].filled \in Nat BY <1>1 DEF IInv, TypeOK, Rows
  <2>2. Trade0.amount \in Nat /\ Size(Leg) \in Nat BY <1>1, HeadIsReal
  <2> QED BY <1>1, <2>1, <2>2 DEF Min2
<1>4. TypeOK' BY <1>1, <1>3 DEF IInv, TypeOK
<1>5. Waiting' BY <1>1 DEF IInv, Waiting
<1>6. StatusAgrees' BY <1>1 DEF IInv, StatusAgrees
<1>7. Rowed'
  <2>1. \A o \in DOMAIN row' : row'[o].filled <= Size(o) BY <1>1 DEF IInv, Rowed
  <2>2. /\ Leg' \in DOMAIN row'
        /\ total' = Min2(row'[Leg'].filled + Trade0'.amount, Size(Leg'))
    BY <1>1, <1>2
  <2> QED BY <2>1, <2>2 DEF Rowed
<1> QED BY <1>4, <1>5, <1>6, <1>7 DEF IInv

LEMMA LegFailsInv ==
    ASSUME IInv, FindRowFails \/ WriteRowFails
    PROVE  IInv'
<1>1. /\ spc \in {"readTaker", "readMaker", "writeTaker", "writeMaker"}
      /\ spc' \in {"readMaker", "record"}
      /\ UNCHANGED <<traded, pendingTrades, work, tx, total, row, tradeRows, chain>>
  BY DEF FindRowFails, WriteRowFails, AfterLeg
<1>2. TypeOK' BY <1>1 DEF IInv, TypeOK
<1>3. Waiting' BY <1>1 DEF IInv, Waiting
<1>4. StatusAgrees' BY <1>1 DEF IInv, StatusAgrees
<1>5. Rowed' BY <1>1 DEF IInv, Rowed, Writing
<1> QED BY <1>2, <1>3, <1>4, <1>5 DEF IInv

\* The one step that writes a row: the amount grows up to the size, and the
\* status is the one that goes with it.
LEMMA WriteRowFacts ==
    ASSUME IInv, WriteRow
    PROVE  /\ Leg \in DOMAIN row /\ row[Leg].filled \in Nat
           /\ row' = [row EXCEPT ![Leg] = [status |-> StatusFor(Leg, total), filled |-> total]]
           /\ total \in Nat /\ total > 0
           /\ row[Leg].filled <= total /\ total <= Size(Leg)
           /\ row[Leg].status = Filled => total = Size(Leg)
           /\ StatusFor(Leg, total) = IF total = Size(Leg) THEN Filled ELSE PartialFill
<1>1. Writing /\ spc /= "idle" BY DEF WriteRow, Writing
<1>2. /\ Leg \in DOMAIN row /\ total = Min2(row[Leg].filled + Trade0.amount, Size(Leg))
      /\ row[Leg].filled <= Size(Leg)
  BY <1>1 DEF IInv, Rowed
<1>3. row[Leg].filled \in Nat BY <1>2 DEF IInv, TypeOK, Rows
<1>4. Size(Leg) \in Nat /\ Size(Leg) > 0 /\ Trade0.amount \in Nat /\ Trade0.amount > 0
  BY <1>1, HeadIsReal
<1>5. /\ total \in Nat /\ total > 0 /\ row[Leg].filled <= total /\ total <= Size(Leg)
      /\ row[Leg].filled = Size(Leg) => total = Size(Leg)
  BY <1>2, <1>3, <1>4 DEF Min2
<1>6. row[Leg].status = Filled => row[Leg].filled = Size(Leg)
  BY <1>2 DEF IInv, StatusAgrees
<1>7. StatusFor(Leg, total) = IF total = Size(Leg) THEN Filled ELSE PartialFill
  BY <1>4, <1>5 DEF StatusFor
<1> QED BY <1>2, <1>3, <1>5, <1>6, <1>7 DEF WriteRow

LEMMA WriteRowInv ==
    ASSUME IInv, WriteRow
    PROVE  IInv'
<1>1. /\ spc \in {"writeTaker", "writeMaker"} /\ spc' \in {"readMaker", "record"}
      /\ UNCHANGED <<traded, pendingTrades, work, tx, total, tradeRows, chain>>
  BY DEF WriteRow, AfterLeg
<1> DEFINE r == [status |-> StatusFor(Leg, total), filled |-> total]
<1>2. row' = [row EXCEPT ![Leg] = r] /\ Leg \in DOMAIN row
  BY WriteRowFacts
<1>3. r \in Rows BY WriteRowFacts DEF Rows
<1>4. /\ r.status = Filled <=> r.filled = Size(Leg) /\ r.filled > 0
      /\ r.status = Pending <=> r.filled = 0
      /\ r.filled <= Size(Leg)
  BY WriteRowFacts DEF Filled, PartialFill, Pending
<1> HIDE DEF r
<1>5. /\ DOMAIN row' = DOMAIN row /\ row'[Leg] = r
      /\ \A o \in DOMAIN row : o /= Leg => row'[o] = row[o]
  BY <1>2
<1>6. TypeOK' BY <1>1, <1>2, <1>3, <1>5 DEF IInv, TypeOK
<1>7. Waiting' BY <1>1 DEF IInv, Waiting
<1>8. StatusAgrees' BY <1>4, <1>5 DEF IInv, StatusAgrees
<1>9. Rowed'
  <2>1. \A o \in DOMAIN row' : row'[o].filled <= Size(o)
    BY <1>4, <1>5 DEF IInv, Rowed
  <2> QED BY <1>1, <2>1 DEF Rowed, Writing
<1> QED BY <1>6, <1>7, <1>8, <1>9 DEF IInv

LEMMA RecordInv ==
    ASSUME IInv, Record \/ RecordFails
    PROVE  IInv'
<1> DEFINE e == [trade |-> Trade0, tx |-> tx]
<1>1. /\ spc = "record" /\ NextTrade
      /\ UNCHANGED <<traded, pendingTrades, row, chain>>
      /\ tradeRows' = tradeRows \/ tradeRows' = Append(tradeRows, e)
  BY DEF Record, RecordFails
<1>2. tradeRows \in Seq(Recorded) BY DEF IInv, TypeOK, Recorded
<1>3. e \in Recorded
  <2>1. tx \in TxInfo BY DEF IInv, TypeOK
  <2>2. Trade0 \in Trades BY <1>1, HeadIsReal DEF RealTrades
  <2> QED BY <2>1, <2>2 DEF Recorded
<1> HIDE DEF e
<1>4. Append(tradeRows, e) \in Seq(Recorded) BY <1>2, <1>3, AppendProperties
<1>5. tradeRows' \in Seq(Recorded) BY <1>1, <1>2, <1>4
<1> QED BY <1>1, <1>5, NextTradeInv

LEMMA RestartInv ==
    ASSUME IInv, Restart
    PROVE  IInv'
<1>1. /\ pendingTrades' = <<>> /\ work' = <<>> /\ spc' = "idle"
      /\ tx' \in TxInfo /\ total' = 0 /\ UNCHANGED <<traded, row, tradeRows, chain>>
      /\ pendingTrades' \in Seq(RealTrades) /\ work' \in Seq(RealTrades)
  BY DEF Restart, TxInfo, NoTx
<1>2. TypeOK' BY <1>1, RealAreTrades DEF IInv, TypeOK
<1>3. Waiting' BY <1>1 DEF IInv, Waiting
<1>4. StatusAgrees' BY <1>1 DEF IInv, StatusAgrees
<1>5. Rowed' BY <1>1 DEF IInv, Rowed, Writing
<1> QED BY <1>2, <1>3, <1>4, <1>5 DEF IInv

LEMMA StepInv ==
    ASSUME IInv, [Next]_vars
    PROVE  IInv'
<1>1. CASE UNCHANGED vars
  BY <1>1, RowsKeep DEF vars, IInv, TypeOK, Waiting
<1>2. ASSUME NEW o \in Orders, InsertRow(o) PROVE IInv' BY <1>2, InsertRowInv
<1>3. ASSUME NEW b \in Orders, NEW s \in Orders, Match(b, s) PROVE IInv'
  BY <1>3, MatchInv
<1>4. CASE SubmitStep
  BY <1>4, SubmitTradesInv, BuildInv, SendInv, WaitMinedInv, FindRowInv,
     LegFailsInv, WriteRowInv, RecordInv DEF SubmitStep
<1>5. CASE MineStep BY <1>5, MineInv DEF MineStep
<1>6. CASE Restart BY <1>6, RestartInv
<1> QED BY <1>1, <1>2, <1>3, <1>4, <1>5, <1>6 DEF Next, Step

LEMMA Invariance == Spec => []IInv
<1>1. Init => IInv BY InitInv
<1>2. IInv /\ [Next]_vars => IInv' BY StepInv
<1> QED BY <1>1, <1>2, PTL DEF Spec

-----------------------------------------------------------------------------

\* Whatever fails or restarts between matchOrderBook and the tables, the
\* variables keep their types.
THEOREM TypeCorrect == Spec => []TypeOK
<1>1. IInv => TypeOK BY DEF IInv
<1> QED BY <1>1, Invariance, PTL

\* applyFillStatus never leaves a row whose status and filled_amount disagree.
THEOREM StatusAlwaysAgrees == Spec => []StatusAgrees
<1>1. IInv => StatusAgrees BY DEF IInv
<1> QED BY <1>1, Invariance, PTL

\* Read and written by two statements, filled_amount still never shrinks, and
\* no row comes back from Filled.
THEOREM FillsNeverShrink == Spec => FillsOnlyGrow
<1> DEFINE Grow == \A o \in DOMAIN row :
                      /\ row'[o].filled >= row[o].filled
                      /\ row[o].status = Filled => row'[o].status = Filled
<1>1. IInv /\ [Next]_vars => [Grow]_vars
  <2> SUFFICES ASSUME IInv, Next PROVE Grow
    OBVIOUS
  <2>1. \A o \in DOMAIN row : row[o].filled \in Nat BY DEF IInv, TypeOK, Rows
  <2>2. CASE WriteRow BY <2>1, <2>2, WriteRowFacts
  <2>3. CASE \A o \in DOMAIN row : row'[o] = row[o] BY <2>1, <2>3
  <2>4. ASSUME ~WriteRow PROVE \A o \in DOMAIN row : row'[o] = row[o]
    BY <2>4 DEF Next, Step, SubmitStep, MineStep, InsertRow, Match, SubmitTrades,
       Build, Send, SendFails, WaitMined, FindRow, FindRowFails, WriteRowFails,
       Record, RecordFails, Mine, Restart
  <2> QED BY <2>2, <2>3, <2>4
<1>2. Spec => [][Grow]_vars BY <1>1, Invariance, PTL DEF Spec
<1> QED BY <1>2 DEF FillsOnlyGrow

-----------------------------------------------------------------------------
(* All trades ever emitted, as a sequence G of which submitTrades has done *)
(* with the first k: what waits is the rest of it, the chain and the table *)
(* are parts of it in its order, and the rows show a stage of it.          *)

\* The trades of S are some of the first m of G, in the order of G.
Follows(S, G, m) ==
    \E c \in [1..Len(S) -> 1..m] :
        /\ \A i \in 1..Len(S) : S[i].trade = G[c[i]]
        /\ \A i, j \in 1..Len(S) : i < j => c[i] < c[j]

\* at[i] is the ledger after the first i of n trades.
Stages(G, n, at) ==
    /\ at \in [0..n -> [Orders -> Nat]]
    /\ \A i \in 1..n, o \in Orders : at[i][o] = at[i - 1][o] + Part(G[i], o)
    /\ \A i, j \in 0..n, o \in Orders : i <= j => at[i][o] <= at[j][o]

Emitted(G, k) ==
    /\ G \in Seq(RealTrades) /\ k \in Nat
    /\ Len(G) = k + Len(work) + Len(pendingTrades)
    /\ \A i \in 1..Len(work) : work[i] = G[k + i]
    /\ \A i \in 1..Len(pendingTrades) : pendingTrades[i] = G[k + Len(work) + i]
    /\ \A i \in 1..Len(G) :
          /\ G[i].taker /= G[i].maker
          /\ \E o \in {G[i].taker, G[i].maker} : traded[o] = Size(o)
    /\ \A i, j \in 1..Len(G) : G[i] = G[j] => i = j

\* The first trade of work may be on the chain once its transaction was tried.
Tried(k) == IF spc \in {"idle", "build", "send"} THEN k ELSE k + 1

\* It is in the row of o once applyFillStatus is done with that row.
Applied(o, k) == IF Passed(o) THEN k + 1 ELSE k

RowsOf(G, k) ==
    \E at : /\ Stages(G, Len(G), at) /\ at[Len(G)] = traded
            /\ \A o \in DOMAIN row : row[o].filled <= at[Applied(o, k)][o]

Ghost(G, k) == /\ Emitted(G, k)
               /\ Follows(chain, G, Tried(k))
               /\ Follows(tradeRows, G, k)
               /\ RowsOf(G, k)

History == \E G, k : Ghost(G, k)

-----------------------------------------------------------------------------
(* About the pure definitions.                                             *)

LEMMA FollowsMore ==
    ASSUME NEW S, NEW G, NEW H, NEW m \in Nat, NEW p \in Nat, m <= p,
           Len(S) \in Nat, Follows(S, G, m), \A i \in 1..m : H[i] = G[i]
    PROVE  Follows(S, H, p)
<1>1. PICK c \in [1..Len(S) -> 1..m] :
        /\ \A i \in 1..Len(S) : S[i].trade = G[c[i]]
        /\ \A i, j \in 1..Len(S) : i < j => c[i] < c[j]
  BY DEF Follows
<1>2. c \in [1..Len(S) -> 1..p] BY <1>1
<1>3. \A i \in 1..Len(S) : S[i].trade = H[c[i]] BY <1>1
<1> QED BY <1>1, <1>2, <1>3 DEF Follows

LEMMA FollowsNext ==
    ASSUME NEW X, NEW S \in Seq(X), NEW e \in X, NEW G, NEW m \in Nat,
           Follows(S, G, m), e.trade = G[m + 1]
    PROVE  Follows(Append(S, e), G, m + 1)
<1> DEFINE n == Len(S)
<1>1. PICK c \in [1..n -> 1..m] :
        /\ \A i \in 1..n : S[i].trade = G[c[i]]
        /\ \A i, j \in 1..n : i < j => c[i] < c[j]
  BY DEF Follows
<1>2. PICK R : R = Append(S, e) OBVIOUS
<1>3. n \in Nat /\ Len(R) = n + 1 /\ (\A i \in 1..n : R[i] = S[i]) /\ R[n + 1] = e
  BY <1>2, AppendProperties, LenProperties
<1> HIDE DEF n
<1>4. PICK d : d = [i \in 1..(n + 1) |-> IF i = n + 1 THEN m + 1 ELSE c[i]]
  OBVIOUS
<1>5. /\ \A i \in 1..n : d[i] = c[i] /\ d[i] \in 1..m
      /\ d[n + 1] = m + 1
      /\ d \in [1..(n + 1) -> 1..(m + 1)]
  BY <1>1, <1>3, <1>4
<1>6. \A i \in 1..(n + 1) : i \in 1..n \/ i = n + 1 BY <1>3
<1>7. \A i \in 1..(n + 1) : R[i].trade = G[d[i]] BY <1>1, <1>3, <1>5, <1>6
<1>8. ASSUME NEW i \in 1..(n + 1), NEW j \in 1..(n + 1), i < j
      PROVE  d[i] < d[j]
  <2>1. i \in 1..n BY <1>3, <1>8
  <2>2. CASE j \in 1..n BY <2>1, <2>2, <1>1, <1>5, <1>8
  <2>3. CASE j = n + 1 BY <2>1, <2>3, <1>5
  <2> QED BY <2>2, <2>3, <1>6
<1>9. Follows(R, G, m + 1) BY <1>3, <1>5, <1>7, <1>8 DEF Follows
<1> QED BY <1>2, <1>9

LEMMA FollowsSame ==
    ASSUME NEW S, NEW R, NEW G, NEW m, Follows(S, G, m), Len(R) = Len(S),
           \A i \in 1..Len(S) : R[i].trade = S[i].trade
    PROVE  Follows(R, G, m)
BY DEF Follows

\* more goes on from at with the trade t.
GoesOn(at, n, t, more) ==
    /\ more \in [0..(n + 1) -> [Orders -> Nat]]
    /\ \A i \in 0..n : more[i] = at[i]
    /\ \A o \in Orders : more[n + 1][o] = at[n][o] + Part(t, o)

LEMMA StagesNext ==
    ASSUME NEW n \in Nat, NEW G, NEW H, \A i \in 1..n : H[i] = G[i],
           H[n + 1].amount \in Nat,
           NEW at, Stages(G, n, at),
           NEW more, GoesOn(at, n, H[n + 1], more)
    PROVE  Stages(H, n + 1, more)
<1>1. /\ at \in [0..n -> [Orders -> Nat]]
      /\ \A i \in 1..n, o \in Orders : at[i][o] = at[i - 1][o] + Part(G[i], o)
      /\ \A i, j \in 0..n, o \in Orders : i <= j => at[i][o] <= at[j][o]
  BY DEF Stages
<1> PICK f : f = more[n + 1] OBVIOUS
<1> PICK t : t = H[n + 1] OBVIOUS
<1>2. /\ n \in Nat /\ \A i \in 1..n : H[i] = G[i]
      /\ H[n + 1] = t /\ t.amount \in Nat
      /\ \A o \in Orders : f[o] = at[n][o] + Part(t, o)
  BY DEF GoesOn
<1>4. /\ \A i \in 0..n : more[i] = at[i]
      /\ more[n + 1] = f
      /\ more \in [0..(n + 1) -> [Orders -> Nat]]
  BY DEF GoesOn
<1>5. ASSUME NEW o \in Orders
      PROVE  /\ Part(t, o) \in Nat /\ f[o] \in Nat /\ n \in 0..n
             /\ at[n][o] \in Nat /\ at[n][o] <= f[o]
  <2>1. Part(t, o) \in Nat BY DEF Part
  <2>2. n \in 0..n /\ at[n][o] \in Nat BY <1>1, <1>2
  <2> QED BY <2>1, <2>2, <1>2
<1>6. ASSUME NEW i \in 1..(n + 1), NEW o \in Orders
      PROVE  more[i][o] = more[i - 1][o] + Part(H[i], o)
  <2>1. CASE i \in 1..n
    <3>1. i - 1 \in 0..n /\ i \in 0..n BY <2>1, <1>2
    <3> QED BY <2>1, <3>1, <1>1, <1>2, <1>4
  <2>2. CASE i = n + 1
    <3>1. i - 1 = n /\ n \in 0..n BY <2>2
    <3> QED BY <2>2, <3>1, <1>2, <1>4
  <2> QED BY <2>1, <2>2, <1>2
<1>7. ASSUME NEW i \in 0..(n + 1), NEW j \in 0..(n + 1), NEW o \in Orders, i <= j
      PROVE  more[i][o] <= more[j][o]
  <2>1. CASE j \in 0..n
    <3>1. i \in 0..n BY <2>1, <1>2, <1>7
    <3> QED BY <2>1, <3>1, <1>1, <1>4, <1>7
  <2>2. CASE i \in 0..n /\ j = n + 1
    <3>1. at[i][o] <= at[n][o] /\ at[i][o] \in Nat
      <4>1. i <= n /\ n \in 0..n BY <2>2, <1>2
      <4> QED BY <2>2, <4>1, <1>1
    <3> QED BY <2>2, <3>1, <1>4, <1>5
  <2>3. CASE i = n + 1 /\ j = n + 1 BY <2>3, <1>4, <1>5
  <2> QED BY <2>1, <2>2, <2>3, <1>2, <1>7
<1> QED BY <1>2, <1>4, <1>6, <1>7 DEF Stages

-----------------------------------------------------------------------------
(* The history grows with Match and is only moved along by all the rest.   *)

LEMMA GhostTypes ==
    ASSUME IInv, NEW G, NEW k, Emitted(G, k)
    PROVE  /\ Len(G) \in Nat /\ DOMAIN G = 1..Len(G)
           /\ Len(work) \in Nat /\ Len(pendingTrades) \in Nat /\ k \in 0..Len(G)
           /\ Len(chain) \in Nat /\ DOMAIN chain = 1..Len(chain)
           /\ Len(tradeRows) \in Nat /\ DOMAIN tradeRows = 1..Len(tradeRows)
           /\ \A i \in 1..Len(G) : /\ G[i] \in RealTrades
                                   /\ G[i].taker \in Orders /\ G[i].maker \in Orders
           /\ spc /= "idle" => /\ k + 1 \in 1..Len(G) /\ Trade0 = G[k + 1]
                               /\ Len(work) >= 1
<1>1. /\ G \in Seq(RealTrades) /\ k \in Nat
      /\ Len(G) = k + Len(work) + Len(pendingTrades)
      /\ \A i \in 1..Len(work) : work[i] = G[k + i]
  BY DEF Emitted
<1>2. /\ work \in Seq(RealTrades) /\ pendingTrades \in Seq(RealTrades)
      /\ work = <<>> <=> spc = "idle"
  BY DEF IInv, TypeOK, Waiting
<1>3. /\ Len(G) \in Nat /\ DOMAIN G = 1..Len(G)
      /\ Len(work) \in Nat /\ Len(pendingTrades) \in Nat
  BY <1>1, <1>2, LenProperties
<1>4. /\ Len(chain) \in Nat /\ DOMAIN chain = 1..Len(chain)
      /\ Len(tradeRows) \in Nat /\ DOMAIN tradeRows = 1..Len(tradeRows)
  BY LenProperties DEF IInv, TypeOK
<1>5. \A i \in 1..Len(G) : G[i] \in RealTrades BY <1>1, ElementOfSeq
<1>6. ASSUME spc /= "idle"
      PROVE  k + 1 \in 1..Len(G) /\ Trade0 = G[k + 1] /\ Len(work) >= 1
  <2>1. Len(work) >= 1 BY <1>2, <1>3, <1>6, EmptySeq
  <2>2. Trade0 = work[1] BY DEF Trade0
  <2> QED BY <2>1, <2>2, <1>1, <1>3
<1> QED BY <1>1, <1>3, <1>4, <1>5, <1>6 DEF RealTrades, Trades

\* A new trade is of two orders of which neither is used up, so it differs
\* from all before it; it comes at the end.
LEMMA MatchGhost ==
    ASSUME IInv, NEW b \in Orders, NEW s \in Orders, Match(b, s),
           NEW G, NEW k, Ghost(G, k)
    PROVE  \E H : Ghost(H, k)'
<1> DEFINE n == Len(G)
<1> PICK v : v = FL!Volume(b, s) OBVIOUS
<1> PICK t : t = MatchResult(b, s, v) OBVIOUS
<1> PICK H : H = Append(G, t) OBVIOUS
<1>1. /\ Size(b) \in Nat /\ Size(s) \in Nat /\ Price(s) \in Nat
      /\ traded \in [Orders -> Nat]
  BY SizePriceType DEF IInv, TypeOK
<1>2. FL!Size(b) = Size(b) /\ FL!Size(s) = Size(s)
  BY DEF FL!Size, FL!AbsVal, Size, AbsVal
<1>3. /\ v > 0 /\ v \in Nat /\ traded[b] < Size(b) /\ traded[s] < Size(s)
      /\ v <= Size(b) - traded[b] /\ v <= Size(s) - traded[s]
      /\ v = Size(b) - traded[b] \/ v = Size(s) - traded[s]
  BY <1>1, <1>2 DEF Match, FL!Trade, FL!Volume, FL!Open
<1>4. b /= s
  BY DEF Match, FL!Trade, FL!Tradable, FL!SideOf
<1>5. /\ traded' = [traded EXCEPT ![b] = @ + v, ![s] = @ + v]
      /\ pendingTrades' = Append(pendingTrades, t)
      /\ UNCHANGED <<work, spc, tx, total, row, tradeRows, chain>>
  BY DEF Match, FL!Trade
<1>6. t \in RealTrades /\ t.taker = b /\ t.maker = s /\ t.amount = v
  BY <1>1, <1>3 DEF RealTrades, Trades, MatchResult
<1>7. \A o \in Orders : traded'[o] = traded[o] + Part(t, o)
  BY <1>1, <1>3, <1>4, <1>5, <1>6 DEF Part
<1>8. /\ n \in Nat /\ Len(work) \in Nat /\ Len(pendingTrades) \in Nat /\ k \in 0..n
      /\ \A i \in 1..n : G[i].taker \in Orders /\ G[i].maker \in Orders
  BY GhostTypes DEF Ghost
<1>9. /\ H \in Seq(RealTrades) /\ Len(H) = n + 1
      /\ \A i \in 1..n : H[i] = G[i]
      /\ H[n + 1] = t
  BY <1>6, AppendProperties DEF Ghost, Emitted
<1>10. /\ Len(pendingTrades') = Len(pendingTrades) + 1
       /\ \A i \in 1..Len(pendingTrades) : pendingTrades'[i] = pendingTrades[i]
       /\ pendingTrades'[Len(pendingTrades) + 1] = t
  BY <1>5, <1>6, AppendProperties DEF IInv, Waiting
<1>11. \A i \in 1..(n + 1) : i \in 1..n \/ i = n + 1 BY <1>8
<1>12. \A i \in 1..n : G[i] /= t
  <2> SUFFICES ASSUME NEW i \in 1..n, G[i] = t PROVE FALSE
    OBVIOUS
  <2>1. \E o \in {t.taker, t.maker} : traded[o] = Size(o)
    BY DEF Ghost, Emitted
  <2>2. traded[b] = Size(b) \/ traded[s] = Size(s) BY <2>1, <1>6
  <2> QED BY <2>2, <1>1, <1>3
<1>13. Emitted(H, k)'
  <2>1. Len(H) = k + Len(work') + Len(pendingTrades')
    BY <1>5, <1>8, <1>9, <1>10 DEF Ghost, Emitted
  <2>2. \A i \in 1..Len(work') : work'[i] = H[k + i]
    BY <1>5, <1>8, <1>9 DEF Ghost, Emitted
  <2>3. \A i \in 1..Len(pendingTrades') : pendingTrades'[i] = H[k + Len(work') + i]
    <3> SUFFICES ASSUME NEW i \in 1..(Len(pendingTrades) + 1)
                 PROVE  pendingTrades'[i] = H[k + Len(work) + i]
      BY <1>5, <1>10
    <3>1. n = k + Len(work) + Len(pendingTrades) BY DEF Ghost, Emitted
    <3>2. CASE i = Len(pendingTrades) + 1 BY <3>1, <3>2, <1>8, <1>9, <1>10
    <3>3. CASE i \in 1..Len(pendingTrades)
      <4>1. k + Len(work) + i \in 1..n BY <3>1, <3>3, <1>8
      <4>2. pendingTrades[i] = G[k + Len(work) + i] BY <3>3 DEF Ghost, Emitted
      <4>3. H[k + Len(work) + i] = G[k + Len(work) + i] BY <4>1, <1>9
      <4>4. pendingTrades'[i] = pendingTrades[i] BY <3>3, <1>10
      <4> QED BY <4>2, <4>3, <4>4
    <3>4. i = Len(pendingTrades) + 1 \/ i \in 1..Len(pendingTrades) BY <1>8
    <3> QED BY <3>2, <3>3, <3>4
  <2>4. ASSUME NEW i \in 1..Len(H)
        PROVE  /\ H[i].taker /= H[i].maker
               /\ \E o \in {H[i].taker, H[i].maker} : traded'[o] = Size(o)
    <3>1. CASE i \in 1..n
      <4>1. PICK o \in {G[i].taker, G[i].maker} : traded[o] = Size(o)
        BY <3>1 DEF Ghost, Emitted
      <4>2. o /= b /\ o /= s BY <4>1, <1>1, <1>3
      <4>3. o \in Orders BY <3>1, <4>1, <1>8
      <4>4. traded'[o] = traded[o] BY <4>2, <4>3, <1>1, <1>5
      <4> QED BY <3>1, <4>1, <4>4, <1>9 DEF Ghost, Emitted
    <3>2. CASE i = n + 1
      <4>1. traded'[b] = traded[b] + v /\ traded'[s] = traded[s] + v
        BY <1>1, <1>4, <1>5
      <4>2. traded'[b] = Size(b) \/ traded'[s] = Size(s) BY <4>1, <1>1, <1>3
      <4> QED BY <3>2, <4>2, <1>4, <1>6, <1>9
    <3> QED BY <3>1, <3>2, <1>9, <1>11
  <2>5. ASSUME NEW i \in 1..Len(H), NEW j \in 1..Len(H), H[i] = H[j]
        PROVE  i = j
    <3>1. \A x, y \in 1..n : G[x] = G[y] => x = y BY DEF Ghost, Emitted
    <3>2. (i \in 1..n \/ i = n + 1) /\ (j \in 1..n \/ j = n + 1) BY <1>9, <1>11
    <3>3. CASE i \in 1..n /\ j \in 1..n
      <4>1. G[i] = G[j] BY <3>3, <2>5, <1>9
      <4> QED BY <3>1, <3>3, <4>1
    <3>4. CASE i \in 1..n /\ j = n + 1 BY <3>4, <2>5, <1>9, <1>12
    <3>5. CASE i = n + 1 /\ j \in 1..n BY <3>5, <2>5, <1>9, <1>12
    <3> QED BY <3>2, <3>3, <3>4, <3>5
  <2>6. H \in Seq(RealTrades) /\ k \in Nat BY <1>9 DEF Ghost, Emitted
  <2>7. \A i \in 1..Len(H) :
          /\ H[i].taker /= H[i].maker
          /\ \E o \in {H[i].taker, H[i].maker} : traded'[o] = Size(o)
    BY <2>4
  <2> HIDE DEF n
  <2> QED BY <2>1, <2>2, <2>3, <2>5, <2>6, <2>7 DEF Emitted
<1>14. Follows(chain, H, Tried(k)) /\ Follows(tradeRows, H, k)
  <2>1. Tried(k) \in 0..n /\ \A i \in 1..Tried(k) : H[i] = G[i]
    <3>1. Tried(k) \in 0..n BY <1>8, GhostTypes DEF Tried, Ghost
    <3> QED BY <3>1, <1>8, <1>9
  <2>2. \A i \in 1..k : H[i] = G[i] BY <1>8, <1>9
  <2>3. Len(chain) \in Nat /\ Len(tradeRows) \in Nat BY GhostTypes DEF Ghost
  <2>4. k \in Nat /\ Tried(k) \in Nat BY <2>1, <1>8
  <2>5. Follows(chain, G, Tried(k)) /\ Follows(tradeRows, G, k) BY DEF Ghost
  <2> HIDE DEF n
  <2>6. k <= k /\ Tried(k) <= Tried(k) BY <2>4
  <2>7. Follows(chain, H, Tried(k)) BY <2>1, <2>3, <2>4, <2>5, <2>6, FollowsMore
  <2>8. Follows(tradeRows, H, k) BY <2>2, <2>3, <2>4, <2>5, <2>6, FollowsMore
  <2> QED BY <2>7, <2>8
<1>15. Follows(chain, H, Tried(k))' /\ Follows(tradeRows, H, k)'
  BY <1>5, <1>14 DEF Tried
<1>16. RowsOf(H, k)'
  <2>1. PICK at : /\ Stages(G, n, at) /\ at[n] = traded
                  /\ \A o \in DOMAIN row : row[o].filled <= at[Applied(o, k)][o]
    BY DEF Ghost, RowsOf
  <2>2. PICK f : f = traded' OBVIOUS
  <2>3. f \in [Orders -> Nat] /\ \A o \in Orders : f[o] = at[n][o] + Part(t, o)
    <3>1. ASSUME NEW o \in Orders PROVE f[o] \in Nat
      <4>1. traded[o] \in Nat BY <1>1
      <4>2. Part(t, o) \in Nat BY <1>3, <1>6 DEF Part
      <4> QED BY <4>1, <4>2, <2>2, <1>7
    <3>2. DOMAIN f = Orders /\ f = [o \in Orders |-> f[o]] BY <2>2, <1>1, <1>5
    <3> QED BY <3>1, <3>2, <2>1, <2>2, <1>7
  <2>4. PICK more : more = [i \in 0..(n + 1) |-> IF i = n + 1 THEN f ELSE at[i]]
    OBVIOUS
  <2>7. /\ more \in [0..(n + 1) -> [Orders -> Nat]]
        /\ \A i \in 0..n : more[i] = at[i]
        /\ more[n + 1] = f
    <3>1. at \in [0..n -> [Orders -> Nat]] BY <2>1 DEF Stages
    <3> QED BY <3>1, <2>3, <2>4, <1>8
  <2>8. Stages(H, n + 1, more)
    <3>1. n \in Nat /\ H[n + 1] = t /\ \A i \in 1..n : H[i] = G[i]
      BY <1>8, <1>9
    <3>2. GoesOn(at, n, H[n + 1], more) BY <2>3, <2>7, <3>1 DEF GoesOn
    <3>3. Stages(G, n, at) /\ H[n + 1].amount \in Nat BY <2>1, <3>1, <1>3, <1>6
    <3> HIDE DEF n
    <3> QED BY <3>1, <3>2, <3>3, StagesNext
  <2>5. ASSUME NEW o \in DOMAIN row PROVE row[o].filled <= more[Applied(o, k)][o]
    <3>1. Applied(o, k) \in 0..n BY <1>8, GhostTypes DEF Applied, Passed, Ghost
    <3> QED BY <3>1, <2>1, <2>7
  <2>6. \A o : Applied(o, k)' = Applied(o, k) BY <1>5 DEF Applied, Passed, Trade0
  <2>9. Stages(H, Len(H), more) /\ more[Len(H)] = traded'
    BY <2>2, <2>7, <2>8, <1>9
  <2>10. \A o \in DOMAIN row' : row'[o].filled <= more[Applied(o, k)'][o]
    BY <2>5, <2>6, <1>5
  <2> QED BY <2>9, <2>10 DEF RowsOf
<1> QED BY <1>13, <1>15, <1>16 DEF Ghost

\* What holds of a step that only moves the loop along in the same history.
LEMMA MovedGhost ==
    ASSUME IInv, IInv', NEW G, NEW k, Ghost(G, k), UNCHANGED traded,
           NEW m, k <= m, Emitted(G, m)',
           Follows(chain', G, Tried(m)'), Follows(tradeRows', G, m),
           \A o \in Orders : Applied(o, m)' \in 0..Len(G),
           \A o \in DOMAIN row' :
              \/ row'[o].filled = 0
              \/ /\ o \in DOMAIN row /\ row'[o].filled = row[o].filled
                 /\ Applied(o, k) <= Applied(o, m)'
    PROVE  Ghost(G, m)'
<1> DEFINE n == Len(G)
<1>1. PICK at : /\ Stages(G, n, at) /\ at[n] = traded
                /\ \A o \in DOMAIN row : row[o].filled <= at[Applied(o, k)][o]
  BY DEF Ghost, RowsOf
<1>2. /\ at \in [0..n -> [Orders -> Nat]]
      /\ \A i, j \in 0..n, o \in Orders : i <= j => at[i][o] <= at[j][o]
  BY <1>1 DEF Stages
<1>3. /\ DOMAIN row \subseteq Orders /\ DOMAIN row' \subseteq Orders
      /\ \A o \in DOMAIN row : row[o].filled \in Nat
  BY DEF IInv, TypeOK, Rows
<1>4. \A o \in Orders : Applied(o, k) \in 0..n
  BY GhostTypes DEF Applied, Passed, Ghost
<1>5. ASSUME NEW o \in DOMAIN row'
      PROVE  row'[o].filled <= at[Applied(o, m)'][o]
  <2>1. o \in Orders /\ Applied(o, m)' \in 0..n BY <1>3
  <2>2. PICK q : q = Applied(o, m)' OBVIOUS
  <2>3. q \in 0..n /\ at[q][o] \in Nat BY <2>1, <2>2, <1>2
  <2>4. CASE row'[o].filled = 0 BY <2>2, <2>3, <2>4
  <2>5. CASE /\ o \in DOMAIN row /\ row'[o].filled = row[o].filled
             /\ Applied(o, k) <= Applied(o, m)'
    <3>1. PICK p : p = Applied(o, k) OBVIOUS
    <3>2. p \in 0..n /\ p <= q BY <3>1, <2>1, <2>2, <2>5, <1>4
    <3>3. at[p][o] <= at[q][o] /\ at[p][o] \in Nat BY <3>2, <2>1, <2>3, <1>2
    <3>4. row[o].filled <= at[p][o] /\ row[o].filled \in Nat
      BY <3>1, <2>5, <1>1, <1>3
    <3> QED BY <3>3, <3>4, <2>2, <2>3, <2>5
  <2> QED BY <2>4, <2>5
<1>6. RowsOf(G, m)' BY <1>1, <1>5 DEF RowsOf
<1> QED BY <1>6 DEF Ghost

\* ... and when the trades that wait stay the same, too.
LEMMA StayGhost ==
    ASSUME IInv, IInv', NEW G, NEW k, Ghost(G, k),
           UNCHANGED <<traded, work, pendingTrades, tradeRows>>,
           Follows(chain', G, Tried(k)'),
           \A o \in Orders : Applied(o, k) <= Applied(o, k)',
           \A o \in DOMAIN row' :
              \/ row'[o].filled = 0
              \/ o \in DOMAIN row /\ row'[o].filled = row[o].filled
    PROVE  Ghost(G, k)'
<1>1. Emitted(G, k)' BY DEF Ghost, Emitted
<1>2. k \in 0..Len(G) /\ (spc /= "idle" => k + 1 \in 1..Len(G)) /\ Len(G) \in Nat
  BY GhostTypes DEF Ghost
<1>3. spc' /= "idle" => spc /= "idle" BY DEF IInv, TypeOK
<1>4. \A o \in Orders : Applied(o, k)' \in 0..Len(G) BY <1>2, <1>3 DEF Applied, Passed
<1>5. Follows(tradeRows', G, k) BY DEF Ghost
<1>6. k <= k BY <1>2
<1>7. DOMAIN row' \subseteq Orders BY DEF IInv, TypeOK
<1> QED BY <1>1, <1>4, <1>5, <1>6, <1>7, MovedGhost

\* The chain did not grow, and the loop is no further back.
LEMMA ChainFollows ==
    ASSUME IInv, NEW G, NEW k, Ghost(G, k),
           NEW p \in Nat, Tried(k) <= p,
           Len(chain') = Len(chain),
           \A i \in 1..Len(chain) : chain'[i].trade = chain[i].trade
    PROVE  Follows(chain', G, p)
<1>1. Tried(k) \in Nat /\ Len(chain) \in Nat BY GhostTypes DEF Tried, Ghost
<1>2. Follows(chain, G, Tried(k)) BY DEF Ghost
<1>3. \A i \in 1..Tried(k) : G[i] = G[i] OBVIOUS
<1>4. Follows(chain, G, p) BY <1>1, <1>2, <1>3, FollowsMore
<1> QED BY <1>4, FollowsSame

LEMMA InsertRowGhost ==
    ASSUME IInv, IInv', NEW o \in Orders, InsertRow(o), NEW G, NEW k, Ghost(G, k)
    PROVE  Ghost(G, k)'
<1>1. /\ UNCHANGED <<traded, pendingTrades, work, spc, tradeRows, chain>>
      /\ \A x \in DOMAIN row' : \/ row'[x].filled = 0
                                \/ x \in DOMAIN row /\ row'[x].filled = row[x].filled
  BY DEF InsertRow, NewRow
<1>2. Follows(chain', G, Tried(k)') BY <1>1 DEF Ghost, Tried
<1>3. k \in Nat BY GhostTypes DEF Ghost
<1>4. \A x \in Orders : Applied(x, k) <= Applied(x, k)'
  BY <1>1, <1>3 DEF Applied, Passed, Trade0
<1> QED BY <1>1, <1>2, <1>4, StayGhost

LEMMA MineGhost ==
    ASSUME IInv, IInv', NEW I, Mine(I), NEW G, NEW k, Ghost(G, k)
    PROVE  Ghost(G, k)'
<1>1. UNCHANGED <<traded, pendingTrades, work, spc, row, tradeRows>> BY DEF Mine
<1>2. k \in Nat /\ Tried(k) \in Nat /\ Tried(k)' = Tried(k) /\ Tried(k) <= Tried(k)
  BY <1>1, GhostTypes DEF Ghost, Tried
<1>3. /\ Len(chain') = Len(chain)
      /\ \A i \in 1..Len(chain) : chain'[i].trade = chain[i].trade
  BY MineChain
<1>4. Follows(chain', G, Tried(k)') BY <1>2, <1>3, ChainFollows
<1>5. \A o \in Orders : Applied(o, k) <= Applied(o, k)'
  BY <1>1, <1>2 DEF Applied, Passed, Trade0
<1> QED BY <1>1, <1>4, <1>5, StayGhost

LEMMA SubmitTradesGhost ==
    ASSUME IInv, IInv', SubmitTrades, NEW G, NEW k, Ghost(G, k)
    PROVE  Ghost(G, k)'
<1>1. /\ spc = "idle" /\ spc' = "build" /\ work' = pendingTrades /\ pendingTrades' = <<>>
      /\ UNCHANGED <<traded, row, tradeRows, chain>>
  BY DEF SubmitTrades
<1>2. /\ k \in Nat /\ k <= k /\ k \in 0..Len(G) /\ Len(pendingTrades) \in Nat
      /\ Len(G) \in Nat
  BY GhostTypes DEF Ghost
<1>3. work = <<>> /\ Len(work) = 0 BY <1>1 DEF IInv, TypeOK
<1>4. Emitted(G, k)'
  <2>1. /\ Len(G) = k + Len(work') + Len(pendingTrades')
        /\ \A i \in 1..Len(work') : work'[i] = G[k + i]
    <3>1. Len(G) = k + Len(pendingTrades) BY <1>2, <1>3 DEF Ghost, Emitted
    <3>2. ASSUME NEW i \in 1..Len(pendingTrades)
          PROVE  pendingTrades[i] = G[k + i]
      <4>1. k + Len(work) + i = k + i BY <1>2, <1>3
      <4> QED BY <4>1 DEF Ghost, Emitted
    <3> QED BY <1>1, <1>2, <3>1, <3>2
  <2>2. \A i \in 1..Len(pendingTrades') : pendingTrades'[i] = G[k + Len(work') + i]
    BY <1>1
  <2> QED BY <1>1, <2>1, <2>2 DEF Ghost, Emitted
<1>5. Follows(chain', G, Tried(k)') /\ Follows(tradeRows', G, k)
  BY <1>1 DEF Ghost, Tried
<1>6. \A o \in Orders : Applied(o, k)' = k /\ Applied(o, k) = k
  BY <1>1 DEF Applied, Passed
<1>7. DOMAIN row' \subseteq Orders BY DEF IInv, TypeOK
<1> QED BY <1>1, <1>2, <1>4, <1>5, <1>6, <1>7, MovedGhost

\* Steps that write neither table and send nothing.
LEMMA OnwardGhost ==
    ASSUME IInv, IInv', NEW G, NEW k, Ghost(G, k),
           \/ Build /\ spc' /= "idle" /\ UNCHANGED work
           \/ SendFails /\ UNCHANGED chain
           \/ WaitMined \/ FindRow \/ FindRowFails \/ WriteRowFails
    PROVE  Ghost(G, k)'
<1>1. /\ UNCHANGED <<traded, work, pendingTrades, row, tradeRows, chain>>
      /\ Trade0' = Trade0
      /\ \/ spc = "build" /\ spc' \in {"send", "readTaker", "build"}
         \/ spc = "send" /\ spc' = "readTaker"
         \/ spc = "wait" /\ spc' = "readTaker"
         \/ spc = "readTaker" /\ spc' \in {"writeTaker", "readMaker"}
         \/ spc = "writeTaker" /\ spc' = "readMaker"
         \/ spc = "readMaker" /\ spc' \in {"writeMaker", "record"}
         \/ spc = "writeMaker" /\ spc' = "record"
  BY DEF Build, NextTrade, SendFails, WaitMined, FindRow, FindRowFails,
         WriteRowFails, AfterLeg, Trade0
<1>2. k \in Nat BY GhostTypes DEF Ghost
<1>3. Tried(k) <= Tried(k)' /\ Tried(k)' \in Nat BY <1>1, <1>2 DEF Tried
<1>4. Follows(chain', G, Tried(k)')
  <2>1. PICK p : p = Tried(k)' OBVIOUS
  <2> QED BY <2>1, <1>1, <1>3, ChainFollows
<1>5. \A o \in Orders : Applied(o, k) <= Applied(o, k)'
  BY <1>1, <1>2 DEF Applied, Passed
<1> QED BY <1>1, <1>4, <1>5, StayGhost

\* The transaction of the first trade of work comes after all others.
LEMMA SentGhost ==
    ASSUME IInv, IInv', Send \/ SendFails, Accepted, NEW G, NEW k, Ghost(G, k)
    PROVE  Ghost(G, k)'
<1>1. /\ UNCHANGED <<traded, work, pendingTrades, row, tradeRows>>
      /\ spc = "send" /\ spc' \in {"wait", "readTaker"}
  BY DEF Send, SendFails
<1>2. k \in Nat /\ Trade0 = G[k + 1] BY <1>1, GhostTypes DEF Ghost
<1>3. PICK e : e = [trade |-> Trade0, block |-> 0] OBVIOUS
<1>4. e \in Sent /\ e.trade = G[k + 1]
  <2>1. Trade0 \in Trades BY <1>1, HeadIsReal DEF RealTrades
  <2> QED BY <2>1, <1>2, <1>3 DEF Sent
<1>5. chain' = Append(chain, e) BY <1>3 DEF Accepted
<1>6. chain \in Seq(Sent) BY DEF IInv, TypeOK, Sent
<1>7. Follows(chain, G, k) BY <1>1 DEF Ghost, Tried
<1>8. Follows(Append(chain, e), G, k + 1) BY <1>2, <1>4, <1>6, <1>7, FollowsNext
<1>9. Follows(chain', G, Tried(k)') BY <1>1, <1>5, <1>8 DEF Tried
<1>10. \A o \in Orders : Applied(o, k) <= Applied(o, k)'
  BY <1>1, <1>2 DEF Applied, Passed
<1> QED BY <1>1, <1>9, <1>10, StayGhost

\* The row that is written shows its order's stage after the trade.
LEMMA WriteRowGhost ==
    ASSUME IInv, IInv', WriteRow, NEW G, NEW k, Ghost(G, k)
    PROVE  Ghost(G, k)'
<1> DEFINE n == Len(G)
<1>1. /\ UNCHANGED <<traded, work, pendingTrades, tradeRows, chain>>
      /\ Trade0' = Trade0
      /\ \/ spc = "writeTaker" /\ spc' = "readMaker" /\ Leg = Trade0.taker
         \/ spc = "writeMaker" /\ spc' = "record" /\ Leg = Trade0.maker
  BY DEF WriteRow, AfterLeg, Trade0, Leg
<1>2. /\ k \in 0..n /\ k + 1 \in 1..n /\ n \in Nat /\ Trade0 = G[k + 1]
      /\ Leg \in Orders
  BY <1>1, GhostTypes, HeadIsReal DEF Ghost
<1>3. Trade0.taker /= Trade0.maker BY <1>2 DEF Ghost, Emitted
<1>4. Emitted(G, k)' BY <1>1 DEF Ghost, Emitted
<1>5. Follows(chain', G, Tried(k)') /\ Follows(tradeRows', G, k)
  BY <1>1 DEF Ghost, Tried
<1>6. PICK at : /\ Stages(G, n, at) /\ at[n] = traded
                /\ \A o \in DOMAIN row : row[o].filled <= at[Applied(o, k)][o]
  BY DEF Ghost, RowsOf
<1>7. /\ at \in [0..n -> [Orders -> Nat]]
      /\ \A i \in 1..n, o \in Orders : at[i][o] = at[i - 1][o] + Part(G[i], o)
      /\ \A i, j \in 0..n, o \in Orders : i <= j => at[i][o] <= at[j][o]
  BY <1>6 DEF Stages
<1>8. /\ Leg \in DOMAIN row /\ total <= row[Leg].filled + Trade0.amount
      /\ row[Leg].filled \in Nat /\ total \in Nat
      /\ row' = [row EXCEPT ![Leg] = [status |-> StatusFor(Leg, total), filled |-> total]]
  <2>1. Writing BY <1>1 DEF Writing
  <2>2. total = Min2(row[Leg].filled + Trade0.amount, Size(Leg))
    BY <2>1 DEF IInv, Rowed
  <2>3. Size(Leg) \in Nat /\ Trade0.amount \in Nat BY <1>1, HeadIsReal
  <2> QED BY <2>2, <2>3, WriteRowFacts DEF Min2
<1>9. Applied(Leg, k) = k BY <1>1, <1>3 DEF Applied, Passed
<1>10. total <= at[k + 1][Leg]
  <2>1. row[Leg].filled <= at[k][Leg] BY <1>6, <1>8, <1>9
  <2>2. at[k + 1][Leg] = at[k][Leg] + Trade0.amount
    <3>1. Part(G[k + 1], Leg) = Trade0.amount BY <1>1, <1>2 DEF Part
    <3>2. (k + 1) - 1 = k BY <1>2
    <3> QED BY <3>1, <3>2, <1>2, <1>7
  <2>3. at[k][Leg] \in Nat /\ Trade0.amount \in Nat BY <1>1, <1>2, <1>7, HeadIsReal
  <2> QED BY <2>1, <2>2, <2>3, <1>8, <1>9
<1>11. ASSUME NEW o \in DOMAIN row'
       PROVE  row'[o].filled <= at[Applied(o, k)'][o]
  <2>1. o \in DOMAIN row /\ o \in Orders BY <1>8 DEF IInv, TypeOK
  <2>2. CASE o = Leg
    <3>1. row'[Leg].filled = total BY <1>8
    <3>2. Applied(o, k)' = k + 1 BY <2>2, <1>1 DEF Applied, Passed
    <3> QED BY <3>1, <3>2, <2>2, <1>10
  <2>3. CASE o /= Leg
    <3>1. row'[o] = row[o] BY <2>1, <2>3, <1>8
    <3>2. Applied(o, k)' = Applied(o, k) BY <2>3, <1>1 DEF Applied, Passed
    <3> QED BY <3>1, <3>2, <2>1, <1>6
  <2> QED BY <2>2, <2>3
<1>12. RowsOf(G, k)'
  <2>1. Stages(G, Len(G), at) /\ at[Len(G)] = traded' BY <1>1, <1>6
  <2> QED BY <2>1, <1>11 DEF RowsOf
<1> QED BY <1>4, <1>5, <1>12 DEF Ghost

\* submitTrades is done with the first trade of work, which may be recorded.
LEMMA NextTradeGhost ==
    ASSUME IInv, IInv', spc /= "idle", NextTrade,
           UNCHANGED <<traded, pendingTrades, row, chain>>,
           \/ tradeRows' = tradeRows
           \/ tradeRows' = Append(tradeRows, [trade |-> Trade0, tx |-> tx]),
           NEW G, NEW k, Ghost(G, k)
    PROVE  Ghost(G, k + 1)'
<1> PICK m : m = k + 1 OBVIOUS
<1>1. /\ work' = Tail(work) /\ spc' \in {"idle", "build"} BY DEF NextTrade
<1>2. /\ k \in Nat /\ m \in 1..Len(G) /\ m \in Nat /\ m = k + 1 /\ k <= m /\ m <= m
      /\ Trade0 = G[m] /\ Len(G) \in Nat /\ Len(work) \in Nat /\ Len(work) >= 1
      /\ Len(pendingTrades) \in Nat
  BY GhostTypes DEF Ghost
<1>3. /\ Len(work') = Len(work) - 1
      /\ \A i \in 1..(Len(work) - 1) : work'[i] = work[i + 1]
  <2>1. work \in Seq(RealTrades) /\ work /= <<>> BY DEF IInv, TypeOK, Waiting
  <2> QED BY <2>1, <1>1, HeadTailProperties
<1>4. Emitted(G, m)'
  <2>1. Len(G) = m + Len(work') + Len(pendingTrades')
    BY <1>2, <1>3 DEF Ghost, Emitted
  <2>2. ASSUME NEW i \in 1..Len(work') PROVE work'[i] = G[m + i]
    <3>1. i \in 1..(Len(work) - 1) /\ i + 1 \in 1..Len(work) BY <1>2, <1>3
    <3>2. work'[i] = work[i + 1] BY <1>3, <3>1
    <3>3. work[i + 1] = G[k + (i + 1)] BY <3>1 DEF Ghost, Emitted
    <3>4. k + (i + 1) = m + i BY <1>2, <3>1
    <3> QED BY <3>2, <3>3, <3>4
  <2>3. ASSUME NEW i \in 1..Len(pendingTrades')
        PROVE  pendingTrades'[i] = G[m + Len(work') + i]
    <3>1. pendingTrades[i] = G[k + Len(work) + i] BY DEF Ghost, Emitted
    <3>2. k + Len(work) + i = m + Len(work') + i BY <1>2, <1>3
    <3> QED BY <3>1, <3>2
  <2> QED BY <1>2, <2>1, <2>2, <2>3 DEF Ghost, Emitted
<1>5. Tried(k) \in Nat /\ Tried(k) <= m /\ Tried(m)' = m
  BY <1>1, <1>2 DEF Tried
<1>6. Follows(chain', G, Tried(m)') BY <1>2, <1>5, ChainFollows
<1>7. Follows(tradeRows', G, m)
  <2>1. Follows(tradeRows, G, k) BY DEF Ghost
  <2>2. CASE tradeRows' = tradeRows
    <3>1. Len(tradeRows) \in Nat /\ \A i \in 1..k : G[i] = G[i]
      BY GhostTypes DEF Ghost
    <3> QED BY <2>1, <2>2, <3>1, <1>2, FollowsMore
  <2>3. CASE tradeRows' = Append(tradeRows, [trade |-> Trade0, tx |-> tx])
    <3>1. PICK e : e = [trade |-> Trade0, tx |-> tx] OBVIOUS
    <3>2. Trade0 \in Trades /\ tx \in TxInfo
      BY HeadIsReal DEF RealTrades, IInv, TypeOK
    <3>3. e \in Recorded /\ e.trade = G[k + 1] BY <3>1, <3>2, <1>2 DEF Recorded
    <3>4. tradeRows \in Seq(Recorded) BY DEF IInv, TypeOK, Recorded
    <3>5. Follows(Append(tradeRows, e), G, k + 1)
      BY <2>1, <3>3, <3>4, <1>2, FollowsNext
    <3> QED BY <2>3, <3>1, <3>5, <1>2
  <2> QED BY <2>2, <2>3
<1>8. \A o \in Orders : Applied(o, m)' = m /\ Applied(o, k) <= m
  BY <1>1, <1>2 DEF Applied, Passed
<1>9. m \in 0..Len(G) BY <1>2
<1>10. DOMAIN row' \subseteq Orders BY DEF IInv, TypeOK
<1>11. Ghost(G, m)'
  BY <1>2, <1>4, <1>6, <1>7, <1>8, <1>9, <1>10, MovedGhost
<1> QED BY <1>2, <1>11

\* What was taken or still pending is skipped.
LEMMA RestartGhost ==
    ASSUME IInv, IInv', Restart, NEW G, NEW k, Ghost(G, k)
    PROVE  Ghost(G, Len(G))'
<1> PICK m : m = Len(G) OBVIOUS
<1>1. /\ pendingTrades' = <<>> /\ work' = <<>> /\ spc' = "idle"
      /\ UNCHANGED <<traded, row, tradeRows, chain>>
  BY DEF Restart
<1>2. /\ k \in Nat /\ m \in Nat /\ k <= m /\ m \in 0..Len(G)
      /\ spc /= "idle" => k + 1 <= m
  BY GhostTypes DEF Ghost
<1>3. Emitted(G, m)'
  <2>1. Len(G) = m + Len(work') + Len(pendingTrades') BY <1>1, <1>2
  <2>2. (\A i \in 1..Len(work') : work'[i] = G[m + i])
        /\ \A i \in 1..Len(pendingTrades') : pendingTrades'[i] = G[m + Len(work') + i]
    BY <1>1
  <2> QED BY <1>1, <1>2, <2>1, <2>2 DEF Ghost, Emitted
<1>4. Tried(k) \in Nat /\ Tried(k) <= m /\ Tried(m)' = m
  BY <1>1, <1>2 DEF Tried
<1>5. Follows(chain', G, Tried(m)') BY <1>1, <1>2, <1>4, ChainFollows
<1>6. Follows(tradeRows', G, m)
  <2>1. Follows(tradeRows, G, k) BY DEF Ghost
  <2>2. Len(tradeRows) \in Nat /\ \A i \in 1..k : G[i] = G[i]
    BY GhostTypes DEF Ghost
  <2> QED BY <2>1, <2>2, <1>1, <1>2, FollowsMore
<1>7. \A o \in Orders : Applied(o, m)' = m /\ Applied(o, k) <= m
  BY <1>1, <1>2 DEF Applied, Passed
<1>8. DOMAIN row' \subseteq Orders BY DEF IInv, TypeOK
<1>9. Ghost(G, m)' BY <1>1, <1>2, <1>3, <1>5, <1>6, <1>7, <1>8, MovedGhost
<1> QED BY <1>9

LEMMA InitHistory == Init => History
<1> SUFFICES ASSUME Init PROVE Ghost(<<>>, 0)
  BY DEF History
<1>1. /\ work = <<>> /\ pendingTrades = <<>> /\ spc = "idle" /\ chain = <<>>
      /\ tradeRows = <<>> /\ DOMAIN row = {} /\ traded = [o \in Orders |-> 0]
  BY DEF Init, FL!Init
<1>2. PICK G : G = <<>> OBVIOUS
<1>3. G \in Seq(RealTrades) /\ Len(G) = 0 BY <1>2
<1>4. Emitted(G, 0) BY <1>1, <1>3 DEF Emitted
<1>5. Follows(chain, G, Tried(0)) /\ Follows(tradeRows, G, 0)
  <2>1. ASSUME NEW S, Len(S) = 0 PROVE Follows(S, G, 0)
    <3>1. 1..Len(S) = {} BY <2>1
    <3>2. PICK c : c = [i \in {} |-> 0] OBVIOUS
    <3>3. c \in [{} -> 1..0] BY <3>2
    <3>4. c \in [1..Len(S) -> 1..0] BY <3>1, <3>3
    <3>5. \A i \in 1..Len(S) : FALSE BY <3>1
    <3> QED BY <3>4, <3>5 DEF Follows
  <2>2. Len(chain) = 0 /\ Len(tradeRows) = 0 /\ Tried(0) = 0 BY <1>1 DEF Tried
  <2> QED BY <2>1, <2>2
<1>6. RowsOf(G, 0)
  <2>1. PICK at : at = [i \in 0..0 |-> traded] OBVIOUS
  <2>2. traded \in [Orders -> Nat] BY <1>1
  <2>3. Stages(G, 0, at) BY <2>1, <2>2 DEF Stages
  <2> QED BY <1>1, <1>3, <2>1, <2>3 DEF RowsOf
<1> QED BY <1>2, <1>4, <1>5, <1>6 DEF Ghost

\* Of a transaction it sent submitBatch knows the hash at once and the block
\* when that is mined; a row keeps what it was given.  The transaction under
\* way is not mined yet, or above all the blocks of the rows.
RowTold(i) ==
    Hash(i) > 0 =>
        /\ Hash(i) \in 1..Len(chain)
        /\ chain[Hash(i)].trade = tradeRows[i].trade
        /\ chain[Hash(i)].block = Block(i) /\ Block(i) > 0
        /\ tx.hash > 0 => \/ chain[tx.hash].block = 0
                          \/ Block(i) < chain[tx.hash].block

TxTold ==
    /\ spc \in {"idle", "build", "send"} => tx = NoTx
    /\ spc = "wait" => tx.hash > 0 /\ tx.block = 0
    /\ tx.hash > 0 => /\ tx.hash \in 1..Len(chain)
                      /\ chain[tx.hash].trade = Trade0
                      /\ spc /= "wait" => tx.block = chain[tx.hash].block /\ tx.block > 0

BlocksGoUp ==
    \A i, j \in 1..Len(tradeRows) :
        i < j /\ Hash(i) > 0 /\ Hash(j) > 0 => Block(i) < Block(j)

Told == TxTold /\ (\A i \in 1..Len(tradeRows) : RowTold(i)) /\ BlocksGoUp

LEMMA HistoryStep ==
    ASSUME IInv, IInv', History, [Next]_vars
    PROVE  History'
<1>1. PICK G, k : Ghost(G, k) BY DEF History
<1>2. ASSUME NEW H, NEW m, Ghost(H, m)' PROVE History' BY <1>2 DEF History
<1>3. CASE UNCHANGED vars
  <2>1. Ghost(G, k)'
    BY <1>1, <1>3 DEF vars, Ghost, Emitted, Tried, RowsOf, Applied, Passed, Trade0
  <2> QED BY <2>1, <1>2
<1>4. CASE \E o \in Orders : InsertRow(o) BY <1>1, <1>2, <1>4, InsertRowGhost
<1>5. CASE \E b, s \in Orders : Match(b, s)
  <2>1. \E H : Ghost(H, k)' BY <1>1, <1>5, MatchGhost
  <2> QED BY <2>1, <1>2
<1>6. CASE SubmitTrades BY <1>1, <1>2, <1>6, SubmitTradesGhost
<1>7. CASE Build
  <2>1. CASE NextTrade BY <1>1, <1>2, <1>7, <2>1, NextTradeGhost DEF Build
  <2>2. CASE ~NextTrade
    BY <1>1, <1>2, <1>7, <2>2, OnwardGhost DEF Build
  <2> QED BY <2>1, <2>2
<1>8. CASE Send BY <1>1, <1>2, <1>8, SentGhost DEF Send
<1>9. CASE SendFails
  <2>1. CASE Accepted BY <1>1, <1>2, <1>9, <2>1, SentGhost
  <2>2. CASE UNCHANGED chain BY <1>1, <1>2, <1>9, <2>2, OnwardGhost
  <2> QED BY <1>9, <2>1, <2>2 DEF SendFails
<1>10. CASE WaitMined \/ FindRow \/ FindRowFails \/ WriteRowFails
  BY <1>1, <1>2, <1>10, OnwardGhost
<1>11. CASE WriteRow BY <1>1, <1>2, <1>11, WriteRowGhost
<1>12. CASE Record \/ RecordFails
  <2>1. spc = "record" /\ NextTrade /\ UNCHANGED <<traded, pendingTrades, row, chain>>
    BY <1>12 DEF Record, RecordFails
  <2>2. \/ tradeRows' = tradeRows
        \/ tradeRows' = Append(tradeRows, [trade |-> Trade0, tx |-> tx])
    BY <1>12 DEF Record, RecordFails
  <2>3. Ghost(G, k + 1)' BY <1>1, <2>1, <2>2, NextTradeGhost
  <2> QED BY <2>3, <1>2
<1>13. CASE MineStep
  <2>1. PICK I : Mine(I) BY <1>13 DEF MineStep
  <2> QED BY <1>1, <1>2, <2>1, MineGhost
<1>14. CASE Restart BY <1>1, <1>2, <1>14, RestartGhost
<1> QED
  BY <1>3, <1>4, <1>5, <1>6, <1>7, <1>8, <1>9, <1>10, <1>11, <1>12, <1>13, <1>14
  DEF Next, Step, SubmitStep

\* What is on the chain stays there, and what is mined later is in a later
\* block.
ChainGoesOn ==
    /\ Len(chain) \in Nat /\ Len(chain') \in Nat /\ Len(chain) <= Len(chain')
    /\ \A i \in 1..Len(chain) :
          /\ chain'[i].trade = chain[i].trade
          /\ chain[i].block \in Nat /\ chain'[i].block \in Nat
          /\ chain[i].block > 0 => chain'[i].block = chain[i].block
    /\ \A i, j \in 1..Len(chain) :
          chain[i].block = 0 /\ chain[j].block > 0 =>
              chain'[i].block = 0 \/ chain[j].block < chain'[i].block

LEMMA ChainKeeps ==
    ASSUME IInv, IInv', [Next]_vars
    PROVE  ChainGoesOn
<1>1. chain \in Seq(Sent) /\ Len(chain) \in Nat BY LenProperties DEF IInv, TypeOK, Sent
<1>2. \A i \in 1..Len(chain) : chain[i] \in Sent BY <1>1, ElementOfSeq
<1>3. \A i \in 1..Len(chain) : chain[i].block \in Nat BY <1>2 DEF Sent
<1>4. CASE chain' = chain BY <1>1, <1>3, <1>4 DEF ChainGoesOn
<1>5. CASE spc = "send" /\ Accepted
  <2>1. /\ Len(chain') = Len(chain) + 1
        /\ \A i \in 1..Len(chain) : chain'[i] = chain[i]
    BY <1>5, AcceptedChain
  <2> QED BY <1>1, <1>3, <2>1 DEF ChainGoesOn
<1>6. ASSUME NEW I, Mine(I) PROVE ChainGoesOn
  <2>1. PICK b \in Nat :
          /\ \A i \in 1..Len(chain) : chain[i].block \in Nat /\ chain[i].block < b
          /\ \A i \in 1..Len(chain) : \/ chain'[i] = chain[i]
                                      \/ chain[i].block = 0 /\ chain'[i].block = b
    BY <1>6, MineChain
  <2>2. /\ Len(chain') = Len(chain)
        /\ \A i \in 1..Len(chain) : chain'[i].trade = chain[i].trade
    BY <1>6, MineChain
  <2> QED BY <1>1, <2>1, <2>2 DEF ChainGoesOn
<1> QED
  BY <1>4, <1>5, <1>6
  DEF Next, Step, SubmitStep, MineStep, InsertRow, Match, SubmitTrades, Build, Send,
      SendFails, WaitMined, FindRow, FindRowFails, WriteRow, WriteRowFails, Record,
      RecordFails, Restart, vars

\* The rows keep what they were told while the transaction under way is the
\* same, is gone, or is one that was just sent.
LEMMA RowsKeepTold ==
    ASSUME IInv, Told, ChainGoesOn, tradeRows' = tradeRows,
           \/ tx'.hash = tx.hash
           \/ tx'.hash = 0
           \/ chain'[tx'.hash].block = 0
    PROVE  (\A i \in 1..Len(tradeRows') : RowTold(i)') /\ BlocksGoUp'
<1>1. tx.hash \in Nat BY DEF IInv, TypeOK, TxInfo
<1>2. tx.hash > 0 => tx.hash \in 1..Len(chain) BY DEF Told, TxTold
<1>3. ASSUME NEW i \in 1..Len(tradeRows), Hash(i) > 0 PROVE RowTold(i)'
  <2>1. /\ Hash(i) \in 1..Len(chain) /\ chain[Hash(i)].trade = tradeRows[i].trade
        /\ chain[Hash(i)].block = Block(i) /\ Block(i) > 0
        /\ tx.hash > 0 => \/ chain[tx.hash].block = 0
                          \/ Block(i) < chain[tx.hash].block
    BY <1>3 DEF Told, RowTold
  <2>2. Hash(i)' = Hash(i) /\ Block(i)' = Block(i) BY DEF Hash, Block
  <2>3. /\ Hash(i) \in 1..Len(chain')
        /\ chain'[Hash(i)].trade = tradeRows'[i].trade
        /\ chain'[Hash(i)].block = Block(i)
    BY <2>1 DEF ChainGoesOn
  <2>4. ASSUME tx'.hash > 0
        PROVE  chain'[tx'.hash].block = 0 \/ Block(i) < chain'[tx'.hash].block
    <3>1. CASE tx'.hash = tx.hash
      <4> PICK h, r : h = tx.hash /\ r = Hash(i) OBVIOUS
      <4>1. /\ h \in 1..Len(chain) /\ r \in 1..Len(chain) /\ chain[r].block = Block(i)
            /\ chain[r].block > 0
            /\ chain[h].block = 0 \/ chain[r].block < chain[h].block
        BY <3>1, <2>1, <2>4, <1>1, <1>2
      <4>2. /\ chain[h].block \in Nat
            /\ chain[h].block > 0 => chain'[h].block = chain[h].block
            /\ chain[h].block = 0 => chain'[h].block = 0 \/ chain[r].block < chain'[h].block
        BY <4>1 DEF ChainGoesOn
      <4>3. chain'[h].block = 0 \/ chain[r].block < chain'[h].block
        BY <4>1, <4>2
      <4> QED BY <3>1, <4>1, <4>3
    <3> QED BY <3>1, <2>4
  <2> QED BY <2>1, <2>2, <2>3, <2>4 DEF RowTold
<1>4. \A i \in 1..Len(tradeRows') : RowTold(i)' BY <1>3 DEF RowTold, Hash
<1>5. BlocksGoUp' BY DEF Told, BlocksGoUp, Hash, Block
<1> QED BY <1>4, <1>5

\* submitBatch stays with its transaction, or is no longer about one.
LEMMA TxKeepsTold ==
    ASSUME IInv, Told, ChainGoesOn, tradeRows' = tradeRows,
           \/ /\ UNCHANGED <<tx, work>>
              /\ \/ UNCHANGED spc
                 \/ spc \in {"build", "send"} /\ spc' \in {"send", "readTaker"}
                 \/ /\ spc \notin {"idle", "build", "send", "wait"}
                    /\ spc' \notin {"idle", "build", "send", "wait"}
           \/ tx' = NoTx /\ spc' /= "wait"
           \/ tx = NoTx /\ tx' = tx /\ spc' = "build"
    PROVE  Told'
<1>1. tx \in TxInfo BY DEF IInv, TypeOK
<1>2. \A i \in 1..Len(tradeRows') : RowTold(i)'
  BY RowsKeepTold, <1>1 DEF TxInfo, NoTx
<1>3. BlocksGoUp' BY RowsKeepTold, <1>1 DEF TxInfo, NoTx
<1>4. TxTold'
  <2>1. CASE tx' = NoTx /\ spc' /= "wait" BY <2>1 DEF TxTold, NoTx
  <2>2. CASE tx = NoTx /\ tx' = tx /\ spc' = "build" BY <2>2 DEF TxTold, NoTx
  <2>3. CASE UNCHANGED <<tx, work, spc>>
    <3>1. Trade0' = Trade0 BY <2>3 DEF Trade0
    <3>2. TxTold BY DEF Told
    <3> QED BY <3>1, <3>2, <2>3, <1>1 DEF TxTold, ChainGoesOn, TxInfo
  <2>4. CASE /\ UNCHANGED <<tx, work>>
             /\ spc \in {"build", "send"} /\ spc' \in {"send", "readTaker"}
    <3>1. tx' = NoTx BY <2>4 DEF Told, TxTold
    <3> QED BY <3>1, <2>4 DEF TxTold, NoTx
  <2>5. CASE /\ UNCHANGED <<tx, work>>
             /\ spc \notin {"idle", "build", "send", "wait"}
             /\ spc' \notin {"idle", "build", "send", "wait"}
    <3>1. Trade0' = Trade0 BY <2>5 DEF Trade0
    <3>2. TxTold BY DEF Told
    <3> QED BY <3>1, <3>2, <2>5, <1>1 DEF TxTold, ChainGoesOn, TxInfo
  <2> QED BY <2>1, <2>2, <2>3, <2>4, <2>5
<1> QED BY <1>2, <1>3, <1>4 DEF Told

LEMMA SendTold ==
    ASSUME IInv, Told, ChainGoesOn, Send
    PROVE  Told'
<1>1. /\ spc = "send" /\ spc' = "wait" /\ Accepted
      /\ tx' = [tx EXCEPT !.hash = Len(chain) + 1]
      /\ tradeRows' = tradeRows /\ work' = work
  BY DEF Send
<1>2. tx = NoTx BY <1>1 DEF Told, TxTold
<1>3. /\ Len(chain) \in Nat /\ Len(chain') = Len(chain) + 1
      /\ chain'[Len(chain) + 1] = [trade |-> Trade0, block |-> 0]
  BY <1>1, AcceptedChain
<1>4. tx'.hash = Len(chain) + 1 /\ tx'.block = 0 BY <1>1, <1>2 DEF NoTx
<1>5. chain'[tx'.hash].block = 0 /\ chain'[tx'.hash].trade = Trade0 BY <1>3, <1>4
<1>6. (\A i \in 1..Len(tradeRows') : RowTold(i)') /\ BlocksGoUp'
  BY <1>1, <1>5, RowsKeepTold
<1>7. TxTold' BY <1>1, <1>3, <1>4, <1>5 DEF TxTold, Trade0
<1> QED BY <1>6, <1>7 DEF Told

LEMMA WaitMinedTold ==
    ASSUME IInv, Told, ChainGoesOn, WaitMined
    PROVE  Told'
<1>1. /\ spc = "wait" /\ spc' = "readTaker" /\ chain[tx.hash].block > 0
      /\ tx' = [tx EXCEPT !.block = chain[tx.hash].block]
      /\ UNCHANGED <<work, tradeRows, chain>>
  BY DEF WaitMined
<1>2. tx \in TxInfo BY DEF IInv, TypeOK
<1>3. tx'.hash = tx.hash /\ tx'.block = chain[tx.hash].block BY <1>1, <1>2 DEF TxInfo
<1>4. (\A i \in 1..Len(tradeRows') : RowTold(i)') /\ BlocksGoUp'
  BY <1>1, <1>3, RowsKeepTold
<1>5. TxTold' BY <1>1, <1>3 DEF Told, TxTold, Trade0
<1> QED BY <1>4, <1>5 DEF Told

LEMMA RecordTold ==
    ASSUME IInv, Told, Record
    PROVE  Told'
<1>1. /\ spc = "record" /\ spc' \in {"idle", "build"} /\ tx' = NoTx /\ chain' = chain
      /\ tradeRows' = Append(tradeRows, [trade |-> Trade0, tx |-> tx])
  BY DEF Record, NextTrade
<1>2. PICK e : e = [trade |-> Trade0, tx |-> tx] OBVIOUS
<1>3. e \in Recorded /\ e.tx = tx /\ e.trade = Trade0
  BY <1>1, <1>2, HeadIsReal DEF Recorded, RealTrades, IInv, TypeOK
<1> PICK n : n = Len(tradeRows) OBVIOUS
<1>4. /\ n = Len(tradeRows) /\ n \in Nat /\ Len(tradeRows') = n + 1
      /\ \A i \in 1..n : tradeRows'[i] = tradeRows[i]
      /\ tradeRows'[n + 1] = e
  <2>1. tradeRows \in Seq(Recorded) BY DEF IInv, TypeOK, Recorded
  <2> QED BY <1>1, <1>2, <1>3, <2>1, AppendProperties, LenProperties
<1>5. /\ \A i \in 1..n : Hash(i)' = Hash(i) /\ Block(i)' = Block(i)
      /\ Hash(n + 1)' = tx.hash /\ Block(n + 1)' = tx.block
  BY <1>3, <1>4 DEF Hash, Block
<1>6. \A i \in 1..(n + 1) : i \in 1..n \/ i = n + 1 BY <1>4
<1>7. tx.hash > 0 => /\ tx.hash \in 1..Len(chain) /\ chain[tx.hash].trade = Trade0
                     /\ tx.block = chain[tx.hash].block /\ tx.block > 0
  BY <1>1 DEF Told, TxTold
<1>8. tx'.hash = 0 BY <1>1 DEF NoTx
<1>9. ASSUME NEW i \in 1..(n + 1) PROVE RowTold(i)'
  <2>1. CASE i \in 1..n BY <2>1, <1>1, <1>4, <1>5, <1>8 DEF Told, RowTold
  <2>2. CASE i = n + 1 BY <2>2, <1>1, <1>3, <1>4, <1>5, <1>7, <1>8 DEF RowTold
  <2> QED BY <2>1, <2>2, <1>6
<1>10. BlocksGoUp'
  <2> SUFFICES ASSUME NEW i \in 1..(n + 1), NEW j \in 1..(n + 1), i < j,
                      Hash(i)' > 0, Hash(j)' > 0
               PROVE  Block(i)' < Block(j)'
    BY <1>4 DEF BlocksGoUp
  <2>1. i \in 1..n BY <1>4
  <2>2. CASE j \in 1..n BY <2>1, <2>2, <1>4, <1>5 DEF Told, BlocksGoUp
  <2>3. CASE j = n + 1
    <3>1. tx.hash > 0 /\ Hash(i) > 0 BY <2>1, <2>3, <1>5
    <3>2. Block(i) < chain[tx.hash].block
      BY <2>1, <3>1, <1>4, <1>7 DEF Told, RowTold
    <3> QED BY <2>1, <2>3, <3>1, <3>2, <1>5, <1>7
  <2> QED BY <2>2, <2>3, <1>6
<1>11. TxTold' BY <1>1 DEF TxTold, NoTx
<1> QED BY <1>4, <1>9, <1>10, <1>11 DEF Told

LEMMA ToldStep ==
    ASSUME IInv, IInv', Told, [Next]_vars
    PROVE  Told'
<1>1. ChainGoesOn BY ChainKeeps
<1>2. CASE UNCHANGED vars BY <1>1, <1>2, TxKeepsTold DEF vars
<1>3. CASE \E o \in Orders : InsertRow(o) BY <1>1, <1>3, TxKeepsTold DEF InsertRow
<1>4. CASE \E b, s \in Orders : Match(b, s) BY <1>1, <1>4, TxKeepsTold DEF Match
<1>5. CASE SubmitTrades
  <2>1. tx = NoTx BY <1>5 DEF SubmitTrades, Told, TxTold
  <2> QED BY <1>1, <1>5, <2>1, TxKeepsTold DEF SubmitTrades
<1>6. CASE Build BY <1>1, <1>6, TxKeepsTold DEF Build, NextTrade
<1>7. CASE Send BY <1>1, <1>7, SendTold
<1>8. CASE SendFails BY <1>1, <1>8, TxKeepsTold DEF SendFails
<1>9. CASE WaitMined BY <1>1, <1>9, WaitMinedTold
<1>10. CASE FindRow \/ FindRowFails \/ WriteRow \/ WriteRowFails
  BY <1>1, <1>10, TxKeepsTold DEF FindRow, FindRowFails, WriteRow, WriteRowFails, AfterLeg
<1>11. CASE RecordFails BY <1>1, <1>11, TxKeepsTold DEF RecordFails, NextTrade
<1>12. CASE Record BY <1>12, RecordTold
<1>13. CASE MineStep BY <1>1, <1>13, TxKeepsTold DEF MineStep, Mine
<1>14. CASE Restart BY <1>1, <1>14, TxKeepsTold DEF Restart
<1> QED
  BY <1>2, <1>3, <1>4, <1>5, <1>6, <1>7, <1>8, <1>9, <1>10, <1>11, <1>12, <1>13, <1>14
  DEF Next, Step, SubmitStep

LEMMA HistoryAlways == Spec => [](IInv /\ History /\ Told)
<1>1. Init => History /\ Told
  <2>1. Init => Told BY DEF Init, Told, TxTold, NoTx, RowTold, BlocksGoUp
  <2> QED BY <2>1, InitHistory
<1>2. IInv /\ IInv' /\ History /\ Told /\ [Next]_vars => History' /\ Told'
  BY HistoryStep, ToldStep
<1> QED BY <1>1, <1>2, Invariance, PTL DEF Spec

-----------------------------------------------------------------------------

\* The database never runs ahead of the engine: of an order it shows at most
\* what matchOrderBook put into trades, however applyFillStatus was cut short.
THEOREM RowsNeverAhead == Spec => []RowsBehindLedger
<1>1. IInv /\ History => RowsBehindLedger
  <2> SUFFICES ASSUME IInv, History, NEW o \in DOMAIN row
               PROVE  row[o].filled <= traded[o]
    BY DEF RowsBehindLedger
  <2>1. PICK G, k : Ghost(G, k) BY DEF History
  <2>2. PICK at : /\ Stages(G, Len(G), at) /\ at[Len(G)] = traded
                  /\ row[o].filled <= at[Applied(o, k)][o]
    BY <2>1 DEF Ghost, RowsOf
  <2>3. o \in Orders /\ row[o].filled \in Nat /\ traded[o] \in Nat
    BY DEF IInv, TypeOK, Rows
  <2>4. Applied(o, k) \in 0..Len(G) /\ Len(G) \in 0..Len(G) /\ Applied(o, k) <= Len(G)
    BY <2>1, GhostTypes DEF Applied, Passed, Ghost
  <2>5. at[Applied(o, k)][o] <= at[Len(G)][o] /\ at[Applied(o, k)][o] \in Nat
    BY <2>2, <2>3, <2>4 DEF Stages
  <2> QED BY <2>2, <2>3, <2>5
<1> QED BY <1>1, HistoryAlways, PTL

\* A trade submitBatch sent or recorded is never sent or recorded again, not
\* even after a restart.
THEOREM NothingIsRetried == Spec => []NothingTwice
<1>1. IInv /\ History => NothingTwice
  <2> SUFFICES ASSUME IInv, History PROVE NothingTwice
    OBVIOUS
  <2>1. PICK G, k : Ghost(G, k) BY DEF History
  <2>2. ASSUME NEW S, NEW m \in 0..Len(G), Follows(S, G, m), Len(S) \in Nat,
               NEW i \in 1..Len(S), NEW j \in 1..Len(S), S[i].trade = S[j].trade
        PROVE  i = j
    <3>1. PICK c \in [1..Len(S) -> 1..m] :
            /\ \A x \in 1..Len(S) : S[x].trade = G[c[x]]
            /\ \A x, y \in 1..Len(S) : x < y => c[x] < c[y]
      BY <2>2 DEF Follows
    <3>2. c[i] \in 1..Len(G) /\ c[j] \in 1..Len(G) /\ c[i] \in Nat /\ c[j] \in Nat
      <4>1. Len(G) \in Nat BY <2>1, GhostTypes DEF Ghost
      <4>2. c[i] \in 1..m /\ c[j] \in 1..m BY <3>1
      <4> QED BY <4>1, <4>2
    <3>3. c[i] = c[j] BY <3>1, <3>2, <2>1, <2>2 DEF Ghost, Emitted
    <3> QED BY <3>1, <3>2, <3>3
  <2>3. k \in 0..Len(G) /\ Tried(k) \in 0..Len(G)
    BY <2>1, GhostTypes DEF Ghost, Tried
  <2>4. /\ DOMAIN chain = 1..Len(chain) /\ DOMAIN tradeRows = 1..Len(tradeRows)
        /\ Len(chain) \in Nat /\ Len(tradeRows) \in Nat
    BY <2>1, GhostTypes DEF Ghost
  <2>5. Follows(chain, G, Tried(k)) /\ Follows(tradeRows, G, k) BY <2>1 DEF Ghost
  <2> QED BY <2>2, <2>3, <2>4, <2>5 DEF NothingTwice
<1> QED BY <1>1, HistoryAlways, PTL

\* The trades table tells the chain's story: submitBatch records in the order
\* it sends, a hash in a row is that of the row's own trade, and the blocks of
\* the receipts go up from row to row.
THEOREM RecordsTellTheChain == Spec => []RecordsFollowChain
<1>1. IInv /\ History /\ Told => RecordsFollowChain
  <2> SUFFICES ASSUME IInv, History, Told PROVE RecordsFollowChain
    OBVIOUS
  <2>1. PICK G, k : Ghost(G, k) BY DEF History
  <2>2. /\ DOMAIN chain = 1..Len(chain) /\ DOMAIN tradeRows = 1..Len(tradeRows)
        /\ Len(chain) \in Nat /\ Len(tradeRows) \in Nat /\ Len(G) \in Nat
        /\ k \in 0..Len(G) /\ Tried(k) \in 0..Len(G)
    BY <2>1, GhostTypes DEF Ghost, Tried
  <2>3. PICK c \in [1..Len(chain) -> 1..Tried(k)] :
          /\ \A x \in 1..Len(chain) : chain[x].trade = G[c[x]]
          /\ \A x, y \in 1..Len(chain) : x < y => c[x] < c[y]
    BY <2>1 DEF Ghost, Follows
  <2>4. PICK d \in [1..Len(tradeRows) -> 1..k] :
          /\ \A x \in 1..Len(tradeRows) : tradeRows[x].trade = G[d[x]]
          /\ \A x, y \in 1..Len(tradeRows) : x < y => d[x] < d[y]
    BY <2>1 DEF Ghost, Follows
  <2>5. ASSUME NEW i \in 1..Len(tradeRows), NEW j \in 1..Len(tradeRows), SentBefore(i, j)
        PROVE  i < j
    <3>1. PICK x \in 1..Len(chain), y \in 1..Len(chain) :
            chain[x].trade = tradeRows[i].trade /\ chain[y].trade = tradeRows[j].trade /\ x < y
      BY <2>2, <2>5 DEF SentBefore
    <3>2. /\ c[x] \in 1..Len(G) /\ c[y] \in 1..Len(G) /\ d[i] \in 1..Len(G)
          /\ d[j] \in 1..Len(G) /\ c[x] < c[y]
      <4>1. /\ c[x] \in 1..Tried(k) /\ c[y] \in 1..Tried(k) /\ c[x] < c[y]
            /\ d[i] \in 1..k /\ d[j] \in 1..k
        BY <3>1, <2>3, <2>4
      <4>2. PICK p : p = Tried(k) OBVIOUS
      <4>3. p \in 0..Len(G) /\ c[x] \in 1..p /\ c[y] \in 1..p BY <4>1, <4>2, <2>2
      <4> QED BY <4>1, <4>3, <2>2
    <3>3. G[c[x]] = G[d[i]] /\ G[c[y]] = G[d[j]] BY <3>1, <2>3, <2>4
    <3>4. c[x] = d[i] /\ c[y] = d[j] BY <3>2, <3>3, <2>1 DEF Ghost, Emitted
    <3>5. d[i] < d[j] BY <3>2, <3>4
    <3>6. CASE i = j BY <3>2, <3>5, <3>6
    <3>7. CASE j < i
      <4>1. d[j] < d[i] BY <3>7, <2>4
      <4> QED BY <4>1, <3>2, <3>5
    <3> QED BY <3>6, <3>7, <2>2
  <2>6. ASSUME NEW i \in 1..Len(tradeRows), Hash(i) > 0
        PROVE  /\ Hash(i) \in 1..Len(chain) /\ Block(i) > 0
               /\ chain[Hash(i)] = [trade |-> tradeRows[i].trade, block |-> Block(i)]
    <3>1. /\ Hash(i) \in 1..Len(chain) /\ Block(i) > 0
          /\ chain[Hash(i)].trade = tradeRows[i].trade /\ chain[Hash(i)].block = Block(i)
      BY <2>6 DEF Told, RowTold
    <3>2. chain \in Seq(Sent) BY DEF IInv, TypeOK, Sent
    <3>3. chain[Hash(i)] \in Sent BY <3>1, <3>2, ElementOfSeq
    <3> QED BY <3>1, <3>3 DEF Sent
  <2>7. BlocksGoUp BY DEF Told
  <2> QED BY <2>2, <2>5, <2>6, <2>7 DEF RecordsFollowChain, BlocksGoUp
<1> QED BY <1>1, HistoryAlways, PTL

-----------------------------------------------------------------------------
(* What SumFor computes.  The running sums over a sequence exist and are   *)
(* determined, so any that fit give its value.                             *)

LEMMA Least ==
    ASSUME NEW T \in SUBSET Nat, T /= {}
    PROVE  \E x \in T : \A y \in T : x <= y
<1> DEFINE R == OpToRel(<, Nat)
<1>1. IsWellFoundedOn(R, Nat) BY NatLessThanWellFounded
<1>2. \A x, y \in Nat : y < x => <<y, x>> \in R BY DEF OpToRel
<1> HIDE DEF R
<1>3. PICK x \in T : \A y \in T : ~(<<y, x>> \in R) BY <1>1, WFMin
<1>4. ASSUME NEW y \in T PROVE x <= y
  <2>1. x \in Nat /\ y \in Nat OBVIOUS
  <2>2. ~(y < x) BY <1>2, <1>3, <2>1
  <2> QED BY <2>1, <2>2
<1> QED BY <1>4

\* f[i] is what the first i of m trades of q add to o.
Sums(f, q, m, o) ==
    /\ f \in [0..m -> Nat] /\ f[0] = 0
    /\ \A i \in 1..m : f[i] = f[i - 1] + Part(q[i], o)

LEMMA SumsExist ==
    ASSUME NEW q \in Seq(Trades), NEW o
    PROVE  \E f : Sums(f, q, Len(q), o)
<1> DEFINE T == {m \in 0..Len(q) : ~(\E f : Sums(f, q, m, o))}
<1>1. Len(q) \in Nat BY LenProperties
<1>2. ASSUME NEW m \in T, \A y \in T : m <= y PROVE FALSE
  <2>1. m \in 0..Len(q) /\ ~(\E f : Sums(f, q, m, o)) OBVIOUS
  <2>2. m /= 0
    <3>1. Sums([i \in 0..0 |-> 0], q, 0, o) BY DEF Sums
    <3> QED BY <2>1, <3>1
  <2>3. m - 1 \in 0..Len(q) /\ ~(m <= m - 1) /\ m \in 1..Len(q) BY <1>1, <2>1, <2>2
  <2>4. PICK f : Sums(f, q, m - 1, o) BY <1>2, <2>3
  <2>5. q[m] \in Trades BY <2>3, ElementOfSeq
  <2>6. Part(q[m], o) \in Nat BY <2>5 DEF Part, Trades
  <2>7. PICK a \in Nat : a = Part(q[m], o) BY <2>6
  <2> DEFINE g == [i \in 0..m |-> IF i = m THEN f[m - 1] + a ELSE f[i]]
  <2>8. f \in [0..(m - 1) -> Nat] /\ f[0] = 0 /\ m - 1 \in 0..(m - 1)
    BY <2>3, <2>4, <1>1 DEF Sums
  <2>9. g \in [0..m -> Nat] /\ g[0] = 0
    BY <2>3, <2>8, <1>1
  <2>10. ASSUME NEW i \in 1..m PROVE g[i] = g[i - 1] + Part(q[i], o)
    <3>1. CASE i = m BY <3>1, <2>3, <2>7, <2>8, <1>1
    <3>2. CASE i /= m
      <4>1. i \in 1..(m - 1) /\ i - 1 \in 0..m /\ i \in 0..m /\ i - 1 /= m
        BY <3>2, <2>3, <1>1
      <4>2. f[i] = f[i - 1] + Part(q[i], o) BY <4>1, <2>4 DEF Sums
      <4> QED BY <3>2, <4>1, <4>2
    <3> QED BY <3>1, <3>2
  <2>11. Sums(g, q, m, o)
    <3> HIDE DEF g
    <3> QED BY <2>9, <2>10 DEF Sums
  <2> QED BY <2>1, <2>11
<1>3. T \in SUBSET Nat BY <1>1
<1> HIDE DEF T
<1>4. T = {} BY <1>2, <1>3, Least
<1> QED BY <1>1, <1>4 DEF T

LEMMA SumIs ==
    ASSUME NEW q \in Seq(Trades), NEW o, NEW f, Sums(f, q, Len(q), o)
    PROVE  SumFor(o, q) = f[Len(q)]
<1> DEFINE n == Len(q)
           upTo[i \in 0..n] == IF i = 0 THEN 0 ELSE upTo[i - 1] + Part(q[i], o)
           Fits(h) == h = [i \in 0..n |-> IF i = 0 THEN 0 ELSE h[i - 1] + Part(q[i], o)]
<1>1. n \in Nat BY LenProperties
<1>2. SumFor(o, q) = upTo[n] BY DEF SumFor
<1>3. Fits(f)
  <2>1. f = [i \in 0..n |-> f[i]] BY DEF Sums
  <2>2. \A i \in 0..n : i /= 0 => i \in 1..n BY <1>1
  <2>3. \A i \in 0..n : f[i] = IF i = 0 THEN 0 ELSE f[i - 1] + Part(q[i], o)
    BY <2>2 DEF Sums
  <2> QED BY <2>1, <2>3
<1>4. Fits(upTo)
  <2>1. upTo = CHOOSE h : Fits(h) OBVIOUS
  <2> HIDE DEF upTo, Fits
  <2> QED BY <2>1, <1>3
<1> HIDE DEF upTo
<1> DEFINE T == {m \in 0..n : upTo[m] /= f[m]}
<1>5. ASSUME NEW m \in T, \A y \in T : m <= y PROVE FALSE
  <2>1. m \in 0..n /\ upTo[m] /= f[m] OBVIOUS
  <2>2. m /= 0 BY <2>1, <1>3, <1>4
  <2>3. m - 1 \in 0..n /\ ~(m <= m - 1) BY <1>1, <2>1, <2>2
  <2>4. upTo[m - 1] = f[m - 1] BY <1>5, <2>3
  <2>5. upTo[m] = upTo[m - 1] + Part(q[m], o) BY <1>4, <2>1, <2>2
  <2>6. f[m] = f[m - 1] + Part(q[m], o) BY <1>3, <2>1, <2>2
  <2> QED BY <2>1, <2>4, <2>5, <2>6
<1>6. T \in SUBSET Nat BY <1>1
<1>7. n \in 0..n BY <1>1
<1> HIDE DEF T
<1>8. T = {} BY <1>5, <1>6, Least
<1> QED BY <1>2, <1>7, <1>8 DEF T

LEMMA SumEmpty == \A o : SumFor(o, <<>>) = 0
<1> SUFFICES ASSUME NEW o PROVE SumFor(o, <<>>) = 0
  OBVIOUS
<1>1. <<>> \in Seq(Trades) /\ Len(<<>>) = 0 BY EmptySeq
<1>2. PICK f : Sums(f, <<>>, 0, o) BY <1>1, SumsExist
<1> QED BY <1>1, <1>2, SumIs DEF Sums

\* One more trade at the end ...
LEMMA SumAppend ==
    ASSUME NEW q \in Seq(Trades), NEW t \in Trades, NEW o
    PROVE  SumFor(o, Append(q, t)) = SumFor(o, q) + Part(t, o)
<1> DEFINE n == Len(q)
<1>1. PICK f : Sums(f, q, n, o) BY SumsExist
<1>2. n \in Nat /\ f \in [0..n -> Nat] /\ f[0] = 0 BY <1>1, LenProperties DEF Sums
<1>3. Part(t, o) \in Nat BY DEF Part, Trades
<1>4. PICK a \in Nat : a = Part(t, o) BY <1>3
<1>5. PICK r : r = Append(q, t) OBVIOUS
<1>6. /\ r \in Seq(Trades) /\ Len(r) = n + 1 /\ r[n + 1] = t
      /\ \A i \in 1..n : r[i] = q[i]
  BY <1>5, AppendProperties
<1> DEFINE g == [i \in 0..(n + 1) |-> IF i = n + 1 THEN f[n] + a ELSE f[i]]
<1>7. g \in [0..(n + 1) -> Nat] /\ g[0] = 0 /\ g[n + 1] = f[n] + a BY <1>2
<1>8. ASSUME NEW i \in 1..(n + 1) PROVE g[i] = g[i - 1] + Part(r[i], o)
  <2>1. CASE i = n + 1 BY <2>1, <1>2, <1>4, <1>6
  <2>2. CASE i /= n + 1
    <3>1. i \in 1..n /\ i - 1 \in 0..(n + 1) /\ i \in 0..(n + 1) /\ i - 1 /= n + 1
      BY <2>2, <1>2
    <3>2. f[i] = f[i - 1] + Part(q[i], o) BY <3>1, <1>1 DEF Sums
    <3> QED BY <2>2, <3>1, <3>2, <1>6
  <2> QED BY <2>1, <2>2
<1> HIDE DEF g
<1>9. Sums(g, r, n + 1, o) BY <1>7, <1>8 DEF Sums
<1>10. SumFor(o, r) = g[n + 1] BY <1>6, <1>9, SumIs
<1>11. SumFor(o, q) = f[n] BY <1>1, SumIs
<1> QED BY <1>4, <1>5, <1>7, <1>10, <1>11

\* ... and one less at the front.
LEMMA SumTail ==
    ASSUME NEW q \in Seq(Trades), q /= <<>>, NEW o
    PROVE  /\ SumFor(o, q) = Part(Head(q), o) + SumFor(o, Tail(q))
           /\ SumFor(o, Tail(q)) \in Nat /\ Part(Head(q), o) \in Nat
<1> DEFINE n == Len(q)
<1>1. PICK f : Sums(f, q, n, o) BY SumsExist
<1>2. n \in Nat \ {0} /\ f \in [0..n -> Nat] /\ f[0] = 0
  BY <1>1, EmptySeq DEF Sums
<1>3. PICK r : r = Tail(q) OBVIOUS
<1>4. /\ r \in Seq(Trades) /\ Len(r) = n - 1 /\ Head(q) \in Trades
      /\ \A i \in 1..(n - 1) : r[i] = q[i + 1]
  BY <1>3, HeadTailProperties
<1>5. PICK g : Sums(g, r, n - 1, o) BY <1>4, SumsExist
<1>6. g \in [0..(n - 1) -> Nat] /\ g[0] = 0 BY <1>5 DEF Sums
<1>7. Part(Head(q), o) \in Nat BY <1>4 DEF Part, Trades
<1>8. PICK a \in Nat : a = Part(Head(q), o) BY <1>7
<1> DEFINE h == [i \in 0..n |-> IF i = 0 THEN 0 ELSE a + g[i - 1]]
<1>9. h \in [0..n -> Nat] /\ h[0] = 0 /\ h[n] = a + g[n - 1]
  <2>1. \A i \in 0..n : i /= 0 => i - 1 \in 0..(n - 1) BY <1>2
  <2>2. \A i \in 0..n : (IF i = 0 THEN 0 ELSE a + g[i - 1]) \in Nat BY <2>1, <1>6
  <2>3. n \in 0..n /\ 0 \in 0..n /\ n /= 0 BY <1>2
  <2> QED BY <2>2, <2>3
<1>10. ASSUME NEW i \in 1..n PROVE h[i] = h[i - 1] + Part(q[i], o)
  <2>1. CASE i = 1
    <3>1. q[1] = Head(q) OBVIOUS
    <3>2. 1 \in 0..n /\ 0 \in 0..n BY <1>2
    <3>3. h[1] = a + g[0] /\ h[0] = 0 BY <3>2
    <3> QED BY <2>1, <3>1, <3>3, <1>6, <1>8
  <2>2. CASE i /= 1
    <3>1. i - 1 \in 1..(n - 1) /\ i - 1 \in 0..n /\ i \in 0..n BY <2>2, <1>2
    <3>2. i - 1 /= 0 /\ i /= 0 /\ (i - 1) + 1 = i BY <3>1
    <3>3. h[i] = a + g[i - 1] /\ h[i - 1] = a + g[i - 1 - 1] BY <3>1, <3>2
    <3>4. g[i - 1] = g[i - 1 - 1] + Part(r[i - 1], o) BY <3>1, <1>5 DEF Sums
    <3>5. r[i - 1] = q[i] BY <3>1, <3>2, <1>4
    <3>6. i - 1 - 1 \in 0..(n - 1) /\ i - 1 \in 0..(n - 1) BY <3>1, <1>2
    <3>7. PICK c : c = Part(q[i], o) OBVIOUS
    <3>8. c \in Nat
      <4>1. q[i] \in Trades BY ElementOfSeq
      <4> QED BY <3>7, <4>1 DEF Part, Trades
    <3> QED BY <3>3, <3>4, <3>5, <3>6, <3>7, <3>8, <1>6
  <2> QED BY <2>1, <2>2
<1> HIDE DEF h
<1>11. Sums(h, q, n, o) BY <1>9, <1>10 DEF Sums
<1>12. SumFor(o, q) = h[n] BY <1>11, SumIs
<1>13. SumFor(o, r) = g[n - 1] BY <1>4, <1>5, SumIs
<1>14. g[n - 1] \in Nat BY <1>2, <1>6
<1> QED BY <1>3, <1>8, <1>9, <1>12, <1>13, <1>14

LEMMA SumNat ==
    ASSUME NEW q \in Seq(Trades), NEW o
    PROVE  SumFor(o, q) \in Nat
<1>1. PICK f : Sums(f, q, Len(q), o) BY SumsExist
<1>2. Len(q) \in Nat BY LenProperties
<1> QED BY <1>1, <1>2, SumIs DEF Sums

LEMMA ConcatHeadTail ==
    ASSUME NEW S, NEW q \in Seq(S), NEW r \in Seq(S), q /= <<>>
    PROVE  /\ q \o r \in Seq(S) /\ q \o r /= <<>>
           /\ Head(q \o r) = Head(q) /\ Tail(q \o r) = Tail(q) \o r
<1> PICK c : c = q \o r OBVIOUS
<1>1. /\ Len(q) \in Nat \ {0} /\ Len(r) \in Nat
      /\ c \in Seq(S) /\ Len(c) = Len(q) + Len(r)
      /\ \A i \in 1..(Len(q) + Len(r)) :
            c[i] = IF i <= Len(q) THEN q[i] ELSE r[i - Len(q)]
  BY ConcatProperties, LenProperties, EmptySeq
<1>2. c /= <<>> BY <1>1, EmptySeq
<1>3. PICK t : t = Tail(q) OBVIOUS
<1>4. /\ t \in Seq(S) /\ Len(t) = Len(q) - 1
      /\ \A i \in 1..Len(t) : t[i] = q[i + 1]
  BY <1>3, HeadTailProperties
<1>5. /\ t \o r \in Seq(S) /\ Len(t \o r) = Len(t) + Len(r)
      /\ \A i \in 1..(Len(t) + Len(r)) :
            (t \o r)[i] = IF i <= Len(t) THEN t[i] ELSE r[i - Len(t)]
  BY <1>1, <1>4, ConcatProperties
<1>6. /\ Tail(c) \in Seq(S) /\ Len(Tail(c)) = Len(c) - 1
      /\ \A i \in 1..Len(Tail(c)) : Tail(c)[i] = c[i + 1]
  BY <1>1, <1>2, HeadTailProperties
<1>7. PICK u, w : u = Tail(c) /\ w = t \o r OBVIOUS
<1>8. Len(u) = Len(w) /\ Len(u) = Len(q) - 1 + Len(r)
  BY <1>1, <1>4, <1>5, <1>6, <1>7
<1>9. ASSUME NEW i \in 1..Len(u) PROVE u[i] = w[i]
  <2>1. i \in 1..(Len(t) + Len(r)) /\ i + 1 \in 1..(Len(q) + Len(r))
    BY <1>1, <1>4, <1>8
  <2>2. u[i] = c[i + 1] BY <1>6, <1>7
  <2>3. CASE i <= Len(t)
    <3>1. i \in 1..Len(t) /\ i + 1 <= Len(q) BY <2>1, <2>3, <1>1, <1>4
    <3> QED BY <2>1, <2>2, <2>3, <3>1, <1>1, <1>4, <1>5, <1>7
  <2>4. CASE ~(i <= Len(t))
    <3>1. ~(i + 1 <= Len(q)) /\ i + 1 - Len(q) = i - Len(t)
      BY <2>1, <2>4, <1>1, <1>4
    <3> QED BY <2>1, <2>2, <2>4, <3>1, <1>1, <1>5, <1>7
  <2> QED BY <2>3, <2>4
<1>10. u \in Seq(S) /\ w \in Seq(S) BY <1>5, <1>6, <1>7
<1>11. u = w BY <1>8, <1>9, <1>10, SeqEqual
<1>12. Head(c) = Head(q)
  <2>1. 1 \in 1..(Len(q) + Len(r)) /\ 1 <= Len(q) BY <1>1
  <2>2. c[1] = q[1] BY <1>1, <2>1
  <2> QED BY <2>2
<1> QED BY <1>1, <1>2, <1>3, <1>7, <1>11, <1>12

LEMMA ConcatAppend ==
    ASSUME NEW q \in Seq(Trades), NEW r \in Seq(Trades), NEW t \in Trades
    PROVE  q \o Append(r, t) = Append(q \o r, t)
<1>1. <<t>> \in Seq(Trades) /\ q \o r \in Seq(Trades) BY ConcatProperties
<1>2. Append(r, t) = r \o <<t>> BY AppendIsConcat
<1>3. Append(q \o r, t) = (q \o r) \o <<t>> BY <1>1, AppendIsConcat
<1>4. (q \o r) \o <<t>> = q \o (r \o <<t>>) BY <1>1, ConcatAssociative
<1> QED BY <1>2, <1>3, <1>4

-----------------------------------------------------------------------------
(* As long as nothing fails, the process stays up and the orders of the    *)
(* table can be encoded, every trade gets into both rows.                  *)

AllEncodable == HasChain => DOMAIN row \subseteq Encodable

\* Trades between two orders of the table.
Known == {t \in RealTrades : /\ t.taker /= t.maker
                             /\ {t.taker, t.maker} \subseteq DOMAIN row}

Shown(o) == IF o \in DOMAIN row THEN row[o].filled ELSE 0

\* What the row shows and what waits for it make up the ledger, which is within
\* the size: so the new amount is never cut off at the size.
Level(o) == /\ traded[o] <= Size(o)
            /\ Shown(o) + SumFor(o, WaitingFor(o)) = traded[o]

Levels == /\ pendingTrades \in Seq(Known) /\ work \in Seq(Known)
          /\ \A o \in Orders : Level(o)

LEMMA KnownType == \A q \in Seq(Known) : q \in Seq(Trades)
BY SeqMonotonic DEF Known, RealTrades

LEMMA LevelsInit == Init => Levels
<1> SUFFICES ASSUME Init PROVE Levels
  OBVIOUS
<1>1. work = <<>> /\ pendingTrades = <<>> /\ spc = "idle" /\ DOMAIN row = {}
  BY DEF Init
<1>2. ASSUME NEW o \in Orders PROVE Level(o)
  <2>1. <<>> \o <<>> = <<>> BY EmptySeq, ConcatEmptySeq
  <2>2. WaitingFor(o) = <<>> BY <1>1, <2>1 DEF WaitingFor, Passed
  <2>3. SumFor(o, WaitingFor(o)) = 0 BY <2>2, SumEmpty
  <2>4. Shown(o) = 0 BY <1>1 DEF Shown
  <2>5. traded[o] = 0 /\ 0 <= Size(o) BY SizePriceType DEF Init, FL!Init
  <2> QED BY <2>3, <2>4, <2>5 DEF Level
<1> QED BY <1>1, <1>2, EmptySeq DEF Levels

\* Steps that move no trade and write no row.
LEMMA LevelsSame ==
    ASSUME Levels, UNCHANGED <<row, work, pendingTrades, traded>>,
           \A o \in Orders : Passed(o)' <=> Passed(o)
    PROVE  Levels'
<1>1. Known' = Known BY DEF Known
<1>2. \A o \in Orders : WaitingFor(o)' = WaitingFor(o) BY DEF WaitingFor
<1>3. \A o \in Orders : Level(o)' <=> Level(o) BY <1>2 DEF Level, Shown
<1> QED BY <1>1, <1>3 DEF Levels

LEMMA InsertRowLevels ==
    ASSUME IInv, Levels, NEW x \in Orders, InsertRow(x)
    PROVE  Levels'
<1>1. /\ x \notin DOMAIN row /\ UNCHANGED <<traded, work, pendingTrades, spc>>
      /\ row' = [y \in DOMAIN row \cup {x} |-> IF y = x THEN NewRow ELSE row[y]]
  BY DEF InsertRow
<1>2. Known \subseteq Known' BY <1>1 DEF Known
<1>3. pendingTrades' \in Seq(Known') /\ work' \in Seq(Known')
  BY <1>1, <1>2, SeqMonotonic DEF Levels
<1>4. ASSUME NEW o \in Orders PROVE Level(o)'
  <2>1. WaitingFor(o)' = WaitingFor(o) BY <1>1 DEF WaitingFor, Passed, Trade0
  <2>2. Shown(o)' = Shown(o) BY <1>1 DEF Shown, NewRow
  <2> QED BY <1>1, <2>1, <2>2 DEF Level, Levels
<1> QED BY <1>3, <1>4 DEF Levels

\* A trade is of two orders of the table, and waits for both rows.
LEMMA MatchLevels ==
    ASSUME IInv, Levels, NEW b \in Orders, NEW s \in Orders, Match(b, s)
    PROVE  Levels'
<1> PICK v : v = FL!Volume(b, s) OBVIOUS
<1> PICK t : t = MatchResult(b, s, v) OBVIOUS
<1>1. /\ Size(b) \in Nat /\ Size(s) \in Nat /\ Price(s) \in Nat
      /\ traded \in [Orders -> Nat]
  BY SizePriceType DEF IInv, TypeOK
<1>2. FL!Size(b) = Size(b) /\ FL!Size(s) = Size(s)
  BY DEF FL!Size, FL!AbsVal, Size, AbsVal
<1>3. /\ v > 0 /\ v \in Nat /\ traded[b] < Size(b) /\ traded[s] < Size(s)
      /\ v <= Size(b) - traded[b] /\ v <= Size(s) - traded[s]
  BY <1>1, <1>2 DEF Match, FL!Trade, FL!Volume, FL!Open
<1>4. b /= s
  BY DEF Match, FL!Trade, FL!Tradable, FL!SideOf
<1>5. /\ traded' = [traded EXCEPT ![b] = @ + v, ![s] = @ + v]
      /\ pendingTrades' = Append(pendingTrades, t)
      /\ {b, s} \subseteq DOMAIN row
      /\ UNCHANGED <<work, spc, tx, total, row, tradeRows, chain>>
  BY DEF Match, FL!Trade
<1>6. t \in RealTrades /\ t \in Trades /\ t.taker = b /\ t.maker = s /\ t.amount = v
  BY <1>1, <1>3 DEF RealTrades, Trades, MatchResult
<1>7. t \in Known BY <1>4, <1>5, <1>6 DEF Known
<1>8. Known' = Known BY <1>5 DEF Known
<1>9. pendingTrades' \in Seq(Known') /\ work' \in Seq(Known')
  BY <1>5, <1>7, <1>8, AppendProperties DEF Levels
<1>10. ASSUME NEW o \in Orders PROVE Level(o)'
  <2>1. traded'[o] = traded[o] + Part(t, o) BY <1>1, <1>3, <1>4, <1>5, <1>6 DEF Part
  <2>2. traded'[o] <= Size(o)
    <3>1. traded[o] <= Size(o) BY DEF Levels, Level
    <3>2. CASE o = b
      <4>1. traded'[o] = traded[b] + v BY <1>1, <1>4, <1>5, <3>2
      <4>2. traded[b] \in Nat BY <1>1
      <4> QED BY <4>1, <4>2, <1>1, <1>3, <3>2
    <3>3. CASE o = s
      <4>1. traded'[o] = traded[s] + v BY <1>1, <1>4, <1>5, <3>3
      <4>2. traded[s] \in Nat BY <1>1
      <4> QED BY <4>1, <4>2, <1>1, <1>3, <3>3
    <3>4. CASE o /= b /\ o /= s
      <4>1. traded'[o] = traded[o] BY <1>1, <1>5, <3>4
      <4> QED BY <4>1, <3>1
    <3> QED BY <3>2, <3>3, <3>4
  <2>3. Shown(o)' = Shown(o) BY <1>5 DEF Shown
  <2> PICK w : w = IF Passed(o) THEN Tail(work) ELSE work OBVIOUS
  <2>4. w \in Seq(Trades) /\ pendingTrades \in Seq(Trades)
    <3>1. work \in Seq(Trades) /\ pendingTrades \in Seq(Trades)
      BY KnownType DEF Levels
    <3>2. Passed(o) => work /= <<>> BY DEF Passed, IInv, TypeOK
    <3>3. Passed(o) => Tail(work) \in Seq(Trades) BY <3>1, <3>2, HeadTailProperties
    <3> QED BY <3>1, <3>3
  <2>5. WaitingFor(o) = w \o pendingTrades BY DEF WaitingFor
  <2>6. WaitingFor(o)' = w \o Append(pendingTrades, t)
    BY <1>5 DEF WaitingFor, Passed, Trade0
  <2>7. WaitingFor(o) \in Seq(Trades) /\ WaitingFor(o)' = Append(WaitingFor(o), t)
    <3>1. w \o pendingTrades \in Seq(Trades) BY <2>4, ConcatProperties
    <3>2. w \o Append(pendingTrades, t) = Append(w \o pendingTrades, t)
      BY <2>4, <1>6, ConcatAppend
    <3>3. WaitingFor(o)' = Append(w \o pendingTrades, t) BY <2>6, <3>2
    <3> QED BY <2>5, <3>1, <3>3
  <2>8. SumFor(o, WaitingFor(o)') = SumFor(o, WaitingFor(o)) + Part(t, o)
    BY <2>7, <1>6, SumAppend
  <2>9. /\ SumFor(o, WaitingFor(o)) \in Nat /\ Part(t, o) \in Nat /\ Shown(o) \in Nat
    BY <2>7, <1>6, SumNat DEF Part, Trades, Shown, IInv, TypeOK, Rows
  <2>10. Shown(o) + SumFor(o, WaitingFor(o)) = traded[o] BY DEF Levels, Level
  <2> QED BY <2>1, <2>2, <2>3, <2>8, <2>9, <2>10 DEF Level
<1> QED BY <1>9, <1>10 DEF Levels

LEMMA SubmitTradesLevels ==
    ASSUME IInv, Levels, SubmitTrades
    PROVE  Levels'
<1>1. /\ spc = "idle" /\ spc' = "build" /\ work' = pendingTrades /\ pendingTrades' = <<>>
      /\ UNCHANGED <<traded, row>>
  BY DEF SubmitTrades
<1>2. work = <<>> BY <1>1 DEF IInv, TypeOK
<1>3. Known' = Known BY <1>1 DEF Known
<1>4. pendingTrades' \in Seq(Known') /\ work' \in Seq(Known')
  BY <1>1, <1>3, EmptySeq DEF Levels
<1>5. <<>> \o pendingTrades = pendingTrades \o <<>>
  BY ConcatEmptySeq DEF Levels
<1>6. ASSUME NEW o \in Orders PROVE Level(o)'
  <2>1. WaitingFor(o)' = WaitingFor(o) BY <1>1, <1>2, <1>5 DEF WaitingFor, Passed
  <2>2. Shown(o)' = Shown(o) BY <1>1 DEF Shown
  <2> QED BY <2>1, <2>2, <1>1 DEF Level, Levels
<1> QED BY <1>4, <1>6 DEF Levels

\* What is in front of the row of an order applyFillStatus has not done yet.
LEMMA FirstWaits ==
    ASSUME IInv, Levels, spc /= "idle", NEW o \in Orders
    PROVE  /\ SumFor(o, work \o pendingTrades)
                = Part(Trade0, o) + SumFor(o, Tail(work) \o pendingTrades)
           /\ SumFor(o, Tail(work) \o pendingTrades) \in Nat /\ Part(Trade0, o) \in Nat
<1>1. /\ work \in Seq(Trades) /\ pendingTrades \in Seq(Trades) /\ work /= <<>>
  BY KnownType DEF Levels, IInv, TypeOK
<1> PICK c : c = work \o pendingTrades OBVIOUS
<1>2. /\ c \in Seq(Trades) /\ c /= <<>> /\ Head(c) = Trade0
      /\ Tail(c) = Tail(work) \o pendingTrades
  BY <1>1, ConcatHeadTail DEF Trade0
<1>3. /\ SumFor(o, c) = Part(Head(c), o) + SumFor(o, Tail(c))
      /\ SumFor(o, Tail(c)) \in Nat /\ Part(Head(c), o) \in Nat
  BY <1>2, SumTail
<1> QED BY <1>2, <1>3

\* The write adds the whole trade to the one row, and the trade waits for that
\* row no longer.
LEMMA WriteRowLevels ==
    ASSUME IInv, Levels, WriteRow
    PROVE  Levels'
<1>1. /\ spc \in {"writeTaker", "writeMaker"}
      /\ spc' = IF spc = "writeTaker" THEN "readMaker" ELSE "record"
      /\ UNCHANGED <<traded, pendingTrades, work>>
      /\ Leg = IF spc = "writeTaker" THEN Trade0.taker ELSE Trade0.maker
      /\ spc /= "idle"
  BY DEF WriteRow, AfterLeg, Leg
<1>2. /\ Leg \in DOMAIN row /\ DOMAIN row' = DOMAIN row /\ row'[Leg].filled = total
      /\ \A o \in DOMAIN row : o /= Leg => row'[o] = row[o]
      /\ row[Leg].filled \in Nat
  BY WriteRowFacts
<1>3. Trade0 \in Known BY <1>1, HeadTailProperties DEF Levels, Trade0, IInv, TypeOK
<1>4. Trade0.taker /= Trade0.maker BY <1>3 DEF Known
<1>5. Known' = Known BY <1>2 DEF Known
<1>6. Trade0' = Trade0 BY <1>1 DEF Trade0
<1>7. ASSUME NEW o \in Orders, o /= Leg PROVE Level(o)'
  <2>1. Passed(o)' <=> Passed(o) BY <1>1, <1>4, <1>6, <1>7 DEF Passed
  <2>2. WaitingFor(o)' = WaitingFor(o) BY <1>1, <2>1 DEF WaitingFor
  <2>3. Shown(o)' = Shown(o) BY <1>2, <1>7 DEF Shown
  <2> QED BY <1>1, <2>2, <2>3 DEF Levels, Level
<1>8. ASSUME NEW o \in Orders, o = Leg PROVE Level(o)'
  <2>1. o \in Orders /\ Trade0.amount \in Nat /\ Size(o) \in Nat BY <1>1, <1>8, HeadIsReal
  <2>2. ~Passed(o) /\ Passed(o)' BY <1>1, <1>4, <1>6, <1>8 DEF Passed
  <2>3. /\ WaitingFor(o) = work \o pendingTrades
        /\ WaitingFor(o)' = Tail(work) \o pendingTrades
    BY <1>1, <2>2 DEF WaitingFor
  <2> PICK rest : rest = SumFor(o, Tail(work) \o pendingTrades) OBVIOUS
  <2>4. Part(Trade0, o) = Trade0.amount BY <1>1, <1>8 DEF Part
  <2>5. rest \in Nat /\ SumFor(o, work \o pendingTrades) = Trade0.amount + rest
    BY <1>1, <2>1, <2>4, FirstWaits
  <2>6. /\ traded[o] <= Size(o) /\ traded[o] \in Nat
        /\ row[o].filled + (Trade0.amount + rest) = traded[o]
    BY <1>2, <1>8, <2>1, <2>3, <2>5 DEF Levels, Level, Shown, IInv, TypeOK
  <2>7. total = Min2(row[o].filled + Trade0.amount, Size(o))
    BY <1>1, <1>8 DEF IInv, Rowed, Writing
  <2>8. total = row[o].filled + Trade0.amount
    BY <1>2, <1>8, <2>1, <2>5, <2>6, <2>7 DEF Min2
  <2>9. Shown(o)' = total BY <1>2, <1>8 DEF Shown
  <2>10. SumFor(o, WaitingFor(o)') = rest BY <2>3
  <2>11. total + rest = traded[o] BY <1>2, <1>8, <2>1, <2>5, <2>6, <2>8
  <2> QED BY <1>1, <2>6, <2>9, <2>10, <2>11 DEF Level
<1>9. \A o \in Orders : Level(o)' BY <1>7, <1>8
<1> QED BY <1>1, <1>5, <1>9 DEF Levels

\* The end of a trade that is in both rows.
LEMMA RecordLevels ==
    ASSUME IInv, Levels, Record \/ RecordFails
    PROVE  Levels'
<1>1. /\ spc = "record" /\ spc' \in {"idle", "build"} /\ work' = Tail(work)
      /\ UNCHANGED <<traded, pendingTrades, row>>
      /\ spc /= "idle"
  BY DEF Record, RecordFails, NextTrade
<1>2. Known' = Known BY <1>1 DEF Known
<1>3. work \in Seq(Known) /\ work /= <<>> BY <1>1 DEF Levels, IInv, TypeOK
<1>4. work' \in Seq(Known') /\ pendingTrades' \in Seq(Known')
  BY <1>1, <1>2, <1>3, HeadTailProperties DEF Levels
<1>5. ASSUME NEW o \in Orders PROVE Level(o)'
  <2>1. WaitingFor(o)' = Tail(work) \o pendingTrades BY <1>1 DEF WaitingFor, Passed
  <2>2. SumFor(o, WaitingFor(o)) = SumFor(o, Tail(work) \o pendingTrades)
    <3>1. CASE Passed(o) BY <3>1 DEF WaitingFor
    <3>2. CASE ~Passed(o)
      <4>1. Part(Trade0, o) = 0 BY <1>1, <3>2 DEF Part, Passed
      <4>2. WaitingFor(o) = work \o pendingTrades BY <3>2 DEF WaitingFor
      <4> QED BY <1>1, <4>1, <4>2, FirstWaits
    <3> QED BY <3>1, <3>2
  <2>3. Shown(o)' = Shown(o) BY <1>1 DEF Shown
  <2> QED BY <1>1, <2>1, <2>2, <2>3 DEF Levels, Level
<1> QED BY <1>4, <1>5 DEF Levels

LEMMA LevelsStep ==
    ASSUME Faults = {}, AllEncodable, IInv, Levels, [Step]_vars
    PROVE  Levels'
<1>1. spc /= "idle" => /\ Trade0 \in Known /\ {Trade0.taker, Trade0.maker} \subseteq DOMAIN row
                       /\ Leg \in DOMAIN row
  <2> SUFFICES ASSUME spc /= "idle" PROVE Trade0 \in Known
    BY DEF Known, Leg
  <2> QED BY HeadTailProperties DEF Levels, Trade0, IInv, TypeOK
<1>2. CASE UNCHANGED vars BY <1>2, LevelsSame DEF vars, Passed, Trade0
<1>3. ASSUME NEW o \in Orders, InsertRow(o) PROVE Levels' BY <1>3, InsertRowLevels
<1>4. ASSUME NEW b \in Orders, NEW s \in Orders, Match(b, s) PROVE Levels'
  BY <1>4, MatchLevels
<1>5. CASE SubmitTrades BY <1>5, SubmitTradesLevels
<1>6. CASE Build
  <2>1. spc = "build" BY <1>6 DEF Build
  <2>2. HasChain => {Trade0.taker, Trade0.maker} \subseteq Encodable
    BY <2>1, <1>1 DEF AllEncodable
  <2>3. /\ spc' \in {"send", "readTaker"}
        /\ UNCHANGED <<row, work, pendingTrades, traded>>
    BY <1>6, <2>2 DEF Build
  <2> QED BY <2>1, <2>3, LevelsSame DEF Passed
<1>7. CASE Send \/ WaitMined \/ FindRow
  <2>1. /\ UNCHANGED <<row, work, pendingTrades, traded>>
        /\ \/ spc \in {"send", "wait", "readTaker"} /\ spc' \in {"wait", "readTaker", "writeTaker"}
           \/ spc = "readMaker" /\ spc' = "writeMaker"
    BY <1>7 DEF Send, WaitMined, FindRow
  <2> QED BY <2>1, LevelsSame DEF Passed, Trade0
<1>8. CASE FindRowFails BY <1>1, <1>8 DEF FindRowFails
<1>9. CASE SendFails \/ WriteRowFails BY <1>9 DEF SendFails, WriteRowFails
<1>10. CASE WriteRow BY <1>10, WriteRowLevels
<1>11. CASE Record \/ RecordFails BY <1>11, RecordLevels
<1>12. CASE MineStep
  <2>1. UNCHANGED <<row, work, pendingTrades, traded, spc>> BY <1>12 DEF MineStep, Mine
  <2> QED BY <2>1, LevelsSame DEF Passed, Trade0
<1> QED
  BY <1>2, <1>3, <1>4, <1>5, <1>6, <1>7, <1>8, <1>9, <1>10, <1>11, <1>12
  DEF Step, SubmitStep

LEMMA LevelsGive == IInv /\ Levels => NothingLost
BY DEF IInv, TypeOK, Levels, Level, Shown, NothingLost

\* Without faults or restarts, no amount that was traded is lost on the way to
\* the rows: applyFillStatus adds each trade to both, once, and cuts nothing off
\* (matchengine.go:361-384).
THEOREM NothingIsLost ==
    Faults = {} /\ Init /\ [][Step]_vars /\ []AllEncodable => []NothingLost
<1>1. Init => IInv /\ Levels BY InitInv, LevelsInit
<1>2. Faults = {} /\ AllEncodable /\ IInv /\ Levels /\ [Step]_vars => IInv' /\ Levels'
  BY StepInv, LevelsStep DEF Next
<1>3. Faults = {} => (Faults = {})' OBVIOUS
<1> QED BY <1>1, <1>2, <1>3, LevelsGive, PTL

=========================
