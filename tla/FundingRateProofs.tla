------------------------- MODULE FundingRateProofs -------------------------
(***************************************************************************)
(* Proofs about FundingRate, for any markets, prices and limit and whenever *)
(* the updates are mined: one is only undone by the next if it was pending *)
(* when that one's index was read; if the limit is a number the code can   *)
(* read, no other update exceeds it; what is recorded was sent.            *)
(***************************************************************************)
EXTENDS FundingRate, SequenceTheorems, TLAPS

\* The limit holds whatever the premium is.
LEMMA ClampBounds ==
    ASSUME NEW step \in Int
    PROVE  /\ Clamp(step) \in Int
           /\ LimitIsInteger => Clamp(step) \in (-Limit)..Limit
  BY LimitAssumption DEF Clamp, MaxStep

\* fundingDelta returns an integer within the limit for any prices read.
LEMMA DeltaBounds ==
    ASSUME NEW mark \in Nat, NEW idx \in Nat
    PROVE  /\ FundingDelta(mark, idx) \in Int
           /\ LimitIsInteger => FundingDelta(mark, idx) \in (-Limit)..Limit
<1>1. CASE idx = 0
  BY <1>1, LimitAssumption DEF FundingDelta
<1>2. CASE idx /= 0
  <2>1. (((mark - idx) * Scale) \div idx) \div 3 \in Int
    BY <1>2, ScaleAssumption
  <2> QED
    BY <1>2, <2>1, ClampBounds DEF FundingDelta
<1> QED
  BY <1>1, <1>2

\* A row computed from what was read starts at the index read and is within
\* the limit.
LEMMA NewRowFacts ==
    ASSUME old \in Int, missed \in SUBSET Nat, NEW m \in Markets,
           NEW mark \in MarkReads, NEW idx \in IndexReads(m)
    PROVE  /\ NewRow(mark, idx) \in [old : Int, new : Int, missed : SUBSET Nat]
           /\ NewRow(mark, idx).old = old
           /\ NewRow(mark, idx).missed = missed
           /\ LimitIsInteger =>
                NewRow(mark, idx).new - NewRow(mark, idx).old \in (-Limit)..Limit
<1>1. mark \in Nat /\ idx \in Nat
  BY PricesAssumption DEF MarkReads, IndexReads
<1>2. /\ FundingDelta(mark, idx) \in Int
      /\ LimitIsInteger => FundingDelta(mark, idx) \in (-Limit)..Limit
  BY <1>1, DeltaBounds
<1> QED
  BY <1>2, LimitAssumption DEF NewRow

-----------------------------------------------------------------------------

Outcomes == {"pending", "ok", "reverted"}

Updates == [rows : Settlements, outcome : Outcomes]

LEMMA InitInv == Init => IInv
<1> SUFFICES ASSUME Init PROVE IInv
  OBVIOUS
<1>1. NoRows \in Settlements /\ InRows(NoRows) = {} /\ Pending = {}
  BY DEF Init, NoRows, Settlements, InRows, Pending
<1>2. TypeOK
  BY <1>1, RoundsAssumption, NoMarketAssumption DEF Init, TypeOK
<1> QED
  BY <1>1, <1>2 DEF Init, IInv, WithinLimit

\* What a step that leaves the chain alone keeps: what is pending, and where a
\* read stands.
LEMMA ChainKept ==
    ASSUME UNCHANGED <<index, chain>>
    PROVE  /\ Pending' = Pending
           /\ \A update, n : ReadsOf(update, n)' <=> ReadsOf(update, n)
           /\ \A m, read, updates, n :
                 ReadOf(m, read, updates, n)' <=> ReadOf(m, read, updates, n)
  BY DEF Pending, ReadsOf, ReadOf, Moved, InRows

\* A step that leaves the chain alone and neither reads nor computes.
LEMMA QuietStep ==
    ASSUME IInv, TypeOK', UNCHANGED <<index, chain>>,
           Tick \/ NothingRead \/ AllRecorded \/ Restart
             \/ (\E m \in Markets : ReadOldFails(m) \/ Record(m))
             \/ UNCHANGED vars
    PROVE  IInv'
<1> USE DEF IInv
<1>1. InRows(NoRows) = {}
  BY DEF NoRows, InRows
<1>2. \A i \in Pending' : ReadsOf(chain[i].rows, i - 1)'
  BY ChainKept DEF ReadsOf, ReadOf, Moved, InRows, Pending
<1>3. LimitIsInteger => \A i \in Pending' : WithinLimit(chain'[i].rows)
  BY ChainKept
<1>4. /\ ReadsOf(NoRows, Len(chain))' /\ WithinLimit(NoRows)'
      /\ NoRows' = NoRows
  BY <1>1 DEF ReadsOf, WithinLimit, NoRows, InRows
<1>5. CASE rows' = NoRows /\ pc' \in {"idle", "read"}
  BY <1>2, <1>3, <1>4, <1>5 DEF WithinLimit, InRows
<1>6. CASE rows' = rows /\ pc' = pc /\ old' = old /\ cur' = cur /\ missed' = missed
  BY <1>2, <1>3, <1>6, ChainKept DEF ReadsOf, ReadOf, Moved, WithinLimit, InRows, Pending
<1>7. CASE Tick
  BY <1>5, <1>7 DEF Tick
<1>8. CASE NothingRead
  BY <1>5, <1>8 DEF NothingRead
<1> QED
  BY <1>5, <1>6, <1>7, <1>8 DEF AllRecorded, Restart, ReadOldFails, Record, vars

LEMMA ReadOldStep ==
    ASSUME IInv, NEW m \in Markets, ReadOld(m)
    PROVE  IInv'
<1>1. Pending \subseteq 1..Len(chain) /\ Pending \in SUBSET Nat
  <2>1. chain \in Seq(Updates)
    BY DEF IInv, TypeOK, Updates, Outcomes
  <2> QED
    BY <2>1, LenProperties DEF Pending
<1>2. TypeOK'
  BY <1>1, NoMarketAssumption DEF IInv, TypeOK, ReadOld
<1>3. ReadOf(cur, old, missed, Len(chain))'
  BY <1>1, ChainKept DEF ReadOld, ReadOf, Pending
<1>4. /\ rows' = rows /\ chain' = chain /\ Pending' = Pending /\ pc = "read"
      /\ pc' = "prices"
  BY ChainKept DEF ReadOld
<1>5. ReadsOf(rows, Len(chain))'
  BY <1>4, ChainKept DEF ReadOld, IInv, ReadsOf, ReadOf, Moved, InRows, Pending
<1>6. \A i \in Pending' : ReadsOf(chain[i].rows, i - 1)'
  BY <1>4, ChainKept DEF ReadOld, IInv, ReadsOf, ReadOf, Moved, InRows, Pending
<1> QED
  BY <1>2, <1>3, <1>4, <1>5, <1>6 DEF IInv, WithinLimit, InRows

LEMMA ReadPricesStep ==
    ASSUME IInv, ReadPrices
    PROVE  IInv'
<1>1. PICK mark \in MarkReads, idx \in IndexReads(cur) :
         rows' = [rows EXCEPT ![cur] = NewRow(mark, idx)]
  BY DEF ReadPrices
<1>2. /\ cur \in Markets /\ old \in Int /\ missed \in SUBSET Nat
      /\ ReadOf(cur, old, missed, Len(chain))
  BY DEF ReadPrices, IInv, TypeOK
<1>3. /\ NewRow(mark, idx) \in [old : Int, new : Int, missed : SUBSET Nat]
      /\ NewRow(mark, idx).old = old
      /\ NewRow(mark, idx).missed = missed
      /\ LimitIsInteger =>
           NewRow(mark, idx).new - NewRow(mark, idx).old \in (-Limit)..Limit
  BY <1>2, NewRowFacts
<1>4. rows \in Settlements
  BY DEF IInv, TypeOK
<1>5. rows' \in Settlements
  BY <1>1, <1>3, <1>4 DEF Settlements
<1>6. /\ rows'[cur] = NewRow(mark, idx)
      /\ \A m \in Markets \ {cur} : rows'[m] = rows[m]
  BY <1>1, <1>2, <1>4 DEF Settlements
<1>7. TypeOK'
  <2>1. todo' \cap InRows(rows') = {}
    BY <1>6 DEF ReadPrices, IInv, TypeOK, InRows
  <2> QED
    BY <1>5, <2>1, NoMarketAssumption DEF ReadPrices, IInv, TypeOK, InRows
<1>8. ReadsOf(rows', Len(chain))
  BY <1>2, <1>3, <1>6 DEF ReadPrices, IInv, ReadsOf, InRows
<1>9. LimitIsInteger => WithinLimit(rows')
  BY <1>3, <1>6 DEF IInv, WithinLimit, InRows
<1>10. UNCHANGED <<index, chain>> /\ pc' = "read"
  BY DEF ReadPrices
<1>11. ReadsOf(rows, Len(chain))'
  BY <1>8, <1>10 DEF ReadsOf, ReadOf, Moved, InRows, Pending
<1>12. /\ Pending' = Pending
       /\ \A i \in Pending' : ReadsOf(chain[i].rows, i - 1)'
  BY <1>10 DEF IInv, ReadsOf, ReadOf, Moved, InRows, Pending
<1> QED
  BY <1>7, <1>9, <1>10, <1>11, <1>12 DEF IInv, WithinLimit, InRows

\* The keeper sends: the update's reads stand as they did, as the last one.
LEMMA AcceptedStep ==
    ASSUME IInv, pc = "read", Accepted, UNCHANGED index,
           TypeOK', pc' \in {"idle", "record"},
           rows' \in {rows, NoRows}, pc' = "idle" => rows' = NoRows
    PROVE  IInv'
<1> DEFINE update == [rows |-> rows, outcome |-> "pending"]
<1>1. chain \in Seq(Updates)
  BY DEF IInv, TypeOK, Updates, Outcomes
<1>2. /\ Len(chain) \in Nat
      /\ DOMAIN chain = 1..Len(chain)
      /\ DOMAIN chain' = 1..(Len(chain) + 1)
      /\ chain'[Len(chain) + 1] = update
      /\ \A i \in 1..Len(chain) : chain'[i] = chain[i]
  BY <1>1 DEF Accepted
<1>3. Pending' = Pending \cup {Len(chain) + 1}
  BY <1>2 DEF Pending
<1>4. ASSUME NEW m, NEW read, NEW updates, NEW n \in Nat, n <= Len(chain),
             ReadOf(m, read, updates, n)
      PROVE  ReadOf(m, read, updates, n)'
  <2>1. {j \in Pending' : j <= n} \subseteq updates
    BY <1>2, <1>3, <1>4 DEF ReadOf
  <2>2. \A j \in updates : chain'[j] = chain[j]
    BY <1>2, <1>4 DEF ReadOf
  <2>3. Moved(m, updates) => Moved(m, updates)'
    BY <2>2 DEF Moved, InRows
  <2> QED
    BY <2>1, <2>3, <1>4 DEF ReadOf
<1>5. \A i \in Pending : ReadsOf(chain[i].rows, i - 1)'
  <2> SUFFICES ASSUME NEW i \in Pending PROVE ReadsOf(chain[i].rows, i - 1)'
    OBVIOUS
  <2>1. i \in 1..Len(chain) /\ i - 1 \in Nat /\ i - 1 <= Len(chain)
    BY <1>2 DEF Pending
  <2>2. ReadsOf(chain[i].rows, i - 1) /\ chain'[i].rows = chain[i].rows
    BY <1>2, <2>1 DEF IInv
  <2> QED
    BY <1>4, <2>1, <2>2 DEF ReadsOf, InRows
<1>6. \A m \in InRows(rows) : ReadOf(m, rows[m].old, rows[m].missed, Len(chain))
  BY DEF IInv, ReadsOf
<1>7. \A i \in Pending' : ReadsOf(chain[i].rows, i - 1)'
  <2> SUFFICES ASSUME NEW i \in Pending' PROVE ReadsOf(chain[i].rows, i - 1)'
    OBVIOUS
  <2>1. CASE i \in Pending
    BY <1>5, <2>1
  <2>2. CASE i = Len(chain) + 1
    <3>1. i - 1 = Len(chain) /\ i - 1 \in Nat /\ chain'[i].rows = rows
      BY <1>2, <2>2
    <3>2. \A m \in InRows(rows) : ReadOf(m, rows[m].old, rows[m].missed, i - 1)
      BY <1>6, <3>1
    <3> QED
      BY <1>2, <1>4, <3>1, <3>2 DEF ReadsOf, InRows
  <2> QED
    BY <1>3, <2>1, <2>2
<1>8. LimitIsInteger => /\ WithinLimit(rows')
                        /\ \A i \in Pending' : WithinLimit(chain'[i].rows)
  <2> SUFFICES ASSUME LimitIsInteger
               PROVE  /\ WithinLimit(rows')
                      /\ \A i \in Pending' : WithinLimit(chain'[i].rows)
    OBVIOUS
  <2>1. WithinLimit(rows) /\ WithinLimit(NoRows)
    BY DEF IInv, WithinLimit, NoRows, InRows
  <2>2. \A i \in Pending : i \in 1..Len(chain) /\ WithinLimit(chain[i].rows)
    BY <1>2 DEF IInv, Pending
  <2> QED
    BY <1>2, <1>3, <2>1, <2>2
<1> QED
  BY <1>7, <1>8 DEF IInv

LEMMA SubmitStep ==
    ASSUME IInv, Submit \/ SubmitFails
    PROVE  IInv'
<1>1. CASE Accepted
  <2>1. NoRows \in Settlements
    BY DEF NoRows, Settlements
  <2>2. TypeOK'
    <3>1. chain' \in Seq([rows : Settlements, outcome : {"pending", "ok", "reverted"}])
      BY <1>1 DEF Accepted, IInv, TypeOK
    <3> QED
      BY <2>1, <3>1 DEF Submit, SubmitFails, IInv, TypeOK, InRows
  <2> QED
    BY <1>1, <2>2, AcceptedStep DEF Submit, SubmitFails
<1>2. CASE chain' = chain
  <2>1. chain /= Append(chain, [rows |-> rows, outcome |-> "pending"])
    BY DEF IInv, TypeOK
  <2>2. SubmitFails
    BY <1>2, <2>1 DEF Submit, SubmitFails, Accepted
  <2>3. TypeOK'
    BY <1>2, <2>2 DEF SubmitFails, IInv, TypeOK, NoRows, Settlements, InRows
  <2>4. /\ \A i \in Pending' : ReadsOf(chain[i].rows, i - 1)'
        /\ Pending' = Pending
    BY <1>2, <2>2 DEF SubmitFails, IInv, ReadsOf, ReadOf, Moved, InRows, Pending
  <2> QED
    BY <1>2, <2>2, <2>3, <2>4 DEF SubmitFails, IInv, WithinLimit, NoRows, InRows
<1> QED
  BY <1>1, <1>2 DEF Submit, SubmitFails

\* What mining the next update leaves of the chain.
LEMMA Mined ==
    ASSUME IInv, NEW i \in DOMAIN chain, Mine(i)
    PROVE  /\ DOMAIN chain = 1..Len(chain) /\ Len(chain') = Len(chain)
           /\ DOMAIN chain' = DOMAIN chain
           /\ chain' \in Seq(Updates)
           /\ \A j \in DOMAIN chain : chain'[j].rows = chain[j].rows
           /\ \A j \in DOMAIN chain \ {i} : chain'[j] = chain[j]
           /\ i \in Pending /\ Pending' = Pending \ {i}
           /\ \A j \in Pending : i <= j
           /\ \/ UNCHANGED index
              \/ /\ chain'[i].outcome = "ok"
                 /\ index' = [m \in Markets |-> IF m \in InRows(chain[i].rows)
                                                THEN chain[i].rows[m].new ELSE index[m]]
<1>1. PICK o \in {"ok", "reverted"} :
         /\ chain' = [chain EXCEPT ![i] = [chain[i] EXCEPT !.outcome = o]]
         /\ \/ UNCHANGED index
            \/ /\ o = "ok"
               /\ index' = [m \in Markets |-> IF m \in InRows(chain[i].rows)
                                              THEN chain[i].rows[m].new ELSE index[m]]
  BY DEF Mine
<1>2. chain \in Seq(Updates)
  BY DEF IInv, TypeOK, Updates, Outcomes
<1>3. /\ DOMAIN chain = 1..Len(chain) /\ Len(chain) \in Nat
      /\ chain[i] \in Updates
  BY <1>2, ElementOfSeq, LenProperties
<1> DEFINE new == [chain[i] EXCEPT !.outcome = o]
<1>4. new \in Updates /\ new.rows = chain[i].rows /\ new.outcome = o
  BY <1>3 DEF Updates, Outcomes
<1>5. chain' = [chain EXCEPT ![i] = new]
  BY <1>1
<1> HIDE DEF new
<1>6. chain' \in Seq(Updates)
  BY <1>2, <1>4, <1>5, ExceptSeq
<1>7. /\ DOMAIN chain' = DOMAIN chain
      /\ chain'[i] = new
      /\ \A j \in DOMAIN chain \ {i} : chain'[j] = chain[j]
  BY <1>5
<1>8. Len(chain') = Len(chain)
  BY <1>2, <1>3, <1>6, <1>7, LenProperties
<1>9. /\ i \in Pending /\ Pending' = Pending \ {i}
      /\ \A j \in Pending : i <= j
  BY <1>3, <1>4, <1>7 DEF Mine, Pending
<1> QED
  BY <1>1, <1>3, <1>4, <1>6, <1>7, <1>8, <1>9

\* A read keeps its place when an update before it is mined: that one was
\* pending at the read, so it is among the missed ones.
LEMMA ReadKept ==
    ASSUME IInv, NEW i \in DOMAIN chain, Mine(i),
           NEW m \in Markets, NEW read, NEW updates, NEW n \in Nat,
           i <= n, n <= Len(chain), ReadOf(m, read, updates, n)
    PROVE  ReadOf(m, read, updates, n)'
<1>1. i \in updates /\ {j \in Pending' : j <= n} \subseteq updates
  BY Mined DEF ReadOf
<1>2. \A j \in updates : j \in DOMAIN chain
  BY Mined DEF ReadOf
<1>3. Moved(m, updates) => Moved(m, updates)'
  <2> SUFFICES ASSUME NEW j \in updates, chain[j].outcome = "ok",
                      m \in InRows(chain[j].rows)
               PROVE  Moved(m, updates)'
    BY DEF Moved
  <2>1. j /= i
    BY Mined DEF Pending
  <2>2. chain'[j] = chain[j]
    BY <1>2, <2>1, Mined
  <2> QED
    BY <2>2 DEF Moved, InRows
<1>4. index'[m] = index[m] \/ Moved(m, updates)'
  <2>1. CASE UNCHANGED index
    BY <2>1
  <2>2. CASE /\ chain'[i].outcome = "ok"
             /\ index' = [q \in Markets |-> IF q \in InRows(chain[i].rows)
                                            THEN chain[i].rows[q].new ELSE index[q]]
    <3>1. chain'[i].rows = chain[i].rows
      BY Mined
    <3> QED
      BY <1>1, <2>2, <3>1 DEF Moved, InRows
  <2> QED
    BY <2>1, <2>2, Mined
<1> QED
  BY <1>1, <1>3, <1>4 DEF ReadOf

\* The next update is mined, whatever the keeper is doing.
LEMMA MineStep ==
    ASSUME IInv, NEW i \in DOMAIN chain, Mine(i)
    PROVE  IInv'
<1>1. /\ DOMAIN chain = 1..Len(chain) /\ Len(chain) \in Nat /\ i \in 1..Len(chain)
      /\ chain \in Seq(Updates)
  <2>1. chain \in Seq(Updates)
    BY DEF IInv, TypeOK, Updates, Outcomes
  <2> QED
    BY <2>1, LenProperties
<1>2. UNCHANGED <<pc, todo, cur, old, missed, rows, table, rounds>>
  BY DEF Mine
<1>3. TypeOK'
  <2>1. chain[i].rows \in Settlements
    <3>1. chain[i] \in Updates
      BY <1>1, ElementOfSeq
    <3> QED
      BY <3>1 DEF Updates
  <2>2. \A m \in InRows(chain[i].rows) : chain[i].rows[m].new \in Int
    BY <2>1 DEF InRows, Settlements
  <2>3. index' \in [Markets -> Int]
    BY <2>2 DEF Mine, IInv, TypeOK
  <2>4. chain' \in Seq([rows : Settlements, outcome : {"pending", "ok", "reverted"}])
    BY Mined DEF Updates, Outcomes
  <2> QED
    BY <1>2, <2>3, <2>4 DEF IInv, TypeOK, InRows
<1>4. pc \in {"read", "prices"} => ReadsOf(rows, Len(chain))'
  <2> SUFFICES ASSUME pc \in {"read", "prices"}, NEW m \in InRows(rows)
               PROVE  ReadOf(m, rows[m].old, rows[m].missed, Len(chain))'
    BY <1>2 DEF ReadsOf, InRows
  <2>1. ReadOf(m, rows[m].old, rows[m].missed, Len(chain)) /\ m \in Markets
    BY DEF IInv, ReadsOf, InRows
  <2>2. Len(chain') = Len(chain)
    BY Mined
  <2> DEFINE n == Len(chain)  read == rows[m].old  updates == rows[m].missed
  <2>3. ReadOf(m, read, updates, n) /\ n \in Nat /\ i <= n /\ n <= Len(chain)
    BY <1>1, <2>1
  <2>4. n' = n /\ read' = read /\ updates' = updates
    BY <1>2, <2>2
  <2> HIDE DEF n, read, updates
  <2>5. \A nn \in Nat : \A rd, ups :
           i <= nn /\ nn <= Len(chain) /\ ReadOf(m, rd, ups, nn) => ReadOf(m, rd, ups, nn)'
    BY <2>1, ReadKept
  <2>6. ReadOf(m, read, updates, n)'
    BY <2>3, <2>4, <2>5
  <2> QED
    BY <2>6 DEF n, read, updates
<1>5. pc = "prices" => ReadOf(cur, old, missed, Len(chain))'
  <2> SUFFICES ASSUME pc = "prices" PROVE ReadOf(cur, old, missed, Len(chain))'
    OBVIOUS
  <2>1. ReadOf(cur, old, missed, Len(chain)) /\ cur \in Markets
    BY NoMarketAssumption DEF IInv, TypeOK
  <2>2. \A m \in Markets, nn \in Nat : \A rd, ups :
           i <= nn /\ nn <= Len(chain) /\ ReadOf(m, rd, ups, nn) => ReadOf(m, rd, ups, nn)'
    BY ReadKept
  <2>3. Len(chain') = Len(chain)
    BY Mined
  <2> QED
    BY <1>1, <1>2, <2>1, <2>2, <2>3
<1>6. \A j \in Pending' : ReadsOf(chain[j].rows, j - 1)'
  <2> SUFFICES ASSUME NEW j \in Pending',
                      NEW m \in InRows(chain[j].rows)
               PROVE  ReadOf(m, chain[j].rows[m].old, chain[j].rows[m].missed, j - 1)'
    BY Mined DEF ReadsOf, InRows, Pending
  <2>1. /\ j \in Pending /\ j \in DOMAIN chain /\ i < j /\ m \in Markets
        /\ chain'[j] = chain[j]
    BY <1>1, Mined DEF Pending, InRows
  <2>2. ReadOf(m, chain[j].rows[m].old, chain[j].rows[m].missed, j - 1)
    BY <2>1 DEF IInv, ReadsOf
  <2>3. j - 1 \in Nat /\ i <= j - 1 /\ j - 1 <= Len(chain)
    BY <1>1, <2>1
  <2>4. \A nn \in Nat : \A rd, ups :
           i <= nn /\ nn <= Len(chain) /\ ReadOf(m, rd, ups, nn) => ReadOf(m, rd, ups, nn)'
    BY <2>1, ReadKept
  <2> QED
    BY <2>1, <2>2, <2>3, <2>4
<1>7. LimitIsInteger => \A j \in Pending' : WithinLimit(chain'[j].rows)
  BY Mined DEF IInv, Pending
<1> QED
  BY <1>2, <1>3, <1>4, <1>5, <1>6, <1>7 DEF IInv, WithinLimit, InRows

-----------------------------------------------------------------------------

\* IInv holds throughout, for any markets, prices and limit.
THEOREM Invariance == Spec => []IInv
<1>1. IInv /\ [Next]_vars => IInv'
  <2> SUFFICES ASSUME IInv, [Next]_vars PROVE IInv'
    OBVIOUS
  <2>1. CASE \E i \in DOMAIN chain : Mine(i)
    BY <2>1, MineStep
  <2>2. CASE \E m \in Markets : ReadOld(m)
    BY <2>2, ReadOldStep
  <2>3. CASE ReadPrices
    BY <2>3, ReadPricesStep
  <2>4. CASE Submit \/ SubmitFails
    BY <2>4, SubmitStep
  <2>5. CASE \/ Tick \/ NothingRead \/ AllRecorded \/ Restart
             \/ \E m \in Markets : ReadOldFails(m) \/ Record(m)
             \/ UNCHANGED vars
    <3>1. NoRows \in Settlements /\ InRows(NoRows) = {}
      BY DEF NoRows, Settlements, InRows
    <3>2. UNCHANGED <<index, chain>> /\ rows' \in {rows, NoRows}
      BY <2>5 DEF Tick, NothingRead, AllRecorded, Restart, ReadOldFails, Record, vars
    <3>3. old' \in {old, 0} /\ (missed' = missed \/ missed' = {})
      BY <2>5 DEF Tick, NothingRead, AllRecorded, Restart, ReadOldFails, Record, vars
    <3>4. rows' \in Settlements /\ old' \in Int /\ missed' \in SUBSET Nat
      <4>1. rows \in Settlements /\ old \in Int /\ missed \in SUBSET Nat
        BY DEF IInv, TypeOK
      <4>2. {} \in SUBSET Nat
        OBVIOUS
      <4>3. old' \in Int
        BY <3>3, <4>1
      <4>4. missed' \in SUBSET Nat
        BY <3>3, <4>1, <4>2, Zenon
      <4>5. rows' \in Settlements
        BY <3>1, <3>2, <4>1
      <4> QED
        BY <4>3, <4>4, <4>5
    <3>5. TypeOK'
      <4>1. CASE Tick
        BY <4>1, <3>1, <3>4, RoundsAssumption DEF Tick, IInv, TypeOK, InRows
      <4>2. CASE ~ Tick
        BY <2>5, <4>2, <3>1, <3>2, <3>4, NoMarketAssumption
        DEF IInv, TypeOK, NothingRead, AllRecorded, Restart, ReadOldFails,
            Record, vars, InRows
      <4> QED
        BY <4>1, <4>2
    <3> QED
      BY <2>5, <3>2, <3>5, QuietStep
  <2> QED
    BY <2>1, <2>2, <2>3, <2>4, <2>5 DEF Next, KeeperStep
<1> QED
  BY <1>1, InitInv, PTL DEF Spec

\* The keeper's state keeps its types: a market is read once per round.
THEOREM TypeCorrect == Spec => []TypeOK
<1>1. IInv => TypeOK
  BY DEF IInv
<1> QED
  BY <1>1, Invariance, PTL

\* An update that takes effect was computed from the index it replaces, or
\* replaces what an update pending at its read did: for any markets and prices,
\* however late the updates are mined and whatever calls fail (lines 64, 77).
THEOREM UpdatesAddUp == Spec => NoUpdateLost
<1>1. IInv /\ [Next]_vars =>
        [\A i \in DOMAIN chain : TakesEffect(i) =>
           \A m \in InRows(chain[i].rows) :
              \/ index[m] = chain[i].rows[m].old
              \/ Moved(m, chain[i].rows[m].missed)]_vars
  BY DEF IInv, ReadsOf, ReadOf, TakesEffect, Pending
<1> QED
  BY <1>1, Invariance, PTL DEF Spec, NoUpdateLost

\* With a limit the code can read, a step of an index that exceeds it undoes an
\* update that was pending when the index was read, whatever prices are read
\* or fail to be read (metanode.yaml:74).
THEOREM LimitHolds ==
    ASSUME LimitIsInteger
    PROVE  Spec => StepWithinLimit
<1> DEFINE Overlapped(m) == \E i \in DOMAIN chain : /\ TakesEffect(i)
                                                    /\ m \in InRows(chain[i].rows)
                                                    /\ Moved(m, chain[i].rows[m].missed)
<1>1. IInv /\ [Next]_vars =>
        [\A m \in Markets : \/ index'[m] - index[m] \in (-Limit)..Limit
                            \/ Overlapped(m)]_index
  <2> SUFFICES ASSUME IInv, Next, index' /= index, NEW m \in Markets, ~ Overlapped(m)
               PROVE  index'[m] - index[m] \in (-Limit)..Limit
    BY DEF vars
  <2>1. PICK i \in DOMAIN chain : Mine(i)
    BY DEF Next, KeeperStep, Tick, ReadOld, ReadOldFails, Record, ReadPrices,
           NothingRead, Submit, SubmitFails, AllRecorded, Restart
  <2>2. /\ index' = [q \in Markets |-> IF q \in InRows(chain[i].rows)
                                       THEN chain[i].rows[q].new ELSE index[q]]
        /\ i \in Pending /\ chain'[i].outcome = "ok"
    BY <2>1, Mined
  <2>3. TakesEffect(i) /\ ReadsOf(chain[i].rows, i - 1) /\ WithinLimit(chain[i].rows)
    BY <2>2 DEF IInv, TakesEffect, Pending
  <2>4. index[m] \in Int
    BY DEF IInv, TypeOK
  <2>5. CASE m \in InRows(chain[i].rows)
    <3>1. index[m] = chain[i].rows[m].old
      BY <2>3, <2>5 DEF ReadsOf, ReadOf
    <3> QED
      BY <2>2, <2>3, <2>5, <3>1 DEF WithinLimit
  <2>6. CASE m \notin InRows(chain[i].rows)
    BY <2>2, <2>4, <2>6, LimitAssumption
  <2> QED
    BY <2>5, <2>6
<1> QED
  BY <1>1, Invariance, PTL DEF Spec, StepWithinLimit

-----------------------------------------------------------------------------
(* What is recorded.                                                       *)

Sent(R) == [rows : R, outcome : {"pending", "ok", "reverted"}]

\* While rows are recorded, the update they belong to is on the chain.
RecordInv ==
    /\ \E R : chain \in Seq(Sent(R))
    /\ pc = "record" => /\ todo \subseteq InRows(rows)
                        /\ \E i \in DOMAIN chain : chain[i].rows = rows
    /\ RecordedWasSent

\* No step takes an update from the chain or changes its rows.
LEMMA ChainKeepsRows ==
    ASSUME RecordInv, [Next]_vars
    PROVE  /\ \E R : chain' \in Seq(Sent(R))
           /\ DOMAIN chain \subseteq DOMAIN chain'
           /\ \A i \in DOMAIN chain : chain'[i].rows = chain[i].rows
<1>1. PICK R : chain \in Seq(Sent(R)) BY DEF RecordInv
<1>2. CASE UNCHANGED chain BY <1>1, <1>2
<1>3. CASE Accepted
  <2> DEFINE T == Sent(R \cup {rows})
  <2>1. chain \in Seq(T)
    <3>1. Sent(R) \subseteq T BY DEF Sent
    <3> HIDE DEF T
    <3> QED BY <1>1, <3>1, SeqMonotonic
  <2>2. [rows |-> rows, outcome |-> "pending"] \in T BY DEF Sent
  <2> HIDE DEF T
  <2>3. /\ chain' \in Seq(T)
        /\ Len(chain') = Len(chain) + 1
        /\ \A i \in 1..Len(chain) : chain'[i] = chain[i]
    BY <1>3, <2>1, <2>2, AppendProperties DEF Accepted
  <2>4. /\ Len(chain) \in Nat /\ DOMAIN chain = 1..Len(chain)
        /\ DOMAIN chain' = 1..Len(chain')
    BY <2>1, <2>3, LenProperties
  <2> QED BY <2>3, <2>4 DEF T
<1>4. ASSUME NEW i \in DOMAIN chain, Mine(i)
      PROVE  /\ chain' \in Seq(Sent(R))
             /\ DOMAIN chain \subseteq DOMAIN chain'
             /\ \A j \in DOMAIN chain : chain'[j].rows = chain[j].rows
  <2>1. PICK o \in {"ok", "reverted"} :
           chain' = [chain EXCEPT ![i] = [chain[i] EXCEPT !.outcome = o]]
    BY <1>4 DEF Mine
  <2>2. chain[i] \in Sent(R) BY <1>1, ElementOfSeq, LenProperties
  <2>3. /\ [chain[i] EXCEPT !.outcome = o] \in Sent(R)
        /\ [chain[i] EXCEPT !.outcome = o].rows = chain[i].rows
    BY <2>2 DEF Sent
  <2> DEFINE new == [chain[i] EXCEPT !.outcome = o]
  <2>4. new \in Sent(R) /\ new.rows = chain[i].rows BY <2>3
  <2>5. chain' = [chain EXCEPT ![i] = new] BY <2>1
  <2> HIDE DEF new
  <2>6. chain' \in Seq(Sent(R))
    BY <1>1, <2>4, <2>5, ExceptSeq
  <2> QED BY <2>4, <2>5, <2>6
<1>5. \/ UNCHANGED chain
      \/ Accepted
      \/ \E i \in DOMAIN chain : Mine(i)
  BY DEF Next, KeeperStep, Tick, ReadOld, ReadOldFails, Record, ReadPrices,
         NothingRead, Submit, SubmitFails, AllRecorded, Restart, vars
<1> QED BY <1>2, <1>3, <1>4, <1>5

\* The table funding_rates only has rates that were sent, for any markets and
\* prices, whatever fails, is sent late or dies between send and insert
\* (fundingratekeeper.go:122, 128).
THEOREM RatesWereSent == Spec => []RecordedWasSent
<1>1. Init => RecordInv
  <2> SUFFICES ASSUME Init PROVE RecordInv OBVIOUS
  <2>1. chain \in Seq(Sent({})) BY DEF Init
  <2>2. RecordedWasSent /\ pc /= "record" BY DEF Init, RecordedWasSent
  <2> QED BY <2>1, <2>2 DEF RecordInv
<1>2. RecordInv /\ [Next]_vars => RecordInv'
  <2> SUFFICES ASSUME RecordInv, [Next]_vars PROVE RecordInv' OBVIOUS
  <2>1. /\ \E R : chain' \in Seq(Sent(R))
        /\ DOMAIN chain \subseteq DOMAIN chain'
        /\ \A i \in DOMAIN chain : chain'[i].rows = chain[i].rows
    BY ChainKeepsRows
  <2>2. pc' = "record" => /\ todo' \subseteq InRows(rows')
                          /\ \E i \in DOMAIN chain' : chain'[i].rows = rows'
    <3>1. CASE pc = "record" /\ pc' = "record"
      <4>1. rows' = rows /\ todo' \subseteq todo
        BY <3>1 DEF Next, KeeperStep, Tick, ReadOld, ReadOldFails, Record, Mine,
           ReadPrices, NothingRead, Submit, SubmitFails, AllRecorded, Restart, vars
      <4> QED BY <2>1, <3>1, <4>1 DEF RecordInv, InRows
    <3>2. CASE pc /= "record" /\ pc' = "record"
      <4>1. Submit
        BY <3>2 DEF Next, KeeperStep, Tick, ReadOld, ReadOldFails, Record, Mine,
           ReadPrices, NothingRead, Submit, SubmitFails, AllRecorded, Restart, vars
      <4>2. PICK R : chain \in Seq(Sent(R)) BY DEF RecordInv
      <4>3. /\ Len(chain) + 1 \in DOMAIN chain'
            /\ chain'[Len(chain) + 1].rows = rows
        BY <4>1, <4>2, LenProperties DEF Submit, Accepted
      <4> QED BY <4>1, <4>3 DEF Submit, InRows
    <3> QED BY <3>1, <3>2
  <2>3. RecordedWasSent'
    <3>1. CASE table' = table
      BY <2>1, <3>1 DEF RecordInv, RecordedWasSent, InRows
    <3>2. CASE \E m \in Markets : Record(m)
      <4>1. PICK m \in Markets : Record(m) BY <3>2
      <4>2. /\ m \in InRows(rows) /\ \E i \in DOMAIN chain : chain[i].rows = rows
            /\ table' \subseteq table \cup {[perp |-> m, rate |-> rows[m].new]}
        BY <4>1 DEF Record, RecordInv
      <4> SUFFICES ASSUME NEW r \in table'
                   PROVE  \E i \in DOMAIN chain : /\ r.perp \in InRows(chain[i].rows)
                                                 /\ chain[i].rows[r.perp].new = r.rate
        BY <2>1 DEF RecordedWasSent, InRows
      <4>3. CASE r \in table BY <4>3 DEF RecordInv, RecordedWasSent
      <4>4. CASE r = [perp |-> m, rate |-> rows[m].new] BY <4>2, <4>4
      <4> QED BY <4>2, <4>3, <4>4
    <3>3. table' = table \/ \E m \in Markets : Record(m)
      BY DEF Next, KeeperStep, Tick, ReadOld, ReadOldFails, Mine, ReadPrices,
             NothingRead, Submit, SubmitFails, AllRecorded, Restart, vars
    <3> QED BY <3>1, <3>2, <3>3
  <2> QED BY <2>1, <2>2, <2>3 DEF RecordInv
<1>3. RecordInv => RecordedWasSent BY DEF RecordInv
<1> QED BY <1>1, <1>2, <1>3, PTL DEF Spec

=============================================================================
