---------------------------- MODULE FundingRate ----------------------------
(***************************************************************************)
(* The funding rate keeper, src/internal/engine/fundingratekeeper.go: one  *)
(* goroutine that, at every tick, reads each market's cumulative funding   *)
(* index and prices from the chain, computes a new index, sends them all   *)
(* in one transaction, and records them without waiting for the receipt.   *)
(*                                                                         *)
(* Each call is an action, as the chain moves on between them.  Prices are *)
(* whatever the chain answers.  The transaction carries the new index and  *)
(* not the change, and the next tick does not wait until it is mined: an   *)
(* update still pending when the index is read is undone by the next one.  *)
(* External: the chain mines what it accepted in the order of the nonces   *)
(* of the one account, at any time, with success or reverted.              *)
(***************************************************************************)
EXTENDS Integers, Sequences, Functions

CONSTANTS Markets,     \* the perpetuals of the configuration
          Marks,       \* what getMarkPrice may answer
          Indexes,     \* what a Chainlink feed may answer, scaled to 1e18
          Scale,       \* 10^18 in the code
          Limit,       \* FundingRate.MaxRate, in 1/Scale
          LimitIsInteger, \* whether its text is an integer in 1/Scale
          Feeds,       \* the markets with a Chainlink feed
          MaxRounds,   \* bound of the ticks
          NoMarket,    \* cur when no market's prices are being read
          NotRead      \* a market that is not among the rows

ASSUME PricesAssumption == Marks \subseteq Nat /\ Indexes \subseteq Nat
ASSUME ScaleAssumption == Scale \in Nat \ {0}
ASSUME LimitAssumption == Limit \in Nat \ {0} /\ LimitIsInteger \in BOOLEAN
ASSUME FeedsAssumption == Feeds \subseteq Markets
ASSUME RoundsAssumption == MaxRounds \in Nat
ASSUME NoMarketAssumption == NoMarket \notin Markets
ASSUME NotReadAssumption == NotRead \notin [old : Int, new : Int, missed : SUBSET Nat]

VARIABLES
    pc,      \* where settleFundingRate is
    todo,    \* the markets it has not come to
    cur,     \* the market whose prices it reads
    old,     \* the index it read for cur
    missed,  \* history: the updates pending when it did
    rows,    \* market -> the index read, the new one and missed, or NotRead
    table,   \* funding_rates: the rows inserted
    rounds,  \* ticks so far
    index,   \* external: market -> cumulative index on the chain
    chain    \* external: the updates the chain accepted, with their outcome

vars == <<pc, todo, cur, old, missed, rows, table, rounds, index, chain>>

NoRows == [m \in Markets |-> NotRead]

\* The markets a settlement has a row for.
InRows(update) == {m \in Markets : update[m] /= NotRead}

Init ==
    /\ pc = "idle"
    /\ todo = {}
    /\ cur = NoMarket
    /\ old = 0
    /\ missed = {}
    /\ rows = NoRows
    /\ table = {}
    /\ rounds = 0
    /\ index = [m \in Markets |-> 0]
    /\ chain = <<>>

-----------------------------------------------------------------------------
\* parseMaxRateStep: nil, here 0, for a text that is not a positive integer.
MaxStep == IF LimitIsInteger THEN Limit ELSE 0

\* Mutant: only rises are limited.
ClampAbove(step) == IF MaxStep > 0 /\ step > MaxStep THEN MaxStep ELSE step

Clamp(step) ==
    IF MaxStep = 0 THEN step
    ELSE IF step > MaxStep THEN MaxStep
    ELSE IF step < -MaxStep THEN -MaxStep
    ELSE step

\* fundingDelta: a third of (mark - index) / index, rounded down twice.
FundingDelta(mark, idx) ==
    IF idx = 0 THEN 0 ELSE Clamp((((mark - idx) * Scale) \div idx) \div 3)

\* The ticker fires.
Tick ==
    /\ pc = "idle"
    /\ rounds < MaxRounds
    /\ rounds' = rounds + 1
    /\ todo' = Markets
    /\ pc' = "read"
    /\ UNCHANGED <<cur, old, missed, rows, table, index, chain>>

Pending == {i \in DOMAIN chain : chain[i].outcome = "pending"}

\* getFundingRate answers the index as of the last block.
ReadOld(m) ==
    /\ pc = "read"
    /\ m \in todo
    /\ cur' = m
    /\ old' = index[m]
    /\ missed' = Pending
    /\ pc' = "prices"
    /\ UNCHANGED <<todo, rows, table, rounds, index, chain>>

\* Mutant: an index that cannot be read counts as 0.
ReadOldFailsZero(m) ==
    /\ pc = "read"
    /\ m \in todo
    /\ cur' = m
    /\ old' = 0
    /\ missed' = Pending
    /\ pc' = "prices"
    /\ UNCHANGED <<todo, rows, table, rounds, index, chain>>

\* getFundingRate failed: the market sits this round out.
ReadOldFails(m) ==
    /\ pc = "read"
    /\ m \in todo
    /\ todo' = todo \ {m}
    /\ UNCHANGED <<pc, cur, old, missed, rows, table, rounds, index, chain>>

\* A mark price that cannot be read counts as 0.  Without a feed, or when the
\* feed fails, the mark price is read again and stands in for the index.
MarkReads == Marks \cup {0}

IndexReads(m) == (IF m \in Feeds THEN Indexes ELSE {}) \cup Marks \cup {0}

NewRow(mark, idx) ==
    [old |-> old, new |-> old + FundingDelta(mark, idx), missed |-> missed]

ReadPrices ==
    /\ pc = "prices"
    /\ \E mark \in MarkReads, idx \in IndexReads(cur) :
          rows' = [rows EXCEPT ![cur] = NewRow(mark, idx)]
    /\ todo' = todo \ {cur}
    /\ cur' = NoMarket
    /\ old' = 0
    /\ missed' = {}
    /\ pc' = "read"
    /\ UNCHANGED <<table, rounds, index, chain>>

\* No market could be read.
NothingRead ==
    /\ pc = "read"
    /\ todo = {}
    /\ rows = NoRows
    /\ pc' = "idle"
    /\ UNCHANGED <<todo, cur, old, missed, rows, table, rounds, index, chain>>

Accepted == chain' = Append(chain, [rows |-> rows, outcome |-> "pending"])

\* SubmitFundingRateUpdate; todo becomes the rows to record.
Submit ==
    /\ pc = "read"
    /\ todo = {}
    /\ rows /= NoRows
    /\ Accepted
    /\ todo' = InRows(rows)
    /\ pc' = "record"
    /\ UNCHANGED <<cur, old, missed, rows, table, rounds, index>>

\* Mutant: the error is logged and forgotten.
SubmitFailsUnseen ==
    /\ pc = "read"
    /\ todo = {}
    /\ rows /= NoRows
    /\ todo' = InRows(rows)
    /\ pc' = "record"
    /\ UNCHANGED <<cur, old, missed, rows, table, rounds, index, chain>>

\* It failed, before the node took the transaction or after.
SubmitFails ==
    /\ pc = "read"
    /\ todo = {}
    /\ rows /= NoRows
    /\ chain' = chain \/ Accepted
    /\ rows' = NoRows
    /\ pc' = "idle"
    /\ UNCHANGED <<todo, cur, old, missed, table, rounds, index>>

\* The insert into funding_rates; its error is ignored.
Record(m) ==
    /\ pc = "record"
    /\ m \in todo
    /\ table' = table \/ table' = table \cup {[perp |-> m, rate |-> rows[m].new]}
    /\ todo' = todo \ {m}
    /\ UNCHANGED <<pc, cur, old, missed, rows, rounds, index, chain>>

AllRecorded ==
    /\ pc = "record"
    /\ todo = {}
    /\ rows' = NoRows
    /\ pc' = "idle"
    /\ UNCHANGED <<todo, cur, old, missed, table, rounds, index, chain>>

\* External: the next update is mined.
Mine(i) ==
    /\ chain[i].outcome = "pending"
    /\ \A j \in 1..(i - 1) : chain[j].outcome /= "pending"
    /\ \/ /\ chain' = [chain EXCEPT ![i].outcome = "ok"]
          /\ index' = [m \in Markets |-> IF m \in InRows(chain[i].rows)
                                         THEN chain[i].rows[m].new ELSE index[m]]
       \/ /\ chain' = [chain EXCEPT ![i].outcome = "reverted"]
          /\ UNCHANGED index
    /\ UNCHANGED <<pc, todo, cur, old, missed, rows, table, rounds>>

\* The process dies and comes up again.
Restart ==
    /\ pc' = "idle"
    /\ todo' = {}
    /\ cur' = NoMarket
    /\ old' = 0
    /\ missed' = {}
    /\ rows' = NoRows
    /\ UNCHANGED <<table, rounds, index, chain>>

KeeperStep == \/ Tick
              \/ \E m \in Markets : ReadOld(m) \/ ReadOldFails(m) \/ Record(m)
              \/ ReadPrices \/ NothingRead
              \/ Submit \/ SubmitFails
              \/ AllRecorded

Next == KeeperStep \/ (\E i \in DOMAIN chain : Mine(i)) \/ Restart

Spec == Init /\ [][Next]_vars

-----------------------------------------------------------------------------
(* Properties.                                                             *)

Settlements ==
    [Markets -> [old : Int, new : Int, missed : SUBSET Nat] \cup {NotRead}]

TypeOK ==
    /\ pc \in {"idle", "read", "prices", "record"}
    /\ todo \subseteq Markets
    /\ cur \in Markets \cup {NoMarket}
    /\ pc = "prices" <=> cur /= NoMarket
    /\ old \in Int
    /\ missed \in SUBSET Nat
    /\ rows \in Settlements
    /\ pc \in {"read", "prices"} => todo \cap InRows(rows) = {}
    /\ rounds \in 0..MaxRounds
    /\ index \in [Markets -> Int]
    /\ chain \in Seq([rows : Settlements, outcome : {"pending", "ok", "reverted"}])

\* One of these updates has moved the market's index.
Moved(m, updates) ==
    \E j \in updates : chain[j].outcome = "ok" /\ m \in InRows(chain[j].rows)

\* Update i takes effect in this step.
TakesEffect(i) == chain[i].outcome = "pending" /\ chain'[i].outcome = "ok"

\* The index an update replaces is the one it was computed from, or the result
\* of an update that was pending when it was read: an update mined before the
\* read is never undone or counted twice, and only overlapping settlements
\* undo each other (lines 64, 77: newRate = old + delta, nothing waits).
NoUpdateLost ==
    [][\A i \in DOMAIN chain : TakesEffect(i) =>
         \A m \in InRows(chain[i].rows) :
            \/ index[m] = chain[i].rows[m].old
            \/ Moved(m, chain[i].rows[m].missed)]_vars

\* A settlement that no pending one overlapped moves no index by more than the
\* configured maximum, whatever prices are read or not read (metanode.yaml:74).
StepWithinLimit ==
    [][\A m \in Markets :
         \/ index'[m] - index[m] \in (-Limit)..Limit
         \/ \E i \in DOMAIN chain : /\ TakesEffect(i)
                                    /\ m \in InRows(chain[i].rows)
                                    /\ Moved(m, chain[i].rows[m].missed)]_index

\* What the two rest on: from the read until the update is mined, only updates
\* that were pending at the read come between, as the n-th is the last one
\* before it; and no row goes further than the limit.
ReadOf(m, read, updates, n) ==
    /\ {j \in Pending : j <= n} \subseteq updates
    /\ updates \subseteq 1..n
    /\ index[m] = read \/ Moved(m, updates)

ReadsOf(update, n) ==
    \A m \in InRows(update) : ReadOf(m, update[m].old, update[m].missed, n)

WithinLimit(update) ==
    \A m \in InRows(update) : update[m].new - update[m].old \in (-Limit)..Limit

IInv ==
    /\ TypeOK
    /\ pc = "idle" => rows = NoRows
    /\ pc \in {"read", "prices"} => ReadsOf(rows, Len(chain))
    /\ pc = "prices" => ReadOf(cur, old, missed, Len(chain))
    /\ \A i \in Pending : ReadsOf(chain[i].rows, i - 1)
    /\ LimitIsInteger => /\ WithinLimit(rows)
                         /\ \A i \in Pending : WithinLimit(chain[i].rows)

\* funding_rates only has rates the chain was given.
RecordedWasSent ==
    \A r \in table : \E i \in DOMAIN chain :
        r.perp \in InRows(chain[i].rows) /\ chain[i].rows[r.perp].new = r.rate

=============================================================================
