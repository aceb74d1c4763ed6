------------------------------ MODULE Exchange ------------------------------
(***************************************************************************)
(* The path of an order through the process: the handlers of CreateOrder,  *)
(* the matching engine and its submit loop, put together as metanode.go    *)
(* does.  Steps of one part leave the others alone, except                 *)
(*   - a handler inside AddOrder, which takes the engine's two steps,      *)
(*   - submitTrades, which takes pendingTrades from the match loop,        *)
(*   - a restart, which ends all of them together;                         *)
(* the table orders is written by handlers and by the submit loop.         *)
(***************************************************************************)
EXTENDS OrderData, SequencesExt

CONSTANTS NoPerp, HasChain, Faults, Encodable,
          Reqs, Acceptable, Expiration, MaxTime, NoOrder

\* Those of the modules put together.
ASSUME NoPerpAssumption == NoPerp \notin Perps
ASSUME HasChainAssumption == HasChain \in BOOLEAN
ASSUME FaultsAssumption == Faults \subseteq {"db", "rpc"}
ASSUME AcceptableAssumption == Acceptable \subseteq Orders
ASSUME ExpirationAssumption == Expiration \in [Orders -> Nat]
ASSUME MaxTimeAssumption == MaxTime \in Nat
ASSUME NoOrderAssumption == NoOrder \notin Orders

VARIABLES
    book, remain, adding, mpc, todo, cur, amount, submitted, arrived, matched,
    pendingTrades,
    work, spc, tx, total, tradeRows, chain,
    row,
    hpc, order, answer, handed, now

engine  == <<book, remain, adding, mpc, todo, cur, amount, submitted, arrived, matched>>
settle  == <<work, spc, tx, total, tradeRows, chain>>
handler == <<hpc, order, answer, handed, now>>
vars    == <<engine, pendingTrades, settle, row, handler>>

ME == INSTANCE MatchEngine
SE == INSTANCE Settlement WITH traded <- matched
CO == INSTANCE CreateOrder WITH DbFaults <- ("db" \in Faults)

\* The tables survive; on the first start they are empty.
Init == ME!Init /\ SE!Init /\ CO!Init

-----------------------------------------------------------------------------
\* Handler steps outside AddOrder.
Handle ==
    /\ \E r \in Reqs : \/ \E o \in Orders : CO!Receive(r, o)
                       \/ CO!Find(r) \/ CO!FindFails(r)
                       \/ CO!Insert(r) \/ CO!InsertFails(r)
    /\ UNCHANGED <<engine, pendingTrades, settle>>

Tick == CO!Tick /\ UNCHANGED <<engine, pendingTrades, settle>>

\* A handler calls AddOrder: first the remaining amount ...
CallAdd(r) ==
    /\ CO!CallAdd(r)
    /\ ME!AddRemain(order[r])
    /\ UNCHANGED settle

\* ... then, when e.mu is free, the book; then it answers.
AddReturns(r) ==
    /\ CO!AddReturns(r)
    /\ ME!AddToBook(order[r])
    /\ UNCHANGED settle

MatchStep == ME!MatchStep /\ UNCHANGED <<settle, row, handler>>

\* The submit loop; its first step takes the slice the match loop fills.
SubmitStep == SE!SubmitStep /\ UNCHANGED <<engine, handler>>

MineStep == SE!MineStep /\ UNCHANGED <<engine, handler>>

Restart == ME!Restart /\ SE!Restart /\ CO!Restart

Step == \/ Handle \/ Tick
        \/ \E r \in Reqs : CallAdd(r) \/ AddReturns(r)
        \/ MatchStep
        \/ SubmitStep
        \/ MineStep

Next == Step \/ Restart

Spec == Init /\ [][Next]_vars

(***************************************************************************)
(* The process stays up.  Handlers run until they have answered: some one  *)
(* of those that can go on does, which suffices, as each has a few steps   *)
(* only.  AddOrder waits for a lock the match loop keeps taking;           *)
(* sync.RWMutex makes new readers wait behind a waiting writer, so writers *)
(* get their turn although the lock is not free continuously: strong       *)
(* fairness.  The tickers call match and submitTrades again and again, and *)
(* between two ticks nothing but the lock and the receipt can hold them.   *)
(* The chain mines what it accepted, which the code relies on when it      *)
(* waits with a context that has no deadline.                              *)
(***************************************************************************)
Fairness ==
    /\ WF_vars(\E r \in Reqs : \/ /\ CO!Find(r) \/ CO!Insert(r)
                                  /\ UNCHANGED <<engine, pendingTrades, settle>>
                               \/ CallAdd(r))
    /\ SF_vars(\E r \in Reqs : AddReturns(r))
    /\ WF_vars(MatchStep)
    /\ WF_vars(SubmitStep)
    /\ WF_vars(MineStep)

LiveSpec == Init /\ [][Step]_vars /\ Fairness

-----------------------------------------------------------------------------
(* Properties.                                                             *)

\* AddOrder is called at most once for an order ...
HandedOnce == CO!HandedOnce

\* ... and only after its row was written, and a row whose order was not handed
\* over has a handler that is about to or a client who was not told success:
\* also with a submit loop that writes rows, and with every restart.
RowsAreHanded == CO!RowsAreHanded

\* AddOrder is never called for an order it had before.  The engine and the
\* handlers agree on what was handed over: so the guard of
\* ME!AddRemain never holds a handler up, and as every other step is one of
\* MatchEngine or leaves its variables alone, all that MatchEngineProofs proves
\* holds here.
AddedOnce == \A r \in Reqs : hpc[r] = "add" => order[r] \notin submitted

\* Table, ledger and signature: what the row shows filled was traded, and what
\* was traded was signed, whatever fails, is lost or restarts in between.
FillsWithinSigned ==
    \A o \in DOMAIN row : row[o].filled <= matched[o] /\ matched[o] <= Size(o)

\* An order the table calls filled is in no book and has no entry in remain,
\* except for the order a trade is just being subtracted from.
FilledIsGone ==
    \A o \in DOMAIN row :
        row[o].status = "Filled" /\ mpc /= "deduct" =>
            o \notin ME!Booked /\ o \notin DOMAIN remain

\* Who has been told "success" finds the order in the engine or used up, as
\* long as the process has not restarted since.
SuccessInEngine ==
    \A r \in Reqs : answer[r] = "0" =>
        order[r] \in ME!Booked \/ matched[order[r]] = Size(order[r])

\* The handlers and the engine are an environment Settlement allows for:
\* what they do to rows, trades and the ledger are steps of its Next.  So the
\* submit loop never looks for a row in vain: the orders of a trade have theirs.
SettlementRefined == SE!Spec

FilledInTable(o) == o \in DOMAIN row /\ row[o].status = "Filled"

\* Every request that arrived is answered, although AddOrder waits for a lock
\* that passes take over and over.
RequestsAnswered == CO!RequestsAnswered

\* Without faults and restarts the rows lag behind the engine by exactly the
\* trades that wait,
NothingLost == SE!NothingLost

\* ... and catch up with it.
FillsArrive == SE!FillsArrive

Accepted(o) == \E r \in Reqs : answer[r] = "0" /\ order[r] = o

\* Two accepted orders that cross end, one of them, filled in the table, whatever
\* else trades with them.
AcceptedTrade ==
    \A b \in {o \in Orders : SideOf(o) = "buy"} :
        \A s \in {o \in Orders : SideOf(o) = "sell" /\ o.perp = b.perp /\ Price(b) >= Price(o)} :
            (Accepted(b) /\ Accepted(s)) ~> (FilledInTable(b) \/ FilledInTable(s))

=============================================================================
