---------------------------- MODULE CreateOrder ----------------------------
(***************************************************************************)
(* POST /api/v1/orders, src/internal/logic/order/createorderlogic.go: the  *)
(* handler goroutines, the table orders they insert into, and the calls of *)
(* MatchEngine.AddOrder they make.                                         *)
(*                                                                         *)
(* A request carries an order; the same order may be in several requests,  *)
(* sent one after the other or at once (a client that retries).  The       *)
(* handler's own checks are one action, as they touch no shared state;     *)
(* each database call and the call of AddOrder is an action.  A database   *)
(* call may fail before the database did what it was asked, or after: the  *)
(* request's context ends with the HTTP timeout or the connection breaks.  *)
(***************************************************************************)
EXTENDS OrderData

CONSTANTS Reqs,        \* the requests that may arrive
          Acceptable,  \* orders whose fields parse and, with a chain client
                       \* configured, whose signature verifies
          Expiration,  \* order -> Unix second
          MaxTime,     \* bound of the clock
          DbFaults     \* whether database calls may fail

ASSUME AcceptableAssumption == Acceptable \subseteq Orders
ASSUME ExpirationAssumption == Expiration \in [Orders -> Nat]
ASSUME MaxTimeAssumption == MaxTime \in Nat
ASSUME DbFaultsAssumption == DbFaults \in BOOLEAN

CONSTANT NoOrder       \* a request that did not arrive yet has none

ASSUME NoOrderAssumption == NoOrder \notin Orders

VARIABLES
    hpc,     \* request -> where its handler is
    order,   \* request -> its order
    answer,  \* request -> the Code of the response, or "none"
    row,     \* table orders: order -> status and filled_amount
    handed,  \* history: the orders AddOrder was called with, in that order
    now      \* time.Now().Unix()

vars == <<hpc, order, answer, row, handed, now>>

NewRow == [status |-> "Pending", filled |-> 0]

Init ==
    /\ hpc = [r \in Reqs |-> "idle"]
    /\ order = [r \in Reqs |-> NoOrder]
    /\ answer = [r \in Reqs |-> "none"]
    /\ row = [o \in {} |-> NewRow]
    /\ handed = <<>>
    /\ now = 0

-----------------------------------------------------------------------------

Goto(r, pc) == hpc' = [hpc EXCEPT ![r] = pc]

Answer(r, code) == /\ answer' = [answer EXCEPT ![r] = code]
                   /\ Goto(r, "done")

Expired(o) == Expiration[o] <= now

\* The request arrives; expiry, the order's fields and the signature are
\* checked before anything else.
Receive(r, o) ==
    /\ hpc[r] = "idle"
    /\ order' = [order EXCEPT ![r] = o]
    /\ IF Expired(o) \/ o \notin Acceptable
       THEN Answer(r, "400")
       ELSE Goto(r, "find") /\ UNCHANGED answer
    /\ UNCHANGED <<row, handed, now>>

Find(r) ==
    /\ hpc[r] = "find"
    /\ IF order[r] \in DOMAIN row
       THEN Answer(r, "400")
       ELSE Goto(r, "insert") /\ UNCHANGED answer
    /\ UNCHANGED <<order, row, handed, now>>

\* The query's error is dropped: a failed look-up counts as "not there".
FindFails(r) ==
    /\ DbFaults
    /\ hpc[r] = "find"
    /\ Goto(r, "insert")
    /\ UNCHANGED <<order, answer, row, handed, now>>

Inserted(o) == row' = [x \in DOMAIN row \cup {o} |-> IF x = o THEN NewRow ELSE row[x]]

\* Mutant: no unique key; the second insert succeeds like the first.
InsertUnkeyed(r) ==
    /\ hpc[r] = "insert"
    /\ Inserted(order[r])
    /\ Goto(r, "add")
    /\ UNCHANGED <<answer, order, handed, now>>

\* The unique key uk_order_id decides between requests that both found nothing.
Insert(r) ==
    /\ hpc[r] = "insert"
    /\ IF order[r] \in DOMAIN row
       THEN Answer(r, "500") /\ UNCHANGED row
       ELSE Inserted(order[r]) /\ Goto(r, "add") /\ UNCHANGED answer
    /\ UNCHANGED <<order, handed, now>>

\* Mutant: the error of the insert is logged and forgotten.
InsertFailsUnseen(r) ==
    /\ DbFaults
    /\ hpc[r] = "insert"
    /\ Goto(r, "add")
    /\ UNCHANGED <<order, answer, row, handed, now>>

\* Mutant: ... and the request answered as if all had gone well.
InsertFailsAnswered(r) ==
    /\ DbFaults
    /\ hpc[r] = "insert"
    /\ row' = row \/ (order[r] \notin DOMAIN row /\ Inserted(order[r]))
    /\ Answer(r, "0")
    /\ UNCHANGED <<order, handed, now>>

\* The insert reports an error; the row may have been written all the same.
InsertFails(r) ==
    /\ DbFaults
    /\ hpc[r] = "insert"
    /\ row' = row \/ (order[r] \notin DOMAIN row /\ Inserted(order[r]))
    /\ Answer(r, "500")
    /\ UNCHANGED <<order, handed, now>>

\* The handler calls AddOrder (which runs until MatchEngine's AddToBook) ...
CallAdd(r) ==
    /\ hpc[r] = "add"
    /\ handed' = Append(handed, order[r])
    /\ Goto(r, "adding")
    /\ UNCHANGED <<order, answer, row, now>>

\* ... and answers when it returns.
AddReturns(r) ==
    /\ hpc[r] = "adding"
    /\ Answer(r, "0")
    /\ UNCHANGED <<order, row, handed, now>>

Tick == /\ now < MaxTime
        /\ now' = now + 1
        /\ UNCHANGED <<hpc, order, answer, row, handed>>

\* The process dies: handlers under way are gone, their clients get nothing.
Restart ==
    /\ hpc' = [r \in Reqs |-> IF hpc[r] = "idle" THEN "idle" ELSE "done"]
    /\ UNCHANGED <<order, answer, row, handed, now>>

HandlerStep(r) == \/ Find(r) \/ FindFails(r)
                  \/ Insert(r) \/ InsertFails(r)
                  \/ CallAdd(r) \/ AddReturns(r)

Step == \/ \E r \in Reqs : \/ \E o \in Orders : Receive(r, o)
                           \/ HandlerStep(r)
        \/ Tick

Next == Step \/ Restart

Spec == Init /\ [][Next]_vars

-----------------------------------------------------------------------------
(* Properties.                                                             *)

TypeOK ==
    /\ hpc \in [Reqs -> {"idle", "find", "insert", "add", "adding", "done"}]
    /\ order \in [Reqs -> Orders \cup {NoOrder}]
    /\ \A r \in Reqs : hpc[r] \in {"find", "insert", "add", "adding"}
                          => order[r] \in Acceptable
    /\ answer \in [Reqs -> {"none", "0", "400", "500"}]
    /\ DOMAIN row \subseteq Orders
    /\ handed \in Seq(Orders)
    /\ now \in 0..MaxTime

\* AddOrder is called at most once for an order, whatever requests race, are
\* retried, fail half-way or are cut off by a restart: the engine would take
\* a second call as a second order of full size.
HandedOnce == IsInjective(handed)

\* ... and only after its row was written: the submit loop has a row to update.
HandedArePersisted == Range(handed) \subseteq DOMAIN row

\* The handler ended with an error, or was cut off by a restart.
EndedBadly(r) == hpc[r] = "done" /\ answer[r] \in {"500", "none"}

\* Table and engine know the same orders.  A row whose order AddOrder was never
\* called with stays without an engine for good: it is there only while its
\* handler is about to call, or when that one's client was told of an error or
\* of nothing (lines 78-85).
RowsAreHanded ==
    /\ HandedArePersisted
    /\ \A o \in DOMAIN row \ Range(handed) :
          \E r \in Reqs : order[r] = o /\ (hpc[r] = "add" \/ EndedBadly(r))

\* Every request that arrived is answered.
RequestsAnswered ==
    \A r \in Reqs : hpc[r] /= "idle" ~> answer[r] /= "none"

=============================================================================
