----------------------------- MODULE OrderPages -----------------------------
(***************************************************************************)
(* GET /api/v1/orders: the pages of a signer's orders, newest first        *)
(* (FindByTrader in src/internal/model/order.go), read while CreateOrder   *)
(* inserts rows and the submit loop updates them.                          *)
(*                                                                         *)
(* A page is two queries, the count and the list, outside a transaction.   *)
(* create_time has a precision of a second, and rows of one second come in *)
(* any order, another one each time.                                       *)
(*                                                                         *)
(* External: a client that walks from page to page until one is not full,  *)
(* and asks for a page again that was answered with an error.              *)
(***************************************************************************)
EXTENDS CreateOrder, FiniteSets

CONSTANTS Wanted,    \* the orders of the signer and, if one is given, the perp
          PageSizes, \* what a client may ask for
          Earlier    \* order -> create_time, for the rows of an earlier run

ASSUME WantedAssumption == Wanted \subseteq Orders
ASSUME PageSizesAssumption == PageSizes \subseteq Nat \ {0}
ASSUME EarlierAssumption == /\ DOMAIN Earlier \subseteq Orders
                            /\ Earlier \in [DOMAIN Earlier -> Int]
                            /\ IsFiniteSet(DOMAIN Earlier)

VARIABLES
    born,     \* request -> the CreateTime its handler took
    created,  \* column create_time of table orders
    lpc,      \* where the walk is
    status,   \* the status it asks for, or "all"
    size,     \* the rows of a page it asks for
    page,     \* the page it is at
    total,    \* the Total of the last answer
    seen,     \* the orders of all answers
    start,    \* history: the orders to be listed when it began
    quiet,    \* history: the table has not changed since then
    shrunk    \* history: a listed order got a status not asked for

tableVars == <<born, created>>
walkVars == <<lpc, status, size, page, total, seen, start, quiet, shrunk>>

PagesInit ==
    /\ row = [o \in DOMAIN Earlier |-> NewRow]
    /\ created = Earlier
    /\ hpc = [r \in Reqs |-> "idle"]
    /\ order = [r \in Reqs |-> NoOrder]
    /\ answer = [r \in Reqs |-> "none"]
    /\ handed = <<>>
    /\ now = 0
    /\ born = [r \in Reqs |-> 0]
    /\ lpc = "idle"
    /\ status = "all"
    /\ size \in PageSizes
    /\ page = 1
    /\ total = 0
    /\ seen = <<>>
    /\ start = {}
    /\ quiet = TRUE
    /\ shrunk = FALSE

-----------------------------------------------------------------------------
\* The WHERE clause; status -1 of a request, here "all", leaves the last
\* condition out.
Matching(st) == {o \in Wanted \cap DOMAIN row : st \in {"all", row[o].status}}

Listed == Matching(status)

\* What ORDER BY create_time DESC may make of them.
Listings ==
    {t \in Bijection(1..Cardinality(Listed), Listed) :
        \A i, j \in DOMAIN t : i < j => created[t[i]] >= created[t[j]]}

\* Mutant: pages are counted from 0.
OffsetFromZero(p) == p * size

Offset(p) == (p - 1) * size

\* LIMIT size OFFSET Offset(page).
PageOf(t) ==
    [i \in 1..Cardinality({n \in DOMAIN t : n - Offset(page) \in 1..size}) |->
        t[Offset(page) + i]]

\* The client asks for the first page.
Begin(st) ==
    /\ lpc = "idle"
    /\ lpc' = "count"
    /\ status' = st
    /\ start' = Matching(st)
    /\ quiet' = TRUE
    /\ shrunk' = FALSE
    /\ UNCHANGED <<size, page, total, seen>>

\* Mutant: the count is not of the orders asked for.
CountAll ==
    /\ lpc = "count"
    /\ total' = Cardinality(DOMAIN row)
    /\ lpc' = "list"
    /\ UNCHANGED <<status, size, page, seen, start, quiet, shrunk>>

Count ==
    /\ lpc = "count"
    /\ total' = Cardinality(Listed)
    /\ lpc' = "list"
    /\ UNCHANGED <<status, size, page, seen, start, quiet, shrunk>>

List ==
    /\ lpc = "list"
    /\ \E t \in Listings :
          /\ seen' = seen \o PageOf(t)
          /\ IF Len(PageOf(t)) < size
             THEN lpc' = "done" /\ UNCHANGED page
             ELSE lpc' = "count" /\ page' = page + 1
    /\ UNCHANGED <<status, size, total, start, quiet, shrunk>>

\* Either query fails: code 500, and the client asks for the page again.
ListFails ==
    /\ DbFaults
    /\ lpc = "list"
    /\ lpc' = "count"
    /\ UNCHANGED <<status, size, page, total, seen, start, quiet, shrunk>>

WalkStep == (\E st \in {"all", "Pending"} : Begin(st)) \/ Count \/ List \/ ListFails

\* A step of the handlers of CreateOrder: CreateTime is taken when a request
\* comes in and stored when its row is inserted.
HandlersStep(r) ==
    /\ \/ \E o \in Orders : Receive(r, o) /\ born' = [born EXCEPT ![r] = now]
       \/ HandlerStep(r) /\ UNCHANGED born
    /\ created' = [o \in DOMAIN row' |-> IF o \in DOMAIN row THEN created[o] ELSE born[r]]
    /\ quiet' = (quiet /\ row' = row)
    /\ UNCHANGED <<lpc, status, size, page, total, seen, start, shrunk>>

\* The submit loop writes that an order is filled (Settlement, WriteRow).
Fill(o) ==
    /\ o \in DOMAIN row \cap Range(handed)
    /\ row[o].status = "Pending"
    /\ row' = [row EXCEPT ![o] = [status |-> "Filled", filled |-> Size(o)]]
    /\ quiet' = FALSE
    /\ shrunk' = (shrunk \/ (o \in Listed /\ status = "Pending"))
    /\ UNCHANGED <<hpc, order, answer, handed, now, tableVars>>
    /\ UNCHANGED <<lpc, status, size, page, total, seen, start>>

\* A page that was being put together is asked for again.
RestartListing ==
    /\ Restart
    /\ lpc' = IF lpc = "list" THEN "count" ELSE lpc
    /\ UNCHANGED <<tableVars, status, size, page, total, seen, start, quiet, shrunk>>

PagesNext ==
    \/ WalkStep /\ UNCHANGED <<vars, tableVars>>
    \/ \E r \in Reqs : HandlersStep(r)
    \/ \E o \in Orders : Fill(o)
    \/ Tick /\ UNCHANGED <<tableVars, walkVars>>
    \/ RestartListing

PagesSpec == PagesInit /\ [][PagesNext]_<<vars, tableVars, walkVars>>

-----------------------------------------------------------------------------
(* Properties.                                                             *)

\* Orders of this create_time come in any order.
Tied(o) == \E x \in Listed \ {o} : created[x] = created[o]

\* Who walks through the orders while others come in, is answered with errors
\* and asks again, may see an order twice but misses none that was there when
\* the walk began - unless it has its second in common with another one, or
\* one that was listed lost the status asked for and the rest moved up.
NoneMissed ==
    lpc = "done" /\ ~shrunk =>
        \A o \in start : Tied(o) \/ o \in Range(seen)

\* If nothing changes meanwhile, the pages side by side are the list: every
\* order once, the newest first, as many as the answers said.
QuietWalkIsList ==
    lpc = "done" /\ quiet /\ ~(\E o \in Listed : Tied(o)) =>
        /\ Range(seen) = Listed
        /\ total = Len(seen)
        /\ \A i, j \in DOMAIN seen : i < j => created[seen[i]] > created[seen[j]]

=============================================================================
