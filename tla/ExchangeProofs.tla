--------------------------- MODULE ExchangeProofs ---------------------------
(***************************************************************************)
(* Proofs about CreateOrder and about the composition, for any orders and  *)
(* requests, whatever fails or restarts.                                   *)
(*                                                                         *)
(* The handlers' own argument comes first.  Then, what the engine and the  *)
(* settlement were proved to do alone holds in the whole, because a step   *)
(* of the whole is for each of them a step of its own or none: MP and SP   *)
(* are the two with their theorems, and have the same definitions as ME    *)
(* and SE.  What is added says that the parts agree on the orders they     *)
(* know.                                                                   *)
(***************************************************************************)
EXTENDS Exchange, SequenceTheorems, FiniteSetTheorems, TLAPS

MP == INSTANCE MatchEngineProofs
SP == INSTANCE SettlementProofs WITH traded <- matched

\* Appending a new order adds it to the orders of the book, once.
LEMMA AppendRange ==
    ASSUME NEW S, NEW q \in Seq(S), NEW e \in S, e \notin Range(q), IsInjective(q)
    PROVE  /\ Append(q, e) \in Seq(S)
           /\ Range(Append(q, e)) = Range(q) \cup {e}
           /\ IsInjective(Append(q, e))
<1> DEFINE a == Append(q, e)
<1>1. /\ a \in Seq(S) /\ Len(a) = Len(q) + 1
      /\ \A i \in 1..Len(q) : a[i] = q[i]
      /\ a[Len(q) + 1] = e
  BY AppendProperties
<1>2. Len(q) \in Nat /\ DOMAIN q = 1..Len(q) /\ DOMAIN a = 1..(Len(q) + 1)
  BY <1>1, LenProperties
<1> HIDE DEF a
<1>3. /\ DOMAIN a = DOMAIN q \cup {Len(q) + 1}
      /\ \A i \in DOMAIN q : a[i] = q[i] /\ a[i] /= e
  BY <1>1, <1>2 DEF Range
<1>4. Range(a) = Range(q) \cup {e} BY <1>1, <1>3 DEF Range
<1>5. IsInjective(a) BY <1>1, <1>3 DEF IsInjective
<1> QED BY <1>1, <1>4, <1>5 DEF a

-----------------------------------------------------------------------------
(* The engine.                                                             *)

LEMMA EngineInit == Init => MP!Init
BY DEF Init, ME!Init, MP!Init, ME!Fresh, MP!Fresh, ME!EmptyBook, MP!EmptyBook, ME!Side, MP!Side

\* What the engine's actions are made of, under the two names it has here.
LEMMA SameData ==
    /\ \A p : ME!BothSides(p) <=> MP!BothSides(p)
    /\ ME!HeadBuy = MP!HeadBuy /\ ME!HeadSell = MP!HeadSell
    /\ ME!HeadsMatch <=> MP!HeadsMatch
    /\ ME!Spent = MP!Spent
    /\ \A s : ME!AfterFill(s) = MP!AfterFill(s)
BY DEF ME!HeadsMatch, MP!HeadsMatch, ME!BothSides, MP!BothSides, ME!Crossed, MP!Crossed,
       ME!Smaller, MP!Smaller, ME!HeadBuy, MP!HeadBuy, ME!HeadSell, MP!HeadSell,
       ME!Charged, MP!Charged, ME!Spent, MP!Spent, ME!AfterFill, MP!AfterFill,
       ME!Size, MP!Size, ME!AbsVal, MP!AbsVal, ME!Price, MP!Price

LEMMA SameSort == \A s : ME!SortOutcomes(s) = MP!SortOutcomes(s)
BY DEF ME!SortOutcomes, MP!SortOutcomes, ME!PriceSorted, MP!PriceSorted,
       ME!KeepsOrderOf, MP!KeepsOrderOf, ME!Ahead, MP!Ahead, ME!SideOf, MP!SideOf,
       ME!Price, MP!Price, ME!Size, MP!Size, ME!AbsVal, MP!AbsVal,
       ME!Surjection, MP!Surjection, ME!Range, MP!Range

LEMMA SameEngine ==
    /\ \A o : ME!AddRemain(o) <=> MP!AddRemain(o)
    /\ \A o : ME!AddToBook(o) <=> MP!AddToBook(o)
    /\ ME!MatchStep <=> MP!MatchStep
    /\ ME!Restart <=> MP!Restart
<1>1. \A o : ME!AddRemain(o) <=> MP!AddRemain(o)
  BY DEF ME!AddRemain, MP!AddRemain, ME!Size, MP!Size, ME!AbsVal, MP!AbsVal
<1>2. \A o : ME!AddToBook(o) <=> MP!AddToBook(o)
  BY SameSort DEF ME!AddToBook, MP!AddToBook, ME!SideOf, MP!SideOf
<1>3. ME!MatchStep <=> MP!MatchStep
  <2>1. ME!StartPass <=> MP!StartPass BY DEF ME!StartPass, MP!StartPass
  <2>2. ME!EndPass <=> MP!EndPass BY DEF ME!EndPass, MP!EndPass
  <2>3. \A p : ME!PickBook(p) <=> MP!PickBook(p) BY DEF ME!PickBook, MP!PickBook
  <2>4. ME!Scan <=> MP!Scan
    BY SameData DEF ME!Scan, MP!Scan, ME!Smaller, MP!Smaller
  <2>5. ME!LeaveBook <=> MP!LeaveBook BY SameData DEF ME!LeaveBook, MP!LeaveBook
  <2>6. ME!Emit <=> MP!Emit
    BY SameData DEF ME!Emit, MP!Emit, ME!MatchResult, MP!MatchResult,
                    ME!Price, MP!Price, ME!Size, MP!Size, ME!AbsVal, MP!AbsVal
  <2>7. ME!Deduct <=> MP!Deduct
    BY SameData DEF ME!Deduct, MP!Deduct, ME!Charged, MP!Charged, ME!Side, MP!Side
  <2> QED BY <2>1, <2>2, <2>3, <2>4, <2>5, <2>6, <2>7 DEF ME!MatchStep, MP!MatchStep
<1>4. ME!Restart <=> MP!Restart
  BY DEF ME!Restart, MP!Restart, ME!EmptyBook, MP!EmptyBook, ME!Side, MP!Side
<1> QED BY <1>1, <1>2, <1>3, <1>4

-----------------------------------------------------------------------------
(* The handlers, first on their own: AddOrder gets an order at most once   *)
(* and after its row.                                                      *)

\* A handler about to call AddOrder has its order's row, is alone with that
\* order, and nobody has handed it over: the row was not there when it was
\* inserted, and all that was handed over has rows.
AddsAlone ==
    \A r \in Reqs : hpc[r] = "add" =>
        /\ order[r] \in DOMAIN row
        /\ order[r] \notin Range(handed)
        /\ \A q \in Reqs : hpc[q] = "add" /\ order[q] = order[r] => q = r

HandlersInv == CO!TypeOK /\ CO!HandedOnce /\ CO!HandedArePersisted /\ AddsAlone

-----------------------------------------------------------------------------

LEMMA HandlersInit == CO!Init => HandlersInv
<1> SUFFICES ASSUME CO!Init PROVE HandlersInv
  OBVIOUS
<1>1. handed \in Seq(Orders) /\ DOMAIN handed = {} BY EmptySeq, LenProperties DEF CO!Init
<1>2. Range(handed) = {} BY <1>1 DEF Range
<1>3. CO!TypeOK BY <1>1, MaxTimeAssumption DEF CO!Init, CO!TypeOK
<1>4. CO!HandedOnce BY <1>1 DEF CO!HandedOnce, CO!IsInjective
<1> QED
  BY <1>2, <1>3, <1>4
  DEF CO!Init, HandlersInv, CO!HandedArePersisted, AddsAlone, CO!Range, Range

\* A step that hands nothing over, keeps the rows there are and lets nobody
\* come to the call of AddOrder.
LEMMA NobodyAdds ==
    ASSUME HandlersInv, CO!TypeOK', UNCHANGED handed, DOMAIN row \subseteq DOMAIN row',
           \A r \in Reqs : hpc'[r] = "add" => hpc[r] = "add" /\ order'[r] = order[r]
    PROVE  HandlersInv'
<1>1. CO!HandedOnce' BY DEF HandlersInv, CO!HandedOnce
<1>2. CO!HandedArePersisted' BY DEF HandlersInv, CO!HandedArePersisted
<1>3. AddsAlone' BY DEF HandlersInv, AddsAlone
<1> QED BY <1>1, <1>2, <1>3 DEF HandlersInv

LEMMA ReceiveKeeps ==
    ASSUME HandlersInv, NEW r \in Reqs, NEW o \in Orders, CO!Receive(r, o)
    PROVE  HandlersInv'
<1>1. CO!TypeOK' BY DEF HandlersInv, CO!TypeOK, CO!Receive, CO!Answer, CO!Goto
<1>2. \A q \in Reqs : hpc'[q] = "add" => hpc[q] = "add" /\ order'[q] = order[q]
  BY DEF HandlersInv, CO!TypeOK, CO!Receive, CO!Answer, CO!Goto
<1> QED BY <1>1, <1>2, NobodyAdds DEF CO!Receive

LEMMA FindKeeps ==
    ASSUME HandlersInv, NEW r \in Reqs, CO!Find(r) \/ CO!FindFails(r)
    PROVE  HandlersInv'
<1>1. CO!TypeOK' BY DEF HandlersInv, CO!TypeOK, CO!Find, CO!FindFails, CO!Answer, CO!Goto
<1>2. \A q \in Reqs : hpc'[q] = "add" => hpc[q] = "add" /\ order'[q] = order[q]
  BY DEF HandlersInv, CO!TypeOK, CO!Find, CO!FindFails, CO!Answer, CO!Goto
<1> QED BY <1>1, <1>2, NobodyAdds DEF CO!Find, CO!FindFails

\* The unique key: who inserts the row is the only one to go on with the order.
LEMMA InsertKeeps ==
    ASSUME HandlersInv, NEW r \in Reqs, CO!Insert(r)
    PROVE  HandlersInv'
<1>1. CASE order[r] \in DOMAIN row
  <2>1. CO!TypeOK' BY <1>1 DEF HandlersInv, CO!TypeOK, CO!Insert, CO!Answer, CO!Goto
  <2>2. \A q \in Reqs : hpc'[q] = "add" => hpc[q] = "add" /\ order'[q] = order[q]
    BY <1>1 DEF HandlersInv, CO!TypeOK, CO!Insert, CO!Answer, CO!Goto
  <2> QED BY <1>1, <2>1, <2>2, NobodyAdds DEF CO!Insert
<1>2. CASE order[r] \notin DOMAIN row
  <2>1. /\ DOMAIN row' = DOMAIN row \cup {order[r]}
        /\ hpc' = [hpc EXCEPT ![r] = "add"]
        /\ UNCHANGED <<answer, order, handed, now>>
    BY <1>2 DEF CO!Insert, CO!Inserted, CO!Goto
  <2>2. hpc[r] = "insert" /\ order[r] \in Acceptable BY DEF HandlersInv, CO!TypeOK, CO!Insert
  <2>3. order[r] \in Orders
    BY <2>2, AcceptableAssumption
  <2>4. CO!TypeOK' BY <2>1, <2>2, <2>3 DEF HandlersInv, CO!TypeOK
  <2>5. CO!HandedOnce' /\ CO!HandedArePersisted'
    BY <2>1 DEF HandlersInv, CO!HandedOnce, CO!HandedArePersisted
  <2>6. order[r] \notin Range(handed)
    BY <1>2 DEF HandlersInv, CO!HandedArePersisted, CO!Range, Range
  <2>7. AddsAlone'
    BY <1>2, <2>1, <2>6 DEF HandlersInv, CO!TypeOK, AddsAlone
  <2> QED BY <2>4, <2>5, <2>7 DEF HandlersInv
<1> QED BY <1>1, <1>2

LEMMA InsertFailsKeeps ==
    ASSUME HandlersInv, NEW r \in Reqs, CO!InsertFails(r)
    PROVE  HandlersInv'
<1>1. order[r] \in Orders
  BY AcceptableAssumption DEF HandlersInv, CO!TypeOK, CO!InsertFails
<1>2. DOMAIN row' \in {DOMAIN row, DOMAIN row \cup {order[r]}}
  BY DEF CO!InsertFails, CO!Inserted
<1>3. CO!TypeOK' BY <1>1, <1>2 DEF HandlersInv, CO!TypeOK, CO!InsertFails, CO!Answer, CO!Goto
<1>4. \A q \in Reqs : hpc'[q] = "add" => hpc[q] = "add" /\ order'[q] = order[q]
  BY DEF HandlersInv, CO!TypeOK, CO!InsertFails, CO!Answer, CO!Goto
<1> QED BY <1>2, <1>3, <1>4, NobodyAdds DEF CO!InsertFails

\* AddOrder is called: the order was not handed over, and no other handler is
\* about to hand it over.
LEMMA CallAddKeeps ==
    ASSUME HandlersInv, NEW r \in Reqs, CO!CallAdd(r)
    PROVE  HandlersInv'
<1>1. /\ order[r] \in DOMAIN row /\ order[r] \in Orders
      /\ order[r] \notin Range(handed)
      /\ handed \in Seq(Orders) /\ IsInjective(handed)
  BY DEF HandlersInv, CO!TypeOK, AddsAlone, CO!HandedOnce, CO!CallAdd, CO!IsInjective,
         IsInjective
<1>2. /\ handed' \in Seq(Orders)
      /\ Range(handed') = Range(handed) \cup {order[r]}
      /\ IsInjective(handed')
  BY <1>1, AppendRange DEF CO!CallAdd
<1>3. /\ hpc' = [hpc EXCEPT ![r] = "adding"] /\ hpc[r] = "add"
      /\ UNCHANGED <<order, answer, row, now>>
  BY DEF CO!CallAdd, CO!Goto
<1>4. CO!TypeOK' BY <1>2, <1>3 DEF HandlersInv, CO!TypeOK
<1>5. CO!HandedOnce' /\ CO!HandedArePersisted'
  BY <1>1, <1>2, <1>3
  DEF HandlersInv, CO!HandedOnce, CO!HandedArePersisted, CO!Range, Range, CO!IsInjective,
      IsInjective
<1>6. AddsAlone'
  BY <1>2, <1>3 DEF HandlersInv, CO!TypeOK, AddsAlone
<1> QED BY <1>4, <1>5, <1>6 DEF HandlersInv

LEMMA OthersKeep ==
    ASSUME HandlersInv,
           \/ \E r \in Reqs : CO!AddReturns(r)
           \/ CO!Tick \/ CO!Restart \/ UNCHANGED CO!vars
    PROVE  HandlersInv'
<1>1. CO!TypeOK'
  <2>1. CASE \E r \in Reqs : CO!AddReturns(r)
    BY <2>1 DEF HandlersInv, CO!TypeOK, CO!AddReturns, CO!Answer, CO!Goto
  <2>2. CASE CO!Tick BY <2>2, MaxTimeAssumption DEF HandlersInv, CO!TypeOK, CO!Tick
  <2>3. CASE CO!Restart BY <2>3 DEF HandlersInv, CO!TypeOK, CO!Restart
  <2>4. CASE UNCHANGED CO!vars BY <2>4 DEF HandlersInv, CO!TypeOK, CO!vars
  <2> QED BY <2>1, <2>2, <2>3, <2>4
<1>2. \A q \in Reqs : hpc'[q] = "add" => hpc[q] = "add" /\ order'[q] = order[q]
  BY DEF HandlersInv, CO!TypeOK, CO!AddReturns, CO!Answer, CO!Goto, CO!Tick, CO!Restart,
         CO!vars
<1>3. UNCHANGED <<handed, row>> BY DEF CO!AddReturns, CO!Tick, CO!Restart, CO!vars
<1> QED BY <1>1, <1>2, <1>3, NobodyAdds

-----------------------------------------------------------------------------

LEMMA HandlersInvariance == CO!Spec => []HandlersInv
<1>1. HandlersInv /\ [CO!Next]_(CO!vars) => HandlersInv'
  <2> SUFFICES ASSUME HandlersInv, [CO!Next]_(CO!vars) PROVE HandlersInv'
    OBVIOUS
  <2>1. CASE \E r \in Reqs, o \in Orders : CO!Receive(r, o) BY <2>1, ReceiveKeeps
  <2>2. CASE \E r \in Reqs : CO!Find(r) \/ CO!FindFails(r) BY <2>2, FindKeeps
  <2>3. CASE \E r \in Reqs : CO!Insert(r) BY <2>3, InsertKeeps
  <2>4. CASE \E r \in Reqs : CO!InsertFails(r) BY <2>4, InsertFailsKeeps
  <2>5. CASE \E r \in Reqs : CO!CallAdd(r) BY <2>5, CallAddKeeps
  <2>6. CASE (\E r \in Reqs : CO!AddReturns(r)) \/ CO!Tick \/ CO!Restart \/ UNCHANGED CO!vars
    BY <2>6, OthersKeep
  <2> QED BY <2>1, <2>2, <2>3, <2>4, <2>5, <2>6 DEF CO!Next, CO!Step, CO!HandlerStep
<1> QED BY HandlersInit, <1>1, PTL DEF CO!Spec

\* The handlers with nothing but the tables around them: AddOrder is called at
\* most once for an order and only when its row is there (createorderlogic.go:73-85).
THEOREM HandlersAlone == CO!Spec => [](CO!TypeOK /\ CO!HandedOnce /\ CO!HandedArePersisted)
<1>1. HandlersInv => CO!TypeOK /\ CO!HandedOnce /\ CO!HandedArePersisted
  BY DEF HandlersInv
<1> QED BY <1>1, HandlersInvariance, PTL

-----------------------------------------------------------------------------
(* The handlers in the composition.                                        *)

\* The submit loop and the chain insert no row and delete none.
LEMMA RowsStay == SE!SubmitStep \/ SE!MineStep => DOMAIN row' = DOMAIN row
BY DEF SE!SubmitStep, SE!SubmitTrades, SE!Build, SE!Send, SE!SendFails, SE!WaitMined,
       SE!FindRow, SE!FindRowFails, SE!WriteRow, SE!WriteRowFails, SE!Record,
       SE!RecordFails, SE!MineStep, SE!Mine

LEMMA HandlersStep ==
    ASSUME HandlersInv, [Next]_vars
    PROVE  HandlersInv'
<1>1. CASE Handle
  <2>1. PICK r \in Reqs : \/ \E o \in Orders : CO!Receive(r, o)
                          \/ CO!Find(r) \/ CO!FindFails(r)
                          \/ CO!Insert(r) \/ CO!InsertFails(r)
    BY <1>1 DEF Handle
  <2> QED BY <2>1, ReceiveKeeps, FindKeeps, InsertKeeps, InsertFailsKeeps
<1>2. ASSUME NEW r \in Reqs, CallAdd(r) PROVE HandlersInv'
  BY <1>2, CallAddKeeps DEF CallAdd
<1>3. CASE Tick \/ (\E r \in Reqs : AddReturns(r)) \/ Restart
  BY <1>3, OthersKeep DEF Tick, AddReturns, Restart
<1>4. CASE MatchStep \/ SubmitStep \/ MineStep \/ UNCHANGED vars
  <2>1. UNCHANGED handler /\ DOMAIN row' = DOMAIN row
    BY <1>4, RowsStay DEF MatchStep, SubmitStep, MineStep, vars
  <2>2. CO!TypeOK'
    BY <2>1 DEF HandlersInv, CO!TypeOK, handler
  <2> QED BY <2>1, <2>2, NobodyAdds DEF handler
<1> QED BY <1>1, <1>2, <1>3, <1>4 DEF Next, Step

-----------------------------------------------------------------------------
(* Every step of the whole is one of the engine, or none.                  *)

LEMMA Calling ==
    ASSUME HandlersInv, NEW r \in Reqs, hpc[r] \in {"find", "insert", "add", "adding"}
    PROVE  order[r] \in Orders
BY AcceptableAssumption DEF HandlersInv, CO!TypeOK

LEMMA EngineStep ==
    ASSUME HandlersInv, [Next]_vars
    PROVE  /\ [MP!Next]_(MP!vars)
           /\ Step => [MP!Step]_(MP!vars)
<1>1. ASSUME NEW r \in Reqs, CallAdd(r) PROVE MP!Step
  <2>1. order[r] \in Orders BY <1>1, Calling DEF CallAdd, CO!CallAdd
  <2>2. MP!AddRemain(order[r]) BY <1>1, SameEngine DEF CallAdd
  <2> QED BY <2>1, <2>2 DEF MP!Step
<1>2. ASSUME NEW r \in Reqs, AddReturns(r) PROVE MP!Step
  <2>1. order[r] \in Orders BY <1>2, Calling DEF AddReturns, CO!AddReturns
  <2>2. MP!AddToBook(order[r]) BY <1>2, SameEngine DEF AddReturns
  <2> QED BY <2>1, <2>2 DEF MP!Step
<1>3. ASSUME MatchStep PROVE MP!Step BY <1>3, SameEngine DEF MatchStep, MP!Step
<1>4. ASSUME SubmitStep PROVE [MP!Step]_(MP!vars)
  <2>1. CASE SE!SubmitTrades
    <3>1. MP!TakePending BY <1>4, <2>1 DEF SubmitStep, SE!SubmitTrades, MP!TakePending, engine
    <3> QED BY <3>1 DEF MP!Step
  <2>2. CASE ~SE!SubmitTrades
    <3>1. UNCHANGED <<engine, pendingTrades>>
      BY <1>4, <2>2
      DEF SubmitStep, SE!SubmitStep, SE!Build, SE!Send, SE!SendFails, SE!WaitMined,
          SE!FindRow, SE!FindRowFails, SE!WriteRow, SE!WriteRowFails, SE!Record,
          SE!RecordFails
    <3> QED BY <3>1 DEF engine, MP!vars
  <2> QED BY <2>1, <2>2
<1>5. ASSUME Handle \/ Tick \/ MineStep \/ UNCHANGED vars PROVE UNCHANGED MP!vars
  BY <1>5 DEF Handle, Tick, MineStep, SE!MineStep, SE!Mine, vars, engine, MP!vars
<1>6. Step \/ UNCHANGED vars => [MP!Step]_(MP!vars)
  BY <1>1, <1>2, <1>3, <1>4, <1>5 DEF Step
<1>7. CASE Restart BY <1>6, <1>7, SameEngine DEF Restart, MP!Next
<1> QED BY <1>6, <1>7 DEF Next, MP!Next

LEMMA Parts == Spec => []HandlersInv /\ MP!Spec
<1>1. Init => HandlersInv
  BY HandlersInit DEF Init
<1>2. Init => MP!Init BY EngineInit
<1>3. HandlersInv /\ [Next]_vars => HandlersInv' /\ [MP!Next]_(MP!vars)
  BY HandlersStep, EngineStep
<1> QED BY <1>1, <1>2, <1>3, PTL DEF Spec, MP!Spec

\* In the whole process, AddOrder is called at most once for an order
\* (createorderlogic.go:73-85).
THEOREM AddedAtMostOnce == Spec => []HandedOnce
<1>1. HandlersInv => HandedOnce BY DEF HandlersInv, HandedOnce
<1> QED BY <1>1, Parts, PTL

-----------------------------------------------------------------------------
(* The rows the engine was not called for.                                 *)

\* Before its end a request has no answer, so one that ended badly stays so.
AnsweredLast == \A r \in Reqs : hpc[r] /= "done" => answer[r] = "none"

ExplainedBy(r, o) == order[r] = o /\ (hpc[r] = "add" \/ CO!EndedBadly(r))

Explained == \A o \in DOMAIN row \ Range(handed) : \E r \in Reqs : ExplainedBy(r, o)

\* A step of the request r alone: what the others explain, they explain still.
LEMMA RequestStep ==
    ASSUME Explained, AnsweredLast, CO!TypeOK, NEW r \in Reqs,
           \A q \in Reqs \ {r} :
              hpc'[q] = hpc[q] /\ order'[q] = order[q] /\ answer'[q] = answer[q],
           hpc'[r] /= "done" => answer'[r] = "none",
           Range(handed) \subseteq Range(handed'),
           \A o \in (DOMAIN row \ Range(handed)) : ExplainedBy(r, o)
              => o \in Range(handed') \/ ExplainedBy(r, o)',
           \A o \in DOMAIN row' \ DOMAIN row : ExplainedBy(r, o)'
    PROVE  Explained' /\ AnsweredLast'
<1>1. AnsweredLast' BY DEF AnsweredLast
<1>2. ASSUME NEW o \in DOMAIN row' \ Range(handed') PROVE \E q \in Reqs : ExplainedBy(q, o)'
  <2>1. CASE o \notin DOMAIN row BY <1>2, <2>1
  <2>2. CASE o \in DOMAIN row
    <3>1. PICK q \in Reqs : ExplainedBy(q, o) BY <1>2, <2>2 DEF Explained
    <3>2. CASE q = r BY <1>2, <2>2, <3>1, <3>2
    <3>3. CASE q /= r BY <3>1, <3>3 DEF ExplainedBy, CO!EndedBadly
    <3> QED BY <3>2, <3>3
  <2> QED BY <2>1, <2>2
<1> QED BY <1>1, <1>2 DEF Explained

LEMMA ExplainedStep ==
    ASSUME HandlersInv, Explained, AnsweredLast, [Next]_vars
    PROVE  Explained' /\ AnsweredLast'
<1> USE DEF HandlersInv
<1>1. ASSUME NEW r \in Reqs, NEW o \in Orders, CO!Receive(r, o)
      PROVE  Explained' /\ AnsweredLast'
  <2>1. /\ \A q \in Reqs \ {r} :
              hpc'[q] = hpc[q] /\ order'[q] = order[q] /\ answer'[q] = answer[q]
        /\ hpc'[r] /= "done" => answer'[r] = answer[r]
        /\ hpc[r] = "idle" /\ UNCHANGED <<row, handed>>
    BY <1>1 DEF CO!Receive, CO!Answer, CO!Goto, CO!TypeOK
  <2>2. \A x : ~ ExplainedBy(r, x) BY <2>1 DEF ExplainedBy, CO!EndedBadly
  <2> QED BY <2>1, <2>2, RequestStep DEF AnsweredLast
<1>2. ASSUME NEW r \in Reqs, CO!Find(r) \/ CO!FindFails(r)
      PROVE  Explained' /\ AnsweredLast'
  <2>1. /\ \A q \in Reqs \ {r} :
              hpc'[q] = hpc[q] /\ order'[q] = order[q] /\ answer'[q] = answer[q]
        /\ hpc'[r] /= "done" => answer'[r] = answer[r]
        /\ hpc[r] = "find" /\ UNCHANGED <<row, handed>>
    BY <1>2 DEF CO!Find, CO!FindFails, CO!Answer, CO!Goto, CO!TypeOK
  <2>2. \A x : ~ ExplainedBy(r, x) BY <2>1 DEF ExplainedBy, CO!EndedBadly
  <2> QED BY <2>1, <2>2, RequestStep DEF AnsweredLast
<1>3. ASSUME NEW r \in Reqs, CO!Insert(r) \/ CO!InsertFails(r)
      PROVE  Explained' /\ AnsweredLast'
  <2>1. /\ \A q \in Reqs \ {r} :
              hpc'[q] = hpc[q] /\ order'[q] = order[q] /\ answer'[q] = answer[q]
        /\ hpc'[r] /= "done" => answer'[r] = answer[r]
        /\ hpc[r] = "insert" /\ UNCHANGED <<order, handed>>
        /\ hpc'[r] = "add" \/ (hpc'[r] = "done" /\ answer'[r] = "500")
        /\ DOMAIN row' \subseteq DOMAIN row \cup {order[r]}
    BY <1>3 DEF CO!Insert, CO!InsertFails, CO!Inserted, CO!Answer, CO!Goto, CO!TypeOK
  <2>2. \A x : ~ ExplainedBy(r, x) BY <2>1 DEF ExplainedBy, CO!EndedBadly
  <2>3. ExplainedBy(r, order[r])' BY <2>1 DEF ExplainedBy, CO!EndedBadly
  <2>4. \A x \in DOMAIN row' \ DOMAIN row : ExplainedBy(r, x)'
    BY <2>1 DEF ExplainedBy, CO!EndedBadly
  <2> QED BY <2>1, <2>2, <2>4, RequestStep DEF AnsweredLast
<1>4. ASSUME NEW r \in Reqs, CO!CallAdd(r) PROVE Explained' /\ AnsweredLast'
  <2>1. /\ \A q \in Reqs \ {r} :
              hpc'[q] = hpc[q] /\ order'[q] = order[q] /\ answer'[q] = answer[q]
        /\ answer'[r] = answer[r] /\ hpc[r] = "add" /\ row' = row
    BY <1>4 DEF CO!CallAdd, CO!Goto, CO!TypeOK
  <2>2. Range(handed') = Range(handed) \cup {order[r]}
    <3>1. /\ order[r] \in Orders /\ order[r] \notin Range(handed)
          /\ handed \in Seq(Orders) /\ IsInjective(handed)
      BY <2>1, AcceptableAssumption
      DEF CO!TypeOK, AddsAlone, CO!HandedOnce, CO!IsInjective, IsInjective
    <3> QED BY <1>4, <3>1, AppendRange DEF CO!CallAdd
  <2>3. \A x : ExplainedBy(r, x) => x \in Range(handed')
    BY <2>2 DEF ExplainedBy
  <2> QED BY <2>1, <2>2, <2>3, RequestStep DEF AnsweredLast
<1>5. ASSUME NEW r \in Reqs, CO!AddReturns(r) PROVE Explained' /\ AnsweredLast'
  <2>1. /\ \A q \in Reqs \ {r} :
              hpc'[q] = hpc[q] /\ order'[q] = order[q] /\ answer'[q] = answer[q]
        /\ hpc'[r] = "done" /\ hpc[r] = "adding" /\ UNCHANGED <<row, handed>>
    BY <1>5 DEF CO!AddReturns, CO!Answer, CO!Goto, CO!TypeOK
  <2>2. \A x : ~ ExplainedBy(r, x) BY <2>1 DEF ExplainedBy, CO!EndedBadly
  <2> QED BY <2>1, <2>2, RequestStep DEF AnsweredLast
<1>6. ASSUME CO!Restart PROVE Explained' /\ AnsweredLast'
  <2>1. UNCHANGED <<order, answer, row, handed>> BY <1>6 DEF CO!Restart
  <2>2. \A q \in Reqs : \/ hpc[q] = "idle" /\ hpc'[q] = "idle"
                        \/ hpc[q] /= "idle" /\ hpc'[q] = "done"
    BY <1>6 DEF CO!Restart
  <2>3. AnsweredLast' BY <2>1, <2>2 DEF AnsweredLast
  <2>4. \A q \in Reqs : \A x : ExplainedBy(q, x) => ExplainedBy(q, x)'
    BY <2>1, <2>2 DEF ExplainedBy, CO!EndedBadly, AnsweredLast
  <2> QED BY <2>1, <2>3, <2>4 DEF Explained
<1>7. ASSUME UNCHANGED <<hpc, order, answer, handed>>, DOMAIN row' = DOMAIN row
      PROVE  Explained' /\ AnsweredLast'
  BY <1>7 DEF Explained, ExplainedBy, CO!EndedBadly, AnsweredLast
<1>8. CASE Tick \/ MatchStep \/ SubmitStep \/ MineStep \/ UNCHANGED vars
  <2>1. UNCHANGED <<hpc, order, answer, handed>> /\ DOMAIN row' = DOMAIN row
    BY <1>8, RowsStay DEF Tick, CO!Tick, MatchStep, SubmitStep, MineStep, vars, handler
  <2> QED BY <1>7, <2>1
<1> QED
  BY <1>1, <1>2, <1>3, <1>4, <1>5, <1>6, <1>8
  DEF Next, Step, Handle, CallAdd, AddReturns, Restart

\* An order is handed to the engine only when its row is in the table; and a row
\* whose order never was has a handler about to do it, or one that ended with an
\* error or a restart, in the whole process (createorderlogic.go:78-85).
THEOREM TableAndEngineAgree == Spec => []RowsAreHanded
<1>1. Init => Explained /\ AnsweredLast
  BY DEF Init, CO!Init, Explained, AnsweredLast
<1>2. HandlersInv /\ Explained /\ AnsweredLast /\ [Next]_vars => Explained' /\ AnsweredLast'
  BY ExplainedStep
<1>3. HandlersInv /\ Explained => RowsAreHanded
  BY DEF HandlersInv, Explained, ExplainedBy, RowsAreHanded, CO!RowsAreHanded, CO!Range, Range
<1> QED BY <1>1, <1>2, <1>3, Parts, PTL DEF Spec

\* What is proved of the engine holds in the composition.
LEMMA EngineAlways == Spec => [](MP!IInv /\ MP!Left)
<1>1. MP!Spec => []MP!IInv
  BY MP!Invariance, OrdersAssumption, PrecisionAssumption, StableMaxAssumption,
     NoPerpAssumption
<1>2. MP!Spec => []MP!Left
  BY MP!LeftAlways, OrdersAssumption, PrecisionAssumption, StableMaxAssumption,
     NoPerpAssumption
<1> QED BY <1>1, <1>2, Parts, PTL

-----------------------------------------------------------------------------
(* The orders the parts know: what the engine was called with, the         *)
(* handlers handed over, and that has rows.                                *)

SameOrders == submitted = Range(handed)

LEMMA SameOrdersStep ==
    ASSUME HandlersInv, SameOrders, [Next]_vars
    PROVE  SameOrders'
<1>1. ASSUME NEW r \in Reqs, CallAdd(r) PROVE SameOrders'
  <2>1. /\ hpc[r] = "add" /\ handed' = Append(handed, order[r])
        /\ submitted' = submitted \cup {order[r]}
    BY <1>1 DEF CallAdd, CO!CallAdd, ME!AddRemain
  <2>2. /\ handed \in Seq(Orders) /\ order[r] \in Orders
        /\ order[r] \notin Range(handed) /\ IsInjective(handed)
    BY <2>1, Calling
    DEF HandlersInv, CO!TypeOK, AddsAlone, CO!HandedOnce,
        CO!IsInjective, IsInjective
  <2> QED BY <2>1, <2>2, AppendRange DEF SameOrders
<1>2. CASE ~(\E r \in Reqs : CallAdd(r))
  <2>1. UNCHANGED handed
    BY <1>2 DEF Next, Step, Handle, Tick, AddReturns, MatchStep, SubmitStep, MineStep,
                Restart, vars, handler, CO!Receive, CO!Find, CO!FindFails, CO!Insert,
                CO!InsertFails, CO!AddReturns, CO!Tick, CO!Restart
  <2>2. UNCHANGED submitted
    BY <1>2 DEF Next, Step, Handle, Tick, AddReturns, MatchStep, SubmitStep, MineStep,
                Restart, vars, engine, ME!AddToBook, ME!MatchStep, ME!StartPass,
                ME!EndPass, ME!PickBook, ME!Scan, ME!LeaveBook, ME!Emit, ME!Deduct,
                ME!Restart
  <2> QED BY <2>1, <2>2 DEF SameOrders
<1> QED BY <1>1, <1>2

LEMMA Joint == Spec => [](HandlersInv /\ MP!IInv /\ MP!Left /\ SameOrders)
<1>1. Init => SameOrders
  BY DEF Init, ME!Init, CO!Init, SameOrders, Range
<1>2. HandlersInv /\ SameOrders /\ [Next]_vars => SameOrders'
  BY SameOrdersStep
<1> QED BY <1>1, <1>2, Parts, EngineAlways, PTL DEF Spec

\* AddOrder is never called with an order it was called with before
\* (createorderlogic.go:85, matchengine.go:84).
THEOREM NeverAddedAgain == Spec => []AddedOnce
<1>1. HandlersInv /\ SameOrders => AddedOnce
  BY DEF HandlersInv, AddsAlone, SameOrders, AddedOnce
<1> QED BY <1>1, Joint, PTL

-----------------------------------------------------------------------------
(* Every step of the whole is one of the settlement, or none.              *)

\* A trade is between orders that have rows.
LEMMA EmitIsMatch ==
    ASSUME HandlersInv, MP!IInv, SameOrders, MP!Emit,
           UNCHANGED <<work, spc, tx, total, row, tradeRows, chain>>
    PROVE  \E b, s \in Orders : SE!Match(b, s)
<1> DEFINE b == MP!HeadBuy
           s == MP!HeadSell
<1>1. /\ b \in Orders /\ s \in Orders
      /\ {b, s} \subseteq DOMAIN remain
      /\ MP!FL!Trade(b, s)
      /\ amount = MP!FL!Volume(b, s)
  BY MP!EmitIsTrade, OrdersAssumption, PrecisionAssumption, StableMaxAssumption,
     NoPerpAssumption
<1>2. pendingTrades' = Append(pendingTrades, MP!MatchResult(b, s, amount))
  BY DEF MP!Emit
<1>3. {b, s} \subseteq DOMAIN row
  BY <1>1 DEF MP!IInv, MP!AmountInv, MP!SubmittedOnly, SameOrders, Range,
              HandlersInv, CO!HandedArePersisted, CO!Range
<1> HIDE DEF b, s
<1>4. SE!FL!Trade(b, s) /\ SE!FL!Volume(b, s) = MP!FL!Volume(b, s)
  BY <1>1 DEF SE!FL!Trade, MP!FL!Trade, SE!FL!Tradable, MP!FL!Tradable,
              SE!FL!Volume, MP!FL!Volume, SE!FL!Open, MP!FL!Open, SE!FL!Size, MP!FL!Size,
              SE!FL!AbsVal, MP!FL!AbsVal, SE!FL!Price, MP!FL!Price, SE!FL!SideOf, MP!FL!SideOf
<1>5. SE!MatchResult(b, s, amount) = MP!MatchResult(b, s, amount)
  BY DEF SE!MatchResult, MP!MatchResult, SE!Price, MP!Price, SE!Size, MP!Size,
         SE!AbsVal, MP!AbsVal
<1>6. SE!Match(b, s) BY <1>1, <1>2, <1>3, <1>4, <1>5 DEF SE!Match
<1> QED BY <1>1, <1>6

LEMMA SettlementStepUp ==
    ASSUME HandlersInv, MP!IInv, SameOrders, [Step]_vars
    PROVE  [SE!Step]_(SE!vars)
<1>1. CASE Handle
  <2>1. UNCHANGED <<engine, pendingTrades, settle>> BY <1>1 DEF Handle
  <2>2. UNCHANGED row \/ (\E r \in Reqs : /\ hpc[r] = "insert" /\ order[r] \notin DOMAIN row
                                          /\ CO!Inserted(order[r]))
    BY <1>1 DEF Handle, CO!Receive, CO!Find, CO!FindFails, CO!Insert, CO!InsertFails
  <2>3. CASE UNCHANGED row
    BY <2>1, <2>3 DEF engine, settle, SE!vars
  <2>4. ASSUME NEW r \in Reqs, hpc[r] = "insert", order[r] \notin DOMAIN row,
               CO!Inserted(order[r])
        PROVE  SE!Step
    <3>1. order[r] \in Orders BY <2>4, Calling
    <3>2. SE!InsertRow(order[r])
      BY <2>1, <2>4 DEF SE!InsertRow, CO!Inserted, CO!NewRow, SE!NewRow, SE!Pending,
                        engine, settle
    <3> QED BY <3>1, <3>2 DEF SE!Step
  <2> QED BY <2>2, <2>3, <2>4
<1>2. CASE MatchStep
  <2>1. UNCHANGED <<settle, row>> BY <1>2 DEF MatchStep
  <2>2. CASE MP!Emit
    <3>1. \E b, s \in Orders : SE!Match(b, s) BY <2>1, <2>2, EmitIsMatch DEF settle
    <3> QED BY <3>1 DEF SE!Step
  <2>3. CASE ~MP!Emit
    <3>1. UNCHANGED <<matched, pendingTrades>>
      BY <1>2, <2>3, SameEngine
      DEF MatchStep, MP!MatchStep, MP!StartPass, MP!EndPass, MP!PickBook, MP!Scan,
          MP!LeaveBook, MP!Deduct
    <3> QED BY <2>1, <3>1 DEF settle, SE!vars
  <2> QED BY <2>2, <2>3
<1>3. CASE (\E r \in Reqs : CallAdd(r) \/ AddReturns(r)) \/ Tick \/ UNCHANGED vars
  BY <1>3 DEF CallAdd, AddReturns, Tick, vars, engine, settle, SE!vars, ME!AddRemain,
              ME!AddToBook, CO!CallAdd, CO!AddReturns, CO!Tick
<1>4. CASE SubmitStep \/ MineStep
  BY <1>4 DEF SubmitStep, MineStep, SE!Step
<1> QED BY <1>1, <1>2, <1>3, <1>4 DEF Step

LEMMA SettlementStep ==
    ASSUME HandlersInv, MP!IInv, SameOrders, [Next]_vars
    PROVE  [SE!Next]_(SE!vars)
<1>1. CASE [Step]_vars
  <2>1. [SE!Step]_(SE!vars) BY <1>1, SettlementStepUp
  <2> QED BY <2>1 DEF SE!Next
<1>2. CASE Restart BY <1>2 DEF Restart, SE!Next
<1> QED BY <1>1, <1>2 DEF Next

\* The handlers and the engine do to rows, trades and the ledger what the
\* environment of Settlement may do, and nothing else.
THEOREM SettlementIsRefined == Spec => SettlementRefined
<1>1. Init => SE!Init BY DEF Init
<1>2. HandlersInv /\ MP!IInv /\ SameOrders /\ [Next]_vars => [SE!Next]_(SE!vars)
  BY SettlementStep
<1> QED BY <1>1, <1>2, Joint, PTL DEF Spec, SE!Spec, SettlementRefined

-----------------------------------------------------------------------------
(* What is proved of the settlement holds in the composition.              *)

LEMMA SameSettlement ==
    /\ SE!Init => SP!Init
    /\ SE!Step => SP!Step
    /\ SE!Next => SP!Next
<1>1. SE!Init => SP!Init
  BY DEF SE!Init, SP!Init, SE!FL!Init, SP!FL!Init, SE!NewRow, SP!NewRow, SE!Pending, SP!Pending,
         SE!NoTx, SP!NoTx
<1>2. SE!Step => SP!Step
  BY DEF SE!Step, SP!Step, SE!SubmitStep, SP!SubmitStep,
         SE!MineStep, SP!MineStep, SE!InsertRow, SP!InsertRow, SE!NewRow, SP!NewRow,
         SE!Pending, SP!Pending, SE!Match, SP!Match, SE!SubmitTrades, SP!SubmitTrades,
         SE!Build, SP!Build, SE!NextTrade, SP!NextTrade, SE!Trade0, SP!Trade0,
         SE!Send, SP!Send, SE!SendFails, SP!SendFails, SE!Accepted, SP!Accepted,
         SE!WaitMined, SP!WaitMined, SE!FindRow, SP!FindRow, SE!FindRowFails,
         SP!FindRowFails, SE!Leg, SP!Leg, SE!Min2, SP!Min2, SE!AfterLeg, SP!AfterLeg,
         SE!WriteRow, SP!WriteRow, SE!StatusFor, SP!StatusFor, SE!Filled, SP!Filled,
         SE!PartialFill, SP!PartialFill, SE!WriteRowFails, SP!WriteRowFails,
         SE!Record, SP!Record, SE!RecordFails, SP!RecordFails, SE!Mine, SP!Mine,
         SE!NoTx, SP!NoTx, SE!Hash, SP!Hash, SE!Block, SP!Block,
         SE!FL!Trade, SP!FL!Trade, SE!FL!Tradable,
         SP!FL!Tradable, SE!FL!Volume, SP!FL!Volume, SE!FL!Open, SP!FL!Open,
         SE!MatchResult, SP!MatchResult, SE!Size, SP!Size, SE!Price, SP!Price,
         SE!AbsVal, SP!AbsVal, SE!FL!Size, SP!FL!Size, SE!FL!SideOf, SP!FL!SideOf,
         SE!FL!Price, SP!FL!Price, SE!FL!AbsVal, SP!FL!AbsVal
<1>3. SE!Restart => SP!Restart BY DEF SE!Restart, SP!Restart, SE!NoTx, SP!NoTx
<1> QED BY <1>1, <1>2, <1>3 DEF SE!Next, SP!Next

LEMMA SettlementAlways == Spec => [](SP!IInv /\ SP!RowsBehindLedger)
<1> USE OrdersAssumption, PrecisionAssumption, StableMaxAssumption, HasChainAssumption,
        FaultsAssumption
<1>1. SP!Spec => []SP!IInv
  <2>1. SP!Spec => [](SP!IInv /\ SP!History /\ SP!Told) BY SP!HistoryAlways
  <2> QED BY <2>1, PTL
<1>2. SP!Spec => []SP!RowsBehindLedger BY SP!RowsNeverAhead
<1>3. SE!Spec => SP!Spec
  <2>1. SE!Init => SP!Init BY SameSettlement
  <2>2. [SE!Next]_(SE!vars) => [SP!Next]_(SP!vars)
    BY SameSettlement DEF SE!vars, SP!vars
  <2> QED BY <2>1, <2>2, PTL DEF SE!Spec, SP!Spec
<1> QED BY <1>1, <1>2, <1>3, SettlementIsRefined, PTL DEF SettlementRefined

\* What a row shows filled was traded, and what was traded was signed
\* (matchengine.go:224, 245, 372).
THEOREM FillsAreSigned == Spec => []FillsWithinSigned
<1>1. HandlersInv /\ MP!IInv /\ SP!RowsBehindLedger => FillsWithinSigned
  BY DEF HandlersInv, CO!TypeOK, MP!IInv, MP!AmountInv, MP!NoOverfill, MP!Size, MP!AbsVal,
         Size, AbsVal, SP!RowsBehindLedger, FillsWithinSigned
<1> QED BY <1>1, Joint, SettlementAlways, PTL

\* A row that is filled shows the order's size; as rows are not ahead and no
\* trade exceeds the size, nothing can be left of the order in the engine.
THEOREM FilledHasLeft == Spec => []FilledIsGone
<1>1. HandlersInv /\ MP!IInv /\ MP!Left /\ SP!IInv /\ SP!RowsBehindLedger => FilledIsGone
  <2> SUFFICES ASSUME HandlersInv, MP!IInv, MP!Left, SP!IInv, SP!RowsBehindLedger,
                      NEW o \in DOMAIN row, row[o].status = "Filled", mpc /= "deduct"
               PROVE  o \notin ME!Booked /\ o \notin DOMAIN remain
    BY DEF FilledIsGone
  <2>1. o \in Orders /\ Size(o) \in Nat
    BY OrdersAssumption DEF HandlersInv, CO!TypeOK, Size, AbsVal
  <2>2. SP!Size(o) = Size(o) /\ MP!Size(o) = Size(o)
    BY DEF SP!Size, SP!AbsVal, MP!Size, MP!AbsVal, Size, AbsVal
  <2>3. row[o].filled = Size(o) /\ Size(o) > 0
    BY <2>2 DEF SP!IInv, SP!StatusAgrees, SP!Filled
  <2>4. matched[o] \in Nat /\ row[o].filled <= matched[o]
    BY <2>1 DEF SP!RowsBehindLedger, MP!IInv, MP!TypeOK
  <2>5. o \notin DOMAIN remain
    <3> SUFFICES ASSUME o \in DOMAIN remain PROVE FALSE
      OBVIOUS
    <3>1. remain[o] \in Nat /\ remain[o] > 0
      BY <2>2, <2>3 DEF MP!Left, MP!IInv, MP!TypeOK
    <3>2. remain[o] + matched[o] = Size(o)
      BY <2>1, <2>2 DEF MP!IInv, MP!AmountInv, MP!RemainAccounts, MP!InDeduct
    <3> QED BY <2>1, <2>3, <2>4, <3>1, <3>2
  <2>6. ME!Booked \subseteq DOMAIN remain
    BY DEF MP!IInv, MP!BookInv, MP!RemainIsOpen, MP!Booked, MP!BookedAt, ME!Booked,
           ME!BookedAt, MP!Side, ME!Side, MP!Range, ME!Range
  <2> QED BY <2>5, <2>6
<1> QED BY <1>1, Joint, SettlementAlways, PTL

-----------------------------------------------------------------------------
(* While the process is up.                                                *)

\* Who has been told "success" has an order that the engine holds or used up;
\* a request that did not arrive was told nothing.
Told ==
    \A r \in Reqs :
        /\ hpc[r] = "idle" => answer[r] = "none"
        /\ answer[r] = "0" => /\ order[r] \in Orders
                              /\ \/ order[r] \in MP!Booked
                                 \/ matched[order[r]] = MP!Size(order[r])

\* An order the engine holds or used up is so after every step.
LEMMA HeldStaysHeld ==
    ASSUME HandlersInv, MP!IInv, MP!IInv', Step, NEW o \in Orders,
           o \in MP!Booked \/ matched[o] = MP!Size(o)
    PROVE  (o \in MP!Booked \/ matched[o] = MP!Size(o))'
<1>1. [MP!Step]_(MP!vars) BY EngineStep DEF Next
<1>2. CASE MP!Step
  BY <1>2, MP!BookedOrUsedUp, OrdersAssumption, PrecisionAssumption, StableMaxAssumption,
     NoPerpAssumption
<1>3. CASE UNCHANGED MP!vars
  BY <1>3 DEF MP!vars, MP!Booked, MP!BookedAt
<1> QED BY <1>1, <1>2, <1>3

LEMMA ToldStep ==
    ASSUME HandlersInv, MP!IInv, MP!IInv', Told, [Step]_vars
    PROVE  Told'
<1> DEFINE Same(q) == hpc'[q] = hpc[q] /\ order'[q] = order[q] /\ answer'[q] = answer[q]
           Held(o) == o \in MP!Booked \/ matched[o] = MP!Size(o)
           Fine(q) == /\ hpc[q] = "idle" => answer[q] = "none"
                      /\ answer[q] = "0" => order[q] \in Orders /\ Held(order[q])
<1>1. CASE UNCHANGED vars
  BY <1>1 DEF Told, vars, engine, handler, MP!Booked, MP!BookedAt
<1>2. CASE Step
  <2> SUFFICES ASSUME NEW q \in Reqs PROVE Fine(q)'
    BY DEF Told
  <2>1. Fine(q) BY DEF Told
  <2>2. \A o \in Orders : Held(o) => Held(o)' BY <1>2, HeldStaysHeld
  <2>3. /\ hpc \in [Reqs -> {"idle", "find", "insert", "add", "adding", "done"}]
        /\ order \in [Reqs -> Orders \cup {NoOrder}]
        /\ answer \in [Reqs -> {"none", "0", "400", "500"}]
    BY DEF HandlersInv, CO!TypeOK
  <2>4. CASE Same(q)
    <3> HIDE DEF Held
    <3> QED BY <2>1, <2>2, <2>4
  <2>5. ASSUME NEW r \in Reqs, AddReturns(r), ~Same(q) PROVE Fine(q)'
    <3>1. hpc[r] = "adding" /\ UNCHANGED order /\ MP!AddToBook(order[r])
      BY <2>5, SameEngine DEF AddReturns, CO!AddReturns
    <3>2. q = r /\ hpc'[q] = "done"
      BY <2>3, <2>5 DEF AddReturns, CO!AddReturns, CO!Answer, CO!Goto
    <3>3. order[r] \in Orders BY <3>1, Calling
    <3>4. order[r] \in MP!Booked'
      BY <3>1, <3>3, MP!AddedIsBooked, OrdersAssumption, PrecisionAssumption,
         StableMaxAssumption, NoPerpAssumption
    <3> QED BY <3>1, <3>2, <3>3, <3>4
  <2>6. ASSUME NEW r \in Reqs, CallAdd(r), ~Same(q) PROVE Fine(q)'
    <3>1. /\ hpc' = [hpc EXCEPT ![r] = "adding"] /\ UNCHANGED <<order, answer>>
      BY <2>6 DEF CallAdd, CO!CallAdd, CO!Goto
    <3>2. hpc'[q] /= "idle" BY <2>3, <3>1, <2>6
    <3> HIDE DEF Held
    <3> QED BY <2>1, <2>2, <3>1, <3>2
  <2>7. ASSUME Handle, ~Same(q) PROVE Fine(q)'
    <3>1. hpc'[q] /= "idle"
      BY <2>3, <2>7 DEF Handle, CO!Receive, CO!Find, CO!FindFails, CO!Insert,
                        CO!InsertFails, CO!Answer, CO!Goto
    <3>2. CASE hpc[q] = "idle"
      <4>1. answer'[q] /= "0"
        BY <2>1, <2>3, <2>7, <3>2
        DEF Handle, CO!Receive, CO!Find, CO!FindFails, CO!Insert, CO!InsertFails,
            CO!Answer, CO!Goto
      <4> QED BY <3>1, <4>1
    <3>3. CASE hpc[q] /= "idle"
      <4>1. order'[q] = order[q] /\ (answer'[q] = "0" => answer[q] = "0")
        BY <2>3, <2>7, <3>3
        DEF Handle, CO!Receive, CO!Find, CO!FindFails, CO!Insert, CO!InsertFails,
            CO!Answer, CO!Goto
      <4> HIDE DEF Held
      <4> QED BY <2>1, <2>2, <3>1, <4>1
    <3> QED BY <3>2, <3>3
  <2>8. CASE Tick \/ MatchStep \/ SubmitStep \/ MineStep
    <3>1. Same(q) BY <2>8 DEF Tick, CO!Tick, MatchStep, SubmitStep, MineStep, handler
    <3> QED BY <2>4, <3>1
  <2> QED BY <1>2, <2>4, <2>5, <2>6, <2>7, <2>8 DEF Step
<1> QED BY <1>1, <1>2

\* As long as the process has not restarted, who was told "success" finds the
\* order in its book or used up (createorderlogic.go:85-90).
THEOREM SuccessMeansHeld == LiveSpec => []SuccessInEngine
<1>1. LiveSpec => Spec
  <2>1. [Step]_vars => [Next]_vars BY DEF Next
  <2> QED BY <2>1, PTL DEF LiveSpec, Spec
<1>2. Init => Told BY DEF Init, CO!Init, Told
<1>3. HandlersInv /\ MP!IInv /\ MP!IInv' /\ Told /\ [Step]_vars => Told' BY ToldStep
<1>4. Told => SuccessInEngine
  <2>1. ME!Booked = MP!Booked
    BY DEF ME!Booked, ME!BookedAt, ME!Side, ME!Range, MP!Booked, MP!BookedAt, MP!Side,
           MP!Range
  <2>2. \A o : MP!Size(o) = Size(o) BY DEF MP!Size, MP!AbsVal, Size, AbsVal
  <2> QED BY <2>1, <2>2 DEF Told, SuccessInEngine
<1> QED BY <1>1, <1>2, <1>3, <1>4, Joint, PTL DEF LiveSpec

-----------------------------------------------------------------------------
(* While the process is up and nothing fails.                              *)

\* Who is not acceptable is answered before its row is inserted, so the orders
\* with a row, which are all the engine and the submit loop know, are acceptable.
LEMMA RowsAcceptable == Spec => [](DOMAIN row \subseteq Acceptable)
<1>1. Init => DOMAIN row \subseteq Acceptable BY DEF Init, CO!Init
<1>2. HandlersInv /\ DOMAIN row \subseteq Acceptable /\ [Next]_vars
        => (DOMAIN row \subseteq Acceptable)'
  <2> SUFFICES ASSUME HandlersInv, DOMAIN row \subseteq Acceptable, [Next]_vars
               PROVE  DOMAIN row' \subseteq Acceptable
    OBVIOUS
  <2>1. CASE Handle
    <3>1. PICK r \in Reqs : \/ (\E o \in Orders : CO!Receive(r, o)) \/ CO!Find(r) \/ CO!FindFails(r)
                            \/ CO!Insert(r) \/ CO!InsertFails(r)
      BY <2>1 DEF Handle
    <3>2. CASE (\E o \in Orders : CO!Receive(r, o)) \/ CO!Find(r) \/ CO!FindFails(r)
      BY <3>2 DEF CO!Receive, CO!Find, CO!FindFails
    <3>3. CASE CO!Insert(r) \/ CO!InsertFails(r)
      <4>1. order[r] \in Acceptable
        BY <3>3 DEF HandlersInv, CO!TypeOK, CO!Insert, CO!InsertFails
      <4>2. DOMAIN row' \subseteq DOMAIN row \cup {order[r]}
        BY <3>3 DEF CO!Insert, CO!InsertFails, CO!Inserted
      <4> QED BY <4>1, <4>2
    <3> QED BY <3>1, <3>2, <3>3
  <2>2. CASE Tick \/ (\E r \in Reqs : CallAdd(r) \/ AddReturns(r)) \/ Restart
    BY <2>2 DEF Tick, CallAdd, AddReturns, Restart, CO!Tick, CO!CallAdd, CO!AddReturns,
                CO!Restart
  <2>3. CASE MatchStep \/ SubmitStep \/ MineStep \/ UNCHANGED vars
    BY <2>3, RowsStay DEF MatchStep, SubmitStep, MineStep, vars
  <2> QED BY <2>1, <2>2, <2>3 DEF Next, Step
<1> QED BY <1>1, <1>2, Joint, PTL DEF Spec

\* Nothing is lost between a trade of the engine and the two rows: what a row
\* does not show yet waits for it (matchengine.go:361-384).  With a chain the
\* orders the handlers accept must be such that BuildMatchTradeData can encode
\* them: a trade it cannot encode is skipped (matchengine.go:308).
THEOREM NothingIsLost ==
    Faults = {} /\ (HasChain => Acceptable \subseteq Encodable) /\ LiveSpec => []NothingLost
<1> SUFFICES ASSUME Faults = {}, HasChain => Acceptable \subseteq Encodable
             PROVE  LiveSpec => []NothingLost
  OBVIOUS
<1> USE OrdersAssumption, PrecisionAssumption, StableMaxAssumption, HasChainAssumption,
        FaultsAssumption
<1>1. LiveSpec => Spec
  <2>1. [Step]_vars => [Next]_vars BY DEF Next
  <2> QED BY <2>1, PTL DEF LiveSpec, Spec
<1>2. Init => SP!Init BY SameSettlement DEF Init
<1>3. HandlersInv /\ MP!IInv /\ SameOrders /\ [Step]_vars => [SP!Step]_(SP!vars)
  <2>1. HandlersInv /\ MP!IInv /\ SameOrders /\ [Step]_vars => [SE!Step]_(SE!vars)
    BY SettlementStepUp
  <2>2. [SE!Step]_(SE!vars) => [SP!Step]_(SP!vars) BY SameSettlement DEF SE!vars, SP!vars
  <2> QED BY <2>1, <2>2
<1>4. DOMAIN row \subseteq Acceptable => SP!AllEncodable BY DEF SP!AllEncodable
<1>5. SP!Init /\ [][SP!Step]_(SP!vars) /\ []SP!AllEncodable => []SP!NothingLost
  BY SP!NothingIsLost
<1>6. SP!NothingLost => NothingLost
  BY DEF SP!NothingLost, NothingLost, SE!NothingLost, SP!SumFor, SE!SumFor, SP!Part, SE!Part,
         SP!WaitingFor, SE!WaitingFor, SP!Passed, SE!Passed, SP!Trade0, SE!Trade0
<1> QED BY <1>1, <1>2, <1>3, <1>4, <1>5, <1>6, Joint, RowsAcceptable, PTL DEF LiveSpec

=============================================================================
