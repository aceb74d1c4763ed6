------------------------- MODULE ChainAccountProofs -------------------------
(***************************************************************************)
(* Proofs about ChainAccount: for any number of senders without a lock     *)
(* among them, any prices, failing calls, transactions that come late and  *)
(* restarts, nonces leave no gap, and the calls of a sender stand on the   *)
(* chain once and in order.                                                *)
(***************************************************************************)
EXTENDS ChainAccount, FiniteSetTheorems, SequenceTheorems, TLAPS

\* Everything sent that was not replaced or refused: what has a nonce at the
\* node, and what is on its way there.
Sendings == {[nonce |-> n, tx |-> At(n)] : n \in Used} \cup late

\* The pending nonces are those from the mined ones up to k, and who is about
\* to send, or sent what has not arrived, was told one that was at most k
\* then: k only grows.
UpTo(k) ==
    /\ k >= Len(mined)
    /\ DOMAIN pool = Len(mined)..(k - 1)
    /\ \A s \in Senders : pc[s] = "send" => nonce[s] <= k
    /\ \A l \in late : l.nonce <= k

\* The call a sender is at is the last one, and later than all it has sent.
CallsFresh ==
    /\ \A s \in Senders : pc[s] /= "idle" => calls[s] >= 1
    /\ \A x \in Sendings : x.tx.call <= calls[x.tx.from]
    /\ \A s \in Senders : pc[s] \in {"nonce", "send"} =>
          \A x \in Sendings : x.tx.from = s => x.tx.call < calls[s]

\* A later call of a sender never has a smaller nonce: the nonce it was told
\* was the end of all in use.  It may have the same one while the earlier
\* transaction is on its way, of which only one gets it.
InOrder ==
    /\ \A x, y \in Sendings : x.tx.from = y.tx.from =>
          /\ x.tx.call < y.tx.call => x.nonce <= y.nonce
          /\ x.tx.call = y.tx.call => x = y
    /\ \A s \in Senders : pc[s] = "send" =>
          \A x \in Sendings : x.tx.from = s => x.nonce <= nonce[s]

IInv == /\ TypeOK
        /\ \E k \in Nat : UpTo(k)
        /\ CallsFresh
        /\ InOrder

-----------------------------------------------------------------------------

LEMMA IntervalEnd ==
    ASSUME NEW l \in Nat, NEW k \in Nat, k >= l
    PROVE  l + Cardinality(l..(k - 1)) = k
<1>1. Cardinality(l..(k - 1)) = IF l > k - 1 THEN 0 ELSE (k - 1) - l + 1
  BY FS_Interval
<1> QED BY <1>1

\* What the invariant says of the node: where the nonces end, and that this is
\* the nonce PendingNonceAt answers.
LEMMA NonceFacts ==
    ASSUME TypeOK, NEW k \in Nat, UpTo(k)
    PROVE  /\ Len(mined) \in Nat /\ DOMAIN mined = 1..Len(mined)
           /\ Len(mined) + Cardinality(DOMAIN pool) = k
           /\ Used = 0..(k - 1)
           /\ PendingNonce = k
<1>1. Len(mined) \in Nat /\ DOMAIN mined = 1..Len(mined)
  BY LenProperties DEF TypeOK
<1>2. Len(mined) + Cardinality(DOMAIN pool) = k
  BY <1>1, IntervalEnd DEF UpTo
<1>3. Used = 0..(k - 1)
  BY <1>1 DEF Used, UpTo
<1> DEFINE P(n) == /\ n >= Len(mined) /\ n \notin DOMAIN pool
                   /\ \A j \in Len(mined)..(n - 1) : j \in DOMAIN pool
<1>4. k \in 0..k /\ P(k) BY <1>1 DEF UpTo
<1>5. \A n \in 0..k : P(n) => n = k BY <1>1 DEF UpTo
<1>6. PendingNonce = CHOOSE n \in 0..k : P(n) BY <1>2 DEF PendingNonce
<1> HIDE DEF P
<1> QED BY <1>1, <1>2, <1>3, <1>4, <1>5, <1>6

LEMMA TxTypes ==
    ASSUME TypeOK, NEW k \in Nat, UpTo(k), NEW n \in Used
    PROVE  At(n) \in Txs
<1>1. CASE n \in DOMAIN pool BY <1>1 DEF At, TypeOK
<1>2. CASE n \notin DOMAIN pool
  <2>1. n + 1 \in 1..Len(mined) BY <1>2, NonceFacts DEF Used
  <2>2. mined[n + 1] \in Txs BY <2>1, NonceFacts, ElementOfSeq DEF TypeOK
  <2> QED BY <1>2, <2>2 DEF At
<1> QED BY <1>1, <1>2

\* What is sent has a type, and a nonce no greater than the end of them.
LEMMA SendingTypes ==
    ASSUME TypeOK, NEW k \in Nat, UpTo(k)
    PROVE  /\ Sendings \subseteq [nonce : Nat, tx : Txs]
           /\ \A x \in Sendings : x.nonce <= k
<1>1. Used = 0..(k - 1) BY NonceFacts
<1>2. \A n \in Used : At(n) \in Txs BY TxTypes
<1>3. late \subseteq [nonce : Nat, tx : Txs] BY DEF TypeOK
<1>4. \A x \in late : x.nonce <= k BY DEF UpTo
<1> QED BY <1>1, <1>2, <1>3, <1>4 DEF Sendings

LEMMA InitInv == Init => IInv
<1> SUFFICES ASSUME Init PROVE IInv
  OBVIOUS
<1>1. mined \in Seq(Txs) /\ Len(mined) = 0 BY EmptySeq DEF Init
<1>2. TypeOK BY <1>1, MaxCallsAssumption DEF Init, TypeOK
<1>3. UpTo(0) BY <1>1 DEF Init, UpTo
<1>4. Sendings = {} BY <1>1 DEF Init, Used, Sendings
<1>5. CallsFresh /\ InOrder BY <1>4 DEF CallsFresh, InOrder, Init
<1> QED BY <1>2, <1>3, <1>5 DEF IInv

-----------------------------------------------------------------------------
(* Steps that send nothing new.                                            *)

\* The call ends, or everything does; or what was sent moves on or is lost.
LEMMA NothingNew ==
    ASSUME IInv, TypeOK', NEW k \in Nat, UpTo(k)',
           Sendings' \subseteq Sendings, UNCHANGED <<calls, nonce>>,
           \A s \in Senders : pc'[s] \in {pc[s], "idle"}
    PROVE  IInv'
<1>1. CallsFresh' BY DEF IInv, CallsFresh
<1>2. InOrder' BY DEF IInv, InOrder
<1> QED BY <1>1, <1>2 DEF IInv

LEMMA NodeAlone ==
    ASSUME UNCHANGED <<late, pool, mined>>
    PROVE  Used' = Used /\ (\A n : At(n)' = At(n)) /\ Sendings' = Sendings
BY DEF Used, At, Sendings

LEMMA ReturnKeeps ==
    ASSUME IInv,
           \/ \E s \in Senders : GetNonceFails(s) \/ Refused(s) \/ WaitMined(s)
           \/ Restart
           \/ UNCHANGED vars
    PROVE  IInv'
<1>1. /\ UNCHANGED <<calls, nonce, late, pool, mined>>
      /\ pc' \in [Senders -> {"idle", "nonce", "send", "wait"}]
      /\ \A s \in Senders : pc'[s] \in {pc[s], "idle"}
  BY DEF IInv, TypeOK, GetNonceFails, Refused, WaitMined, Restart, vars, Goto
<1>2. TypeOK' BY <1>1 DEF IInv, TypeOK
<1>3. PICK k \in Nat : UpTo(k) BY DEF IInv
<1>4. UpTo(k)' BY <1>1, <1>3 DEF UpTo
<1>5. Sendings' = Sendings BY <1>1, NodeAlone
<1> QED BY <1>1, <1>2, <1>4, <1>5, NothingNew

LEMMA CallKeeps ==
    ASSUME IInv, NEW s \in Senders, Call(s)
    PROVE  IInv'
<1>1. PICK k \in Nat : UpTo(k) BY DEF IInv
<1>2. /\ calls' = [calls EXCEPT ![s] = @ + 1] /\ pc[s] = "idle"
      /\ pc' = [pc EXCEPT ![s] = "nonce"]
      /\ UNCHANGED <<nonce, late, pool, mined>>
  BY DEF Call, Goto
<1>3. /\ calls \in [Senders -> Nat]
      /\ pc \in [Senders -> {"idle", "nonce", "send", "wait"}]
  BY DEF IInv, TypeOK
<1>4. TypeOK' BY <1>2, <1>3 DEF IInv, TypeOK
<1>5. Sendings' = Sendings BY <1>2, NodeAlone
<1>6. \A x \in Sendings : /\ x.tx.from \in Senders /\ x.tx.call \in Nat
                          /\ x.tx.call <= calls[x.tx.from]
  BY <1>1, SendingTypes DEF IInv, CallsFresh, Txs
<1>7. CallsFresh'
  <2>1. \A q \in Senders : pc'[q] /= "idle" => calls'[q] >= 1
    BY <1>2, <1>3 DEF IInv, CallsFresh
  <2>2. \A x \in Sendings : x.tx.call <= calls'[x.tx.from] BY <1>2, <1>3, <1>6
  <2>3. ASSUME NEW q \in Senders, pc'[q] \in {"nonce", "send"},
               NEW x \in Sendings, x.tx.from = q
        PROVE  x.tx.call < calls'[q]
    <3>1. CASE q = s BY <3>1, <2>3, <1>2, <1>3, <1>6
    <3>2. CASE q /= s BY <3>2, <2>3, <1>2, <1>3 DEF IInv, CallsFresh
    <3> QED BY <3>1, <3>2
  <2> QED BY <1>5, <2>1, <2>2, <2>3 DEF CallsFresh
<1>8. InOrder'
  <2>1. \A q \in Senders : pc'[q] = "send" => pc[q] = "send" BY <1>2, <1>3
  <2> QED BY <2>1, <1>2, <1>5 DEF IInv, InOrder
<1>9. UpTo(k)' BY <1>1, <1>2, <1>3 DEF UpTo
<1> QED BY <1>4, <1>7, <1>8, <1>9 DEF IInv

\* The nonce told is the end of all in use, of all senders.
LEMMA GetNonceKeeps ==
    ASSUME IInv, NEW s \in Senders, GetNonce(s)
    PROVE  IInv'
<1>1. PICK k \in Nat : UpTo(k) BY DEF IInv
<1>2. /\ PendingNonce = k /\ pc[s] = "nonce"
      /\ nonce' = [nonce EXCEPT ![s] = k] /\ pc' = [pc EXCEPT ![s] = "send"]
      /\ UNCHANGED <<calls, late, pool, mined>>
  BY <1>1, NonceFacts DEF IInv, GetNonce, Goto
<1>3. /\ nonce \in [Senders -> Nat]
      /\ pc \in [Senders -> {"idle", "nonce", "send", "wait"}]
  BY DEF IInv, TypeOK
<1>4. TypeOK' BY <1>2, <1>3 DEF IInv, TypeOK
<1>5. Sendings' = Sendings BY <1>2, NodeAlone
<1>6. CallsFresh' BY <1>2, <1>3, <1>5 DEF IInv, CallsFresh
<1>7. InOrder'
  <2>1. \A q \in Senders, x \in Sendings :
           pc'[q] = "send" /\ x.tx.from = q => x.nonce <= nonce'[q]
    BY <1>1, <1>2, <1>3, SendingTypes DEF IInv, InOrder
  <2> QED BY <2>1, <1>5 DEF IInv, InOrder
<1>8. UpTo(k)' BY <1>1, <1>2, <1>3 DEF UpTo
<1> QED BY <1>4, <1>6, <1>7, <1>8 DEF IInv

-----------------------------------------------------------------------------
(* Steps that send, and steps of the node.                                 *)

\* The node takes a transaction: at the end of the nonces, or in the place of
\* another one, which is no longer among what was sent.
LEMMA TakenFacts ==
    ASSUME IInv, NEW k \in Nat, UpTo(k), NEW n0 \in Nat, n0 <= k, NEW tx \in Txs,
           Takes(n0, tx.price), Taken(n0, tx), UNCHANGED mined
    PROVE  LET end == IF n0 = k THEN k + 1 ELSE k
               x == [nonce |-> n0, tx |-> tx]
           IN /\ end \in Nat /\ end >= k
              /\ DOMAIN pool' = Len(mined)..(end - 1)
              /\ DOMAIN pool' \subseteq Nat
              /\ \A n \in DOMAIN pool' : pool'[n] \in Txs
              /\ Sendings' \subseteq Sendings \cup late' \cup {x}
<1> DEFINE end == IF n0 = k THEN k + 1 ELSE k
           x == [nonce |-> n0, tx |-> tx]
<1>1. /\ n0 >= Len(mined) /\ Len(mined) \in Nat /\ Used = 0..(k - 1)
  BY NonceFacts DEF IInv, Takes
<1>2. /\ DOMAIN pool' = DOMAIN pool \cup {n0}
      /\ pool'[n0] = tx
      /\ \A n \in DOMAIN pool : n /= n0 => pool'[n] = pool[n]
  BY DEF Taken
<1>3. DOMAIN pool' = Len(mined)..(end - 1) BY <1>1, <1>2 DEF UpTo
<1>4. /\ DOMAIN pool' \subseteq Nat
      /\ \A n \in DOMAIN pool' : pool'[n] \in Txs
  BY <1>2 DEF IInv, TypeOK
<1>5. /\ Used' = Used \cup {n0}
      /\ At(n0)' = tx
      /\ \A n \in Used : n /= n0 => At(n)' = At(n)
  BY <1>1, <1>2 DEF Used, At
<1>6. Sendings' \subseteq Sendings \cup late' \cup {x}
  <2>1. ASSUME NEW n \in Used'
        PROVE  [nonce |-> n, tx |-> At(n)'] \in Sendings \cup {x}
    <3>1. CASE n = n0 BY <3>1, <1>5
    <3>2. CASE n /= n0 BY <3>2, <1>5 DEF Sendings
    <3> QED BY <3>1, <3>2
  <2> QED BY <2>1 DEF Sendings
<1>7. end \in Nat /\ end >= k OBVIOUS
<1> QED BY <1>3, <1>4, <1>6, <1>7

\* One more transaction of s, the last of its calls, with the nonce it was told.
LEMMA OneMore ==
    ASSUME IInv, TypeOK', NEW k \in Nat, UpTo(k)',
           NEW s \in Senders, pc[s] = "send", NEW price \in GasPrices,
           NEW to \in {"idle", "wait"}, pc' = [pc EXCEPT ![s] = to],
           Sendings' \subseteq Sendings \cup {[nonce |-> nonce[s], tx |-> Tx(s, price)]},
           UNCHANGED <<calls, nonce>>
    PROVE  IInv'
<1> DEFINE new == [nonce |-> nonce[s], tx |-> Tx(s, price)]
<1>1. /\ calls \in [Senders -> Nat] /\ nonce \in [Senders -> Nat]
      /\ pc \in [Senders -> {"idle", "nonce", "send", "wait"}]
  BY DEF IInv, TypeOK
<1>2. /\ new.nonce = nonce[s] /\ new.tx.from = s /\ new.tx.call = calls[s]
      /\ calls[s] \in Nat /\ nonce[s] \in Nat
  BY <1>1 DEF Tx
<1>3. PICK j \in Nat : UpTo(j) BY DEF IInv
<1>4. \A x \in Sendings : x.nonce \in Nat /\ x.tx.call \in Nat
  BY <1>3, SendingTypes DEF IInv, Txs
<1>5. \A x \in Sendings : x.tx.from = s => x.tx.call < calls[s] /\ x.nonce <= nonce[s]
  BY DEF IInv, CallsFresh, InOrder
<1>6. \A q \in Senders : pc'[q] \in {"nonce", "send"} => q /= s /\ pc'[q] = pc[q]
  BY <1>1
<1>7. \A x \in Sendings' : x \in Sendings \/ x = new OBVIOUS
<1> HIDE DEF new
<1>8. CallsFresh'
  <2>1. \A q \in Senders : pc'[q] /= "idle" => calls[q] >= 1
    BY <1>1 DEF IInv, CallsFresh
  <2>2. \A x \in Sendings' : x.tx.call <= calls[x.tx.from]
    BY <1>2, <1>7 DEF IInv, CallsFresh
  <2>3. \A q \in Senders : pc'[q] \in {"nonce", "send"} =>
           \A x \in Sendings' : x.tx.from = q => x.tx.call < calls[q]
    BY <1>2, <1>6, <1>7 DEF IInv, CallsFresh
  <2> QED BY <2>1, <2>2, <2>3 DEF CallsFresh
<1>9. InOrder'
  <2>1. ASSUME NEW x \in Sendings', NEW y \in Sendings', x.tx.from = y.tx.from
        PROVE  /\ x.tx.call < y.tx.call => x.nonce <= y.nonce
               /\ x.tx.call = y.tx.call => x = y
    <3>1. CASE x \in Sendings /\ y \in Sendings
      BY <2>1, <3>1 DEF IInv, InOrder
    <3>2. CASE x \in Sendings /\ y = new BY <2>1, <3>2, <1>2, <1>4, <1>5
    <3>3. CASE x = new /\ y \in Sendings BY <2>1, <3>3, <1>2, <1>4, <1>5
    <3>4. CASE x = new /\ y = new BY <3>4, <1>2
    <3> QED BY <3>1, <3>2, <3>3, <3>4, <1>7
  <2>2. \A q \in Senders : pc'[q] = "send" =>
           \A x \in Sendings' : x.tx.from = q => x.nonce <= nonce[q]
    BY <1>2, <1>6, <1>7 DEF IInv, InOrder
  <2> QED BY <2>1, <2>2 DEF InOrder
<1> QED BY <1>8, <1>9 DEF IInv

LEMMA TxFacts ==
    ASSUME IInv, NEW k \in Nat, UpTo(k), NEW s \in Senders, pc[s] = "send",
           NEW price \in GasPrices
    PROVE  /\ Tx(s, price) \in Txs /\ Tx(s, price).price = price
           /\ nonce[s] \in Nat /\ nonce[s] <= k
<1>1. calls[s] \in Nat /\ nonce[s] \in Nat BY DEF IInv, TypeOK
<1>2. calls[s] >= 1 BY DEF IInv, CallsFresh
<1>3. calls[s] \in Nat \ {0} BY <1>1, <1>2
<1>4. Tx(s, price) \in Txs /\ Tx(s, price).price = price BY <1>3 DEF Tx, Txs
<1> QED BY <1>1, <1>4 DEF UpTo

LEMMA SendKeeps ==
    ASSUME IInv, NEW s \in Senders, Send(s)
    PROVE  IInv'
<1>1. PICK k \in Nat : UpTo(k) BY DEF IInv
<1>2. PICK price \in GasPrices :
         Takes(nonce[s], price) /\ Taken(nonce[s], Tx(s, price))
  BY DEF Send
<1> DEFINE to == IF s \in Waiting THEN "wait" ELSE "idle"
<1>3. /\ pc[s] = "send" /\ pc' = [pc EXCEPT ![s] = to]
      /\ UNCHANGED <<calls, nonce, late, mined>>
  BY DEF Send, Goto
<1>4. /\ Tx(s, price) \in Txs /\ Tx(s, price).price = price
      /\ nonce[s] \in Nat /\ nonce[s] <= k
  BY <1>1, <1>3, TxFacts
<1>5. PICK end \in Nat :
      /\ end >= k
      /\ DOMAIN pool' = Len(mined)..(end - 1)
      /\ DOMAIN pool' \subseteq Nat
      /\ \A n \in DOMAIN pool' : pool'[n] \in Txs
      /\ Sendings' \subseteq Sendings \cup late' \cup
                               {[nonce |-> nonce[s], tx |-> Tx(s, price)]}
  BY <1>1, <1>2, <1>3, <1>4, TakenFacts
<1>6. TypeOK' BY <1>3, <1>5 DEF IInv, TypeOK
<1>7. UpTo(end)'
  <2>1. \A q \in Senders : pc'[q] = "send" => pc[q] = "send"
    BY <1>3 DEF IInv, TypeOK
  <2>2. \A q \in Senders : nonce[q] \in Nat BY DEF IInv, TypeOK
  <2>3. \A l \in late : l.nonce \in Nat BY DEF IInv, TypeOK
  <2>4. Len(mined) \in Nat BY <1>1, NonceFacts DEF IInv
  <2> QED BY <2>1, <2>2, <2>3, <2>4, <1>1, <1>3, <1>5 DEF UpTo
<1>8. Sendings' \subseteq Sendings \cup {[nonce |-> nonce[s], tx |-> Tx(s, price)]}
  <2>1. late' \subseteq Sendings BY <1>3 DEF Sendings
  <2> QED BY <2>1, <1>5
<1>9. to \in {"idle", "wait"} OBVIOUS
<1> HIDE DEF to
<1> QED BY <1>3, <1>5, <1>6, <1>7, <1>8, <1>9, OneMore

LEMMA SendFailsKeeps ==
    ASSUME IInv, NEW s \in Senders, SendFails(s)
    PROVE  IInv'
<1>1. PICK k \in Nat : UpTo(k) BY DEF IInv
<1>2. PICK price \in GasPrices :
         late' = late \cup {[nonce |-> nonce[s], tx |-> Tx(s, price)]}
  BY DEF SendFails, Sent
<1>3. /\ pc[s] = "send" /\ pc' = [pc EXCEPT ![s] = "idle"]
      /\ UNCHANGED <<calls, nonce, pool, mined>>
  BY DEF SendFails, Goto
<1>4. Tx(s, price) \in Txs /\ nonce[s] \in Nat /\ nonce[s] <= k
  BY <1>1, <1>3, TxFacts
<1>5. TypeOK' BY <1>2, <1>3, <1>4 DEF IInv, TypeOK
<1>6. UpTo(k)'
  <2>1. pc \in [Senders -> {"idle", "nonce", "send", "wait"}] BY DEF IInv, TypeOK
  <2>2. \A l \in late' : l.nonce <= k BY <1>1, <1>2, <1>4 DEF UpTo
  <2> QED BY <2>1, <2>2, <1>1, <1>3 DEF UpTo
<1>7. Sendings' = Sendings \cup {[nonce |-> nonce[s], tx |-> Tx(s, price)]}
  BY <1>2, <1>3 DEF Sendings, Used, At
<1> QED BY <1>3, <1>5, <1>6, <1>7, OneMore

LEMMA ArriveKeeps ==
    ASSUME IInv, NEW l \in late, Arrive(l)
    PROVE  IInv'
<1>1. PICK k \in Nat : UpTo(k) BY DEF IInv
<1>2. /\ late' = late \ {l} /\ UNCHANGED <<pc, calls, nonce, mined>>
      /\ \/ Takes(l.nonce, l.tx.price) /\ Taken(l.nonce, l.tx)
         \/ UNCHANGED pool
  BY DEF Arrive
<1>3. l = [nonce |-> l.nonce, tx |-> l.tx] /\ l.nonce \in Nat /\ l.tx \in Txs
  BY DEF IInv, TypeOK
<1>4. l \in Sendings /\ late' \subseteq Sendings BY <1>2 DEF Sendings
<1>5. \A x \in late : x.nonce \in Nat /\ x.nonce <= k BY <1>1 DEF IInv, TypeOK, UpTo
<1>6. CASE UNCHANGED pool
  <2>1. TypeOK' BY <1>2, <1>6 DEF IInv, TypeOK
  <2>2. UpTo(k)' BY <1>1, <1>2, <1>6 DEF UpTo
  <2>3. Sendings' \subseteq Sendings BY <1>2, <1>6 DEF Sendings, Used, At
  <2> QED BY <1>2, <2>1, <2>2, <2>3, NothingNew
<1>7. CASE Takes(l.nonce, l.tx.price) /\ Taken(l.nonce, l.tx)
  <2> DEFINE end == IF l.nonce = k THEN k + 1 ELSE k
  <2>1. /\ end \in Nat /\ end >= k
        /\ DOMAIN pool' = Len(mined)..(end - 1)
        /\ DOMAIN pool' \subseteq Nat
        /\ \A n \in DOMAIN pool' : pool'[n] \in Txs
        /\ Sendings' \subseteq Sendings \cup late' \cup {l}
    BY <1>1, <1>2, <1>3, <1>5, <1>7, TakenFacts
  <2>2. TypeOK' BY <1>2, <2>1 DEF IInv, TypeOK
  <2>3. UpTo(end)'
    <3>1. \A q \in Senders : nonce[q] \in Nat BY DEF IInv, TypeOK
    <3>2. Len(mined) \in Nat BY <1>1, NonceFacts DEF IInv
    <3> HIDE DEF end
    <3> QED BY <3>1, <3>2, <1>1, <1>2, <1>5, <2>1 DEF UpTo
  <2>4. Sendings' \subseteq Sendings BY <1>4, <2>1
  <2> HIDE DEF end
  <2> QED BY <1>2, <2>1, <2>2, <2>3, <2>4, NothingNew
<1> QED BY <1>2, <1>6, <1>7

\* Mining moves the boundary between mined and pending, and nothing else.
LEMMA MineKeeps ==
    ASSUME IInv, Mine
    PROVE  IInv'
<1>1. PICK k \in Nat : UpTo(k) BY DEF IInv
<1> DEFINE l == Len(mined)
<1>2. l \in Nat /\ l \in DOMAIN pool /\ mined \in Seq(Txs) /\ pool[l] \in Txs
  BY <1>1, NonceFacts DEF IInv, TypeOK, Mine
<1>3. /\ mined' \in Seq(Txs) /\ Len(mined') = l + 1
      /\ \A i \in 1..l : mined'[i] = mined[i]
      /\ mined'[l + 1] = pool[l]
  BY <1>2, AppendProperties DEF Mine
<1>4. /\ DOMAIN pool' = DOMAIN pool \ {l}
      /\ \A n \in DOMAIN pool \ {l} : pool'[n] = pool[n]
      /\ UNCHANGED <<pc, calls, nonce, late>>
  BY DEF Mine, Restrict
<1>5. TypeOK' BY <1>3, <1>4 DEF IInv, TypeOK
<1>6. UpTo(k)' BY <1>1, <1>2, <1>3, <1>4 DEF UpTo
<1>7. Used' = Used BY <1>2, <1>3, <1>4 DEF Used
<1>8. ASSUME NEW n \in Used PROVE At(n)' = At(n)
  <2>1. CASE n \in DOMAIN pool \ {l} BY <2>1, <1>4 DEF At
  <2>2. CASE n = l BY <2>2, <1>2, <1>3, <1>4 DEF At
  <2>3. CASE n \notin DOMAIN pool
    <3>1. n + 1 \in 1..l BY <2>3, <1>2 DEF Used
    <3> QED BY <2>3, <3>1, <1>3, <1>4 DEF At
  <2> QED BY <2>1, <2>2, <2>3
<1>9. Sendings' = Sendings BY <1>4, <1>7, <1>8 DEF Sendings
<1> QED BY <1>4, <1>5, <1>6, <1>9, NothingNew

-----------------------------------------------------------------------------

LEMMA Invariance == Spec => []IInv
<1>1. IInv /\ [Next]_vars => IInv'
  <2> SUFFICES ASSUME IInv, [Next]_vars PROVE IInv'
    OBVIOUS
  <2>1. CASE \E s \in Senders : Call(s) BY <2>1, CallKeeps
  <2>2. CASE \E s \in Senders : GetNonce(s) BY <2>2, GetNonceKeeps
  <2>3. CASE \E s \in Senders : Send(s) BY <2>3, SendKeeps
  <2>4. CASE \E s \in Senders : SendFails(s) BY <2>4, SendFailsKeeps
  <2>5. CASE \E l \in late : Arrive(l) BY <2>5, ArriveKeeps
  <2>6. CASE Mine BY <2>6, MineKeeps
  <2>7. CASE \/ \E s \in Senders : GetNonceFails(s) \/ Refused(s) \/ WaitMined(s)
             \/ Restart \/ UNCHANGED vars
    BY <2>7, ReturnKeeps
  <2> QED BY <2>1, <2>2, <2>3, <2>4, <2>5, <2>6, <2>7 DEF Next, Step, SenderStep
<1> QED BY InitInv, <1>1, PTL DEF Spec

\* Senders, node and account keep their types.
THEOREM TypeCorrect == Spec => []TypeOK
<1>1. IInv => TypeOK BY DEF IInv
<1> QED BY <1>1, Invariance, PTL

\* No pending transaction waits for a nonce that nobody sends, although every
\* sender reads the nonce long before it sends (client.go:302, 338).
THEOREM NoncesLeaveNoGap == Spec => []NoGap
<1>1. IInv => NoGap
  <2> SUFFICES ASSUME IInv PROVE NoGap
    OBVIOUS
  <2>1. PICK k \in Nat : UpTo(k) BY DEF IInv
  <2>2. Len(mined) + Cardinality(DOMAIN pool) = k BY <2>1, NonceFacts DEF IInv
  <2> QED BY <2>1, <2>2 DEF NoGap, UpTo
<1> QED BY <1>1, Invariance, PTL

\* No call becomes two transactions, and a sender's calls keep their order,
\* although what was believed lost may come in after later calls were sent.
THEOREM CallsKeepOrder == Spec => []SentOnceInOrder
<1>1. IInv => SentOnceInOrder
  <2> SUFFICES ASSUME IInv, NEW m \in Used, NEW n \in Used,
                      m < n, At(m).from = At(n).from
               PROVE  At(m).call < At(n).call
    BY DEF SentOnceInOrder
  <2>1. PICK k \in Nat : UpTo(k) BY DEF IInv
  <2>2. Used = 0..(k - 1) BY <2>1, NonceFacts DEF IInv
  <2>3. At(m).call \in Nat /\ At(n).call \in Nat BY <2>1, TxTypes DEF IInv, Txs
  <2> DEFINE x == [nonce |-> m, tx |-> At(m)]
             y == [nonce |-> n, tx |-> At(n)]
  <2>4. x \in Sendings /\ y \in Sendings BY DEF Sendings
  <2>5. /\ x.nonce = m /\ x.tx = At(m) /\ y.nonce = n /\ y.tx = At(n)
        /\ x.tx.from = y.tx.from
    OBVIOUS
  <2> HIDE DEF x, y
  <2>6. /\ y.tx.call < x.tx.call => y.nonce <= x.nonce
        /\ x.tx.call = y.tx.call => x = y
    BY <2>4, <2>5 DEF IInv, InOrder
  <2> QED BY <2>2, <2>3, <2>5, <2>6
<1> QED BY <1>1, Invariance, PTL

=============================================================================
