-------------------------- MODULE OrderCodecProofs --------------------------
(***************************************************************************)
(* Proofs about OrderCodec: packing four fields into one number and        *)
(* cutting amounts to their width loses nothing: the contract reads what   *)
(* was written and the id of an order stands for it, for any width.        *)
(***************************************************************************)
EXTENDS OrderCodec, TLAPS

\* Two numbers with the same quotient and remainder by n are the same.
LEMMA PairInjective ==
    ASSUME NEW n \in Nat, n >= 1,
           NEW a \in Int, NEW b \in Int,
           NEW x \in 0..(n - 1), NEW y \in 0..(n - 1),
           a * n + x = b * n + y
    PROVE  a = b /\ x = y
<1>1. ~(a < b)
  <2> SUFFICES ASSUME a < b PROVE FALSE
    OBVIOUS
  <2>1. (b - a - 1) * n >= 0
    OBVIOUS
  <2>2. (b - a - 1) * n = b * n - a * n - n
    OBVIOUS
  <2> QED
    BY <2>1, <2>2
<1>2. ~(b < a)
  <2> SUFFICES ASSUME b < a PROVE FALSE
    OBVIOUS
  <2>1. (a - b - 1) * n >= 0
    OBVIOUS
  <2>2. (a - b - 1) * n = a * n - b * n - n
    OBVIOUS
  <2> QED
    BY <2>1, <2>2
<1> QED
  BY <1>1, <1>2

LEMMA Uint64Injective ==
    ASSUME NEW x \in Int64, NEW y \in Int64
    PROVE  /\ Uint64(x) \in 0..(Word - 1)
           /\ Uint64(x) = Uint64(y) => x = y
  BY WordAssumption DEF Int64, Uint64

\* An amount is determined by its remainder.
LEMMA CutInjective ==
    ASSUME NEW x \in Amounts, NEW y \in Amounts, x % Wide = y % Wide
    PROVE  x = y
<1>1. x % Wide = IF x < 0 THEN x + Wide ELSE x
  BY WideAssumption DEF Amounts
<1>2. y % Wide = IF y < 0 THEN y + Wide ELSE y
  BY WideAssumption DEF Amounts
<1> QED
  BY <1>1, <1>2, WideAssumption DEF Amounts

-----------------------------------------------------------------------------
\* What the handler may compare and store: requests whose fields parse.
Orders == {r \in Requests : Parses(r)}

\* The fields of such a request are numbers of their types.
LEMMA OrderFields ==
    ASSUME NEW r \in Orders
    PROVE  /\ r.paper.value \in Amounts /\ r.credit.value \in Amounts
           /\ r.makerFee.value \in Int64 /\ r.takerFee.value \in Int64
           /\ r.expiration \in Int64 \cap Nat /\ r.nonce \in Int64 \cap Nat
<1>1. r \in Requests /\ Parses(r)
  BY DEF Orders
<1>2. r.paper.value \in Amounts /\ r.credit.value \in Amounts
  BY <1>1, RequestsAssumption DEF Parses, IsInt
<1>3. r.makerFee.value \in Int64 /\ r.takerFee.value \in Int64
  BY <1>1 DEF Parses, IsFee
<1>4. r.expiration \in Int64 \cap Nat /\ r.nonce \in Int64 \cap Nat
  BY <1>1, RequestsAssumption
<1> QED
  BY <1>2, <1>3, <1>4

\* Orders with the same info agree in its four fields: the words do not
\* overlap.
LEMMA InfoInjective ==
    ASSUME NEW a \in Orders, NEW b \in Orders, Info(a) = Info(b)
    PROVE  /\ a.makerFee.value = b.makerFee.value
           /\ a.takerFee.value = b.takerFee.value
           /\ a.expiration = b.expiration
           /\ a.nonce = b.nonce
<1> DEFINE Ma == Uint64(a.makerFee.value)
           Ta == Uint64(a.takerFee.value)
           Ea == a.expiration
           Na == a.nonce
           Mb == Uint64(b.makerFee.value)
           Tb == Uint64(b.takerFee.value)
           Eb == b.expiration
           Nb == b.nonce
           Pa == Ma * Word + Ta
           Pb == Mb * Word + Tb
           Qa == Pa * Word + Ea
           Qb == Pb * Word + Eb
<1>1. /\ Ma \in 0..(Word - 1) /\ Ta \in 0..(Word - 1)
      /\ Mb \in 0..(Word - 1) /\ Tb \in 0..(Word - 1)
  BY OrderFields, Uint64Injective
<1>2. /\ Ea \in 0..(Word - 1) /\ Na \in 0..(Word - 1)
      /\ Eb \in 0..(Word - 1) /\ Nb \in 0..(Word - 1)
  BY OrderFields, WordAssumption DEF Int64
<1>3. Word \in Nat /\ Word >= 1
  BY WordAssumption
<1>4. Qa * Word + Na = Qb * Word + Nb
  BY DEF Info, PackOrderInfo
<1> HIDE DEF Ma, Ta, Ea, Na, Mb, Tb, Eb, Nb
<1>5. Pa \in Int /\ Pb \in Int
  BY <1>1, <1>3
<1> HIDE DEF Pa, Pb
<1>6. Qa \in Int /\ Qb \in Int
  BY <1>2, <1>3, <1>5
<1> HIDE DEF Qa, Qb
<1>7. Qa = Qb /\ Na = Nb
  BY <1>2, <1>3, <1>4, <1>6, PairInjective
<1>8. Pa * Word + Ea = Pb * Word + Eb
  BY <1>7 DEF Qa, Qb
<1>9. Pa = Pb /\ Ea = Eb
  BY <1>2, <1>3, <1>5, <1>8, PairInjective
<1>10. Ma * Word + Ta = Mb * Word + Tb
  BY <1>9 DEF Pa, Pb
<1>11. Ma = Mb /\ Ta = Tb
  BY <1>1, <1>3, <1>10, PairInjective
<1>12. a.makerFee.value = b.makerFee.value /\ a.takerFee.value = b.takerFee.value
  BY <1>11, OrderFields, Uint64Injective DEF Ma, Ta, Mb, Tb
<1> QED
  BY <1>7, <1>9, <1>12 DEF Ea, Na, Eb, Nb

\* The id is that of another order exactly if that order says the same.
LEMMA IdIsMeaning ==
    ASSUME NEW a \in Orders, NEW b \in Orders
    PROVE  OrderId(a) = OrderId(b) <=> Written(a) = Written(b)
<1>1. ASSUME Written(a) = Written(b) PROVE OrderId(a) = OrderId(b)
  BY <1>1 DEF Written, OrderId, Info
<1>2. ASSUME OrderId(a) = OrderId(b) PROVE Written(a) = Written(b)
  <2>1. /\ a.perp.address = b.perp.address /\ a.signer = b.signer
        /\ a.paper.value % Wide = b.paper.value % Wide
        /\ a.credit.value % Wide = b.credit.value % Wide
        /\ Info(a) = Info(b)
    BY <1>2 DEF OrderId
  <2> DEFINE pa == a.paper.value
             pb == b.paper.value
             ca == a.credit.value
             cb == b.credit.value
  <2>2. pa = pb /\ ca = cb
    <3>1. {pa, pb, ca, cb} \subseteq Amounts
      BY OrderFields
    <3>2. pa % Wide = pb % Wide /\ ca % Wide = cb % Wide
      BY <2>1
    <3> HIDE DEF pa, pb, ca, cb
    <3> QED
      BY <3>1, <3>2, CutInjective
  <2>3. /\ a.makerFee.value = b.makerFee.value /\ a.takerFee.value = b.takerFee.value
        /\ a.expiration = b.expiration /\ a.nonce = b.nonce
    BY <2>1, InfoInjective
  <2> QED
    BY <2>1, <2>2, <2>3 DEF Written
<1> QED
  BY <1>1, <1>2

-----------------------------------------------------------------------------
\* What every step keeps: orders of the table have ids of their own, and who
\* was told that an order exists asked for one with an id of the table.
IdsDiffer == \A a, b \in table : OrderId(a) = OrderId(b) => a = b

LastIsKnown ==
    last.answer = "Order already exists" => last.request \in Orders /\ Known(last.request)

IInv == TypeOK /\ IdsDiffer /\ LastIsKnown

\* The invariant holds at the start and through every request.
THEOREM Invariance == Spec => []IInv
<1>1. Init => IInv
  BY DEF Init, IInv, TypeOK, IdsDiffer, LastIsKnown
<1>2. IInv /\ [Next]_vars => IInv'
  <2> SUFFICES ASSUME IInv, [Next]_vars PROVE IInv'
    OBVIOUS
  <2> USE DEF IInv, TypeOK, IdsDiffer, LastIsKnown, Orders
  <2>1. ASSUME NEW r \in Requests, Malformed(r) PROVE IInv'
    BY <2>1 DEF Malformed, Answers
  <2>2. ASSUME NEW r \in Requests, BadSignature(r) PROVE IInv'
    BY <2>2 DEF BadSignature, Answers
  <2>3. ASSUME NEW r \in Requests, Exists(r) PROVE IInv'
    BY <2>3 DEF Exists, Answers, Known
  <2>4. ASSUME NEW r \in Requests, Accept(r) PROVE IInv'
    BY <2>4 DEF Accept, Answers, Known
  <2>5. CASE UNCHANGED vars
    BY <2>5 DEF vars, Known
  <2> QED
    BY <2>1, <2>2, <2>3, <2>4, <2>5 DEF Next
<1> QED
  BY <1>1, <1>2, PTL DEF Spec

\* The table holds only requests whose fields parse, and a request answered
\* with success is among them.
THEOREM TypeCorrect == Spec => []TypeOK
<1>1. IInv => TypeOK
  BY DEF IInv
<1> QED
  BY <1>1, Invariance, PTL

\* An order sent again, however its numbers and addresses are spelt, does not
\* become a second order (tradedata.go:97 and createorderlogic.go:73).
THEOREM OnceWhateverSpelling == Spec => []SignedOrderOnce
<1>1. IInv => SignedOrderOnce
  <2> SUFFICES ASSUME IInv, NEW a \in table, NEW b \in table, Written(a) = Written(b)
               PROVE  a = b
    BY DEF SignedOrderOnce
  <2>1. a \in Orders /\ b \in Orders
    BY DEF IInv, TypeOK, Orders
  <2> QED
    BY <2>1, IdIsMeaning DEF IInv, IdsDiffer
<1> QED
  BY <1>1, Invariance, PTL

\* Nobody is refused because of an order that says something else: digests of
\* different orders differ (eip712.go:36).
THEOREM NoFalseDuplicate == Spec => []DuplicateExists
<1>1. IInv => DuplicateExists
  <2> SUFFICES ASSUME IInv, last.answer = "Order already exists"
               PROVE  \E a \in table : Written(a) = Written(last.request)
    BY DEF DuplicateExists
  <2>1. PICK a \in table : OrderId(a) = OrderId(last.request)
    BY DEF IInv, LastIsKnown, Known
  <2>2. a \in Orders /\ last.request \in Orders
    BY DEF IInv, TypeOK, LastIsKnown, Orders
  <2> QED
    BY <2>1, <2>2, IdIsMeaning
<1> QED
  BY <1>1, Invariance, PTL

-----------------------------------------------------------------------------
\* Quotient and remainder are what the number was made of.
LEMMA QuotientRemainder ==
    ASSUME NEW n \in Nat, n >= 1, NEW a \in Nat, NEW x \in 0..(n - 1)
    PROVE  (a * n + x) \div n = a /\ (a * n + x) % n = x
<1> DEFINE X == a * n + x
           q == X \div n
           m == X % n
<1>1. X \in Nat
  OBVIOUS
<1> HIDE DEF X
<1>2. q \in Int /\ m \in 0..(n - 1) /\ X = n * q + m
  BY <1>1
<1> HIDE DEF q, m
<1>3. q * n + m = a * n + x
  BY <1>2 DEF X
<1>4. q = a /\ m = x
  BY <1>2, <1>3, PairInjective
<1> QED
  BY <1>4 DEF q, m, X

\* What sign extension gives back: the number that was cut to the width.
LEMMA ExtendedUint64 ==
    ASSUME NEW x \in Int64
    PROVE  Extended(Uint64(x), Word) = x
  BY WordAssumption DEF Int64, Uint64, Extended

LEMMA ExtendedAmount ==
    ASSUME NEW x \in Amounts
    PROVE  Extended(x % Wide, Wide) = x
<1>1. x % Wide = IF x < 0 THEN x + Wide ELSE x
  BY WideAssumption DEF Amounts
<1> QED
  BY <1>1, WideAssumption DEF Amounts, Extended

\* Each word of info is the field packed there.
LEMMA WordsOfInfo ==
    ASSUME NEW r \in Orders
    PROVE  /\ (Info(r) \div (Word * Word * Word)) % Word = Uint64(r.makerFee.value)
           /\ (Info(r) \div (Word * Word)) % Word = Uint64(r.takerFee.value)
           /\ (Info(r) \div Word) % Word = r.expiration
           /\ (Info(r) \div 1) % Word = r.nonce
<1> DEFINE W == Word
           M == Uint64(r.makerFee.value)
           T == Uint64(r.takerFee.value)
           E == r.expiration
           N == r.nonce
           P == M * W + T
           Q == P * W + E
<1>1. M \in 0..(W - 1) /\ T \in 0..(W - 1)
  BY OrderFields, Uint64Injective
<1>2. E \in 0..(W - 1) /\ N \in 0..(W - 1)
  BY OrderFields, WordAssumption DEF Int64
<1>3. W \in Nat /\ W >= 1
  BY WordAssumption
<1>4. Info(r) = Q * W + N
  BY DEF Info, PackOrderInfo
<1> HIDE DEF W, M, T, E, N
<1>5. P \in Nat
  BY <1>1, <1>3
<1>6. P \div W = M /\ P % W = T
  BY <1>1, <1>3, QuotientRemainder
<1> HIDE DEF P
<1>7. Q \in Nat
  BY <1>2, <1>3, <1>5
<1>8. Q \div W = P /\ Q % W = E
  BY <1>2, <1>3, <1>5, QuotientRemainder
<1>9. M % W = M
  BY <1>1, <1>3
<1>10. (Q * W + N) % W = N /\ (Q * W + N) \div W = Q
  BY <1>2, <1>3, <1>7, QuotientRemainder
<1>11. (Q * W + N) \div (W * W) = P
  <2>1. E * W + N \in 0..(W * W - 1)
    <3>1. E * W <= (W - 1) * W
      BY <1>2, <1>3
    <3> QED
      BY <3>1, <1>2, <1>3
  <2>2. Q * W + N = P * (W * W) + (E * W + N)
    BY <1>2, <1>3, <1>5
  <2>3. W * W \in Nat /\ W * W >= 1
    BY <1>3
  <2> QED
    BY <2>1, <2>2, <2>3, <1>5, QuotientRemainder
<1>12. (Q * W + N) \div (W * W * W) = M
  <2>1. (T * W + E) * W + N \in 0..(W * W * W - 1)
    <3>1. T * W + E <= W * W - 1 /\ T * W + E \in Nat
      <4>1. T * W <= (W - 1) * W
        BY <1>1, <1>3
      <4> QED
        BY <4>1, <1>1, <1>2, <1>3
    <3>2. (T * W + E) * W <= (W * W - 1) * W
      BY <3>1, <1>3
    <3> QED
      BY <3>1, <3>2, <1>2, <1>3
  <2>2. Q * W + N = M * (W * W * W) + ((T * W + E) * W + N)
    BY <1>1, <1>2, <1>3 DEF P
  <2>3. W * W * W \in Nat /\ W * W * W >= 1
    BY <1>3
  <2> QED
    BY <2>1, <2>2, <2>3, <1>1, QuotientRemainder
<1>13. (Q * W + N) \div 1 = Q * W + N
  BY <1>2, <1>3, <1>7
<1> HIDE DEF Q
<1>14. /\ (Info(r) \div (W * W * W)) % W = M
       /\ (Info(r) \div (W * W)) % W = T
       /\ (Info(r) \div W) % W = E
       /\ (Info(r) \div 1) % W = N
  BY <1>4, <1>6, <1>8, <1>9, <1>10, <1>11, <1>12, <1>13
<1> QED
  BY <1>14 DEF W, M, T, E, N

\* Whatever widths the words have, the contract takes apart what the handler
\* packed and cut (eip712.go:35, tradedata.go:97): every order of the table
\* reads there as it was written.
THEOREM NothingLostInPacking == Spec => []ContractReadsRequest
<1>1. IInv => ContractReadsRequest
  <2> SUFFICES ASSUME IInv, NEW r \in table PROVE ContractReads(r) = Written(r)
    BY DEF ContractReadsRequest
  <2>1. r \in Orders
    BY DEF IInv, TypeOK, Orders
  <2>2. /\ Extended(r.paper.value % Wide, Wide) = r.paper.value
        /\ Extended(r.credit.value % Wide, Wide) = r.credit.value
    BY <2>1, OrderFields, ExtendedAmount
  <2>3. /\ Extended((Info(r) \div (Word * Word * Word)) % Word, Word) = r.makerFee.value
        /\ Extended((Info(r) \div (Word * Word)) % Word, Word) = r.takerFee.value
    BY <2>1, OrderFields, WordsOfInfo, ExtendedUint64
  <2>4. (Info(r) \div Word) % Word = r.expiration /\ (Info(r) \div 1) % Word = r.nonce
    BY <2>1, WordsOfInfo
  <2> QED
    BY <2>2, <2>3, <2>4 DEF ContractReads, Written
<1> QED
  BY <1>1, Invariance, PTL

-----------------------------------------------------------------------------
\* The engine's reading of a text is the number it denotes, or 0; so whatever
\* the engine trades is a buy and a sell for the contract, and without blanks
\* the two read the same orders (matchengine.go:95, tradedata.go:65).
THEOREM EngineReadsAlike == Spec => []ReadAlike
<1>1. IInv /\ ContractReadsRequest => ReadAlike
  <2> SUFFICES ASSUME IInv, ContractReadsRequest,
                      NEW a \in table, NEW b \in table
               PROVE  LET x == ContractReads(a)
                          y == ContractReads(b)
                          plain == \A text \in {a.paper, a.credit, b.paper, b.credit} :
                                       ~text.blank
                      IN /\ Crosses(EngineOrder(a), EngineOrder(b)) =>
                               x.perp = y.perp /\ x.paper > 0 /\ y.paper < 0
                         /\ plain /\ a.perp.spelling = b.perp.spelling =>
                               (Crosses(EngineOrder(a), EngineOrder(b)) <=> Crosses(x, y))
    BY DEF ReadAlike
  <2>1. a \in Orders /\ b \in Orders BY DEF IInv, TypeOK, Orders
  <2>2. ContractReads(a) = Written(a) /\ ContractReads(b) = Written(b)
    BY DEF ContractReadsRequest
  <2>3. /\ a.paper.value \in Int /\ b.paper.value \in Int
        /\ a.credit.value \in Int /\ b.credit.value \in Int
    BY <2>1, OrderFields, WideAssumption DEF Amounts
  <2>4. ASSUME Crosses(EngineOrder(a), EngineOrder(b))
        PROVE  /\ Written(a).perp = Written(b).perp
               /\ Written(a).paper > 0 /\ Written(b).paper < 0
    <3>1. /\ a.perp = b.perp
          /\ EngineInt(a.paper) > 0 /\ ~(EngineInt(b.paper) > 0)
          /\ EngineInt(b.paper) /= 0
      BY <2>3, <2>4 DEF Crosses, EngineOrder, EngineInt, OD!SideOf, OD!Size, OD!AbsVal
    <3> QED BY <2>3, <3>1 DEF EngineInt, Written
  <2>5. ASSUME ~a.paper.blank, ~a.credit.blank, ~b.paper.blank, ~b.credit.blank,
               a.perp.spelling = b.perp.spelling
        PROVE  Crosses(EngineOrder(a), EngineOrder(b)) <=> Crosses(Written(a), Written(b))
    <3>1. a.perp = b.perp <=> a.perp.address = b.perp.address
      <4>1. \A r \in {a, b} :
               r.perp = [address |-> r.perp.address, spelling |-> r.perp.spelling]
        BY <2>1, RequestsAssumption DEF Orders
      <4> QED BY <4>1, <2>5
    <3>2. \A r \in {a, b} : /\ EngineOrder(r).paper = Written(r).paper
                            /\ EngineOrder(r).credit = Written(r).credit
      BY <2>5 DEF EngineOrder, EngineInt, Written
    <3> QED BY <3>1, <3>2 DEF Crosses, OD!SideOf, OD!Size, OD!Price, OD!AbsVal,
                             EngineOrder, Written
  <2> QED BY <2>2, <2>4, <2>5
<1> QED
  BY <1>1, Invariance, NothingLostInPacking, PTL

=============================================================================
