----------------------------- MODULE OrderCodec -----------------------------
(***************************************************************************)
(* What becomes of the texts of a request: the order the contract will     *)
(* decode, the digest that is its id, the check of the signature           *)
(* (src/internal/chain/eip712.go, tradedata.go), and the order the engine  *)
(* makes of them by a second reading (src/internal/engine/matchengine.go). *)
(* CreateOrder has the steps of the handler; here it is one action, and    *)
(* only orders differ.                                                     *)
(*                                                                         *)
(* A number's text is its value, or NotANumber, and whether a blank comes  *)
(* first; an address's text is the address and how it is spelt.  Hashes    *)
(* are taken to be free of collisions, signatures to be unforgeable.       *)
(***************************************************************************)
EXTENDS Integers, FiniteSets

CONSTANTS Requests,    \* the requests clients may send
          Word,        \* 2^64: the width of a field of info
          Wide,        \* 2^256: the width abi.Pack cuts amounts to
          Precision,   \* 10^18: the engine's prices are integers in 1/Precision
          NotANumber,  \* the value of a text that is no integer
          NoV,         \* v of a signature of 64 bytes
          NoRequest    \* last when nothing has been answered

ASSUME WordAssumption == Word \in Nat /\ Word >= 2 /\ Word % 2 = 0
ASSUME WideAssumption == Wide \in Nat /\ Wide >= 2 /\ Wide % 2 = 0
ASSUME PrecisionAssumption == Precision \in Nat \ {0}
ASSUME NotANumberAssumption == NotANumber \notin Int

Int64 == (-(Word \div 2))..((Word \div 2) - 1)

\* The amounts that survive the conversion to the contract's type and back.
Amounts == (-(Wide \div 2))..((Wide \div 2) - 1)

\* Expiration and Nonce are int64; an expiration is in the future, and a
\* negative nonce is left out, as clients and contract count in unsigned words.
ASSUME RequestsAssumption ==
    \A r \in Requests :
        /\ {r.paper.value, r.credit.value} \subseteq Amounts \cup {NotANumber}
        /\ {r.makerFee.value, r.takerFee.value} \subseteq Int \cup {NotANumber}
        /\ {r.expiration, r.nonce} \subseteq Int64 \cap Nat
        /\ r.perp = [address |-> r.perp.address, spelling |-> r.perp.spelling]
        /\ r.v \in Nat \cup {NoV} /\ r.recovery \in {0, 1}

VARIABLES
    hasChain,  \* NewClient connected: signatures are checked
    table,     \* the requests that became orders
    last       \* the last request and its answer

vars == <<hasChain, table, last>>

-----------------------------------------------------------------------------
\* ParseIntString trims; ParseFeeInt64 wants an int64 as well.
IsInt(text) == text.value /= NotANumber

\* Mutant: no check that a fee is an int64.
IsFeeInt(text) == IsInt(text)

IsFee(text) == text.value \in Int64

Parses(r) == /\ IsInt(r.paper) /\ IsInt(r.credit)
             /\ IsFee(r.makerFee) /\ IsFee(r.takerFee)

\* uint64(x) of an int64.
Uint64(x) == IF x < 0 THEN x + Word ELSE x

\* Mutant: the taker fee is shifted by one field too few.
PackOrderInfoOverlap(maker, taker, expiration, nonce) ==
    (Uint64(maker) * Word * Word + Uint64(taker) + expiration) * Word + nonce

\* The four words side by side: none reaches into the next.
PackOrderInfo(maker, taker, expiration, nonce) ==
    ((Uint64(maker) * Word + Uint64(taker)) * Word + expiration) * Word + nonce

Info(r) == PackOrderInfo(r.makerFee.value, r.takerFee.value, r.expiration, r.nonce)

\* Mutant: the id is made of the request's own texts.
OrderIdOfTexts(r) == <<r.perp, r.signer, r.paper, r.credit, Info(r)>>

\* OrderDigestWith: addresses, amounts modulo the width, and info.  Chain and
\* dealer are the same for all.
OrderId(r) ==
    <<r.perp.address, r.signer, r.paper.value % Wide, r.credit.value % Wide, Info(r)>>

\* DecodeSignature: v is appended to 64 bytes, and 0 and 1 become 27 and 28.
DecodedV(r) == IF r.v = NoV THEN 27
               ELSE IF r.v \in {0, 1} THEN r.v + 27 ELSE r.v

\* External, crypto.SigToPub: the recovery id is 0 to 3, and only the one the
\* signature was made with gives the signer's key.
Recovers(v, r) == v < 4 /\ v = r.recovery

VerifyEOASignature(r) == Recovers(DecodedV(r), r)

-----------------------------------------------------------------------------
(* AddOrder gets the texts.                                                *)

\* Mutant: the side is taken from absPaperString's result, which has no sign.
EngineIntUnsigned(text) ==
    IF text.blank THEN 0 ELSE IF text.value < 0 THEN -text.value ELSE text.value

\* big.Int.SetString does not trim.  Its failure is ignored, and the number it
\* leaves behind is 0.
EngineInt(text) == IF text.blank THEN 0 ELSE text.value

\* An order as OrderData has them; its book goes by the text of the address.
EngineOrder(r) == [nonce |-> r.nonce, perp |-> r.perp,
                   paper |-> EngineInt(r.paper), credit |-> EngineInt(r.credit)]

OD == INSTANCE OrderData
      WITH Orders <- {EngineOrder(r) : r \in {q \in Requests : Parses(q)}},
           Perps <- {r.perp : r \in Requests},
           StableMax <- 12

\* The two on the sides of one book, a buying from b, their prices cross, and
\* neither is of size 0: at the heads, matchOrderBook makes a trade of them.
Crosses(a, b) ==
    /\ a.perp = b.perp
    /\ OD!SideOf(a) = "buy" /\ OD!SideOf(b) = "sell"
    /\ OD!Size(a) > 0 /\ OD!Size(b) > 0
    /\ OD!Price(a) >= OD!Price(b)

-----------------------------------------------------------------------------
Init ==
    /\ hasChain \in BOOLEAN
    /\ table = {}
    /\ last = [request |-> NoRequest, answer |-> "none"]

Answers(r, answer) == last' = [request |-> r, answer |-> answer]

Known(r) == \E a \in table : OrderId(a) = OrderId(r)

Malformed(r) ==
    /\ ~Parses(r)
    /\ Answers(r, "Invalid order fields")
    /\ UNCHANGED <<hasChain, table>>

BadSignature(r) ==
    /\ Parses(r)
    /\ hasChain /\ ~VerifyEOASignature(r)
    /\ Answers(r, "Invalid signature")
    /\ UNCHANGED <<hasChain, table>>

Exists(r) ==
    /\ Parses(r)
    /\ hasChain => VerifyEOASignature(r)
    /\ Known(r)
    /\ Answers(r, "Order already exists")
    /\ UNCHANGED <<hasChain, table>>

Accept(r) ==
    /\ Parses(r)
    /\ hasChain => VerifyEOASignature(r)
    /\ ~Known(r)
    /\ table' = table \cup {r}
    /\ Answers(r, "success")
    /\ UNCHANGED hasChain

Next == \E r \in Requests : Malformed(r) \/ BadSignature(r) \/ Exists(r) \/ Accept(r)

Spec == Init /\ [][Next]_vars

-----------------------------------------------------------------------------
(* Properties.                                                             *)

\* What the request says, however it is spelt.
Written(r) == [perp |-> r.perp.address, signer |-> r.signer,
               paper |-> r.paper.value, credit |-> r.credit.value,
               makerFee |-> r.makerFee.value, takerFee |-> r.takerFee.value,
               expiration |-> r.expiration, nonce |-> r.nonce]

\* External, the contract: sign extension, and the four words of info.
Extended(x, width) == IF x < width \div 2 THEN x ELSE x - width

ContractReads(r) ==
    LET amount(x) == Extended(x % Wide, Wide)
        word(n)   == (Info(r) \div n) % Word
    IN [perp |-> r.perp.address, signer |-> r.signer,
        paper |-> amount(r.paper.value), credit |-> amount(r.credit.value),
        makerFee |-> Extended(word(Word * Word * Word), Word),
        takerFee |-> Extended(word(Word * Word), Word),
        expiration |-> word(Word), nonce |-> word(1)]

TypeOK ==
    /\ hasChain \in BOOLEAN
    /\ table \subseteq {r \in Requests : Parses(r)}
    /\ last.request \in Requests \cup {NoRequest}
    /\ last.answer = "success" => last.request \in table

\* The contract decodes the very order the request wrote (eip712.go:35).
ContractReadsRequest == \A r \in table : ContractReads(r) = Written(r)

\* One signed order becomes one order of the exchange, in whatever spelling
\* its number and addresses are sent again (OrderId is the digest of what the
\* texts mean, tradedata.go:97).
SignedOrderOnce == \A a, b \in table : Written(a) = Written(b) => a = b

\* Nobody is told "Order already exists" of an order that does not.
DuplicateExists ==
    last.answer = "Order already exists" =>
        \E a \in table : Written(a) = Written(last.request)

\* The engine's reading and the contract's.  Whatever blanks and spellings the
\* texts have, the engine never takes two orders for a buy and a sell of one
\* perpetual that the contract reads otherwise (matchengine.go:113); if the
\* amounts have no blank and the addresses one spelling, it trades exactly the
\* orders whose limits, rounded, cross as the contract reads them.
ReadAlike ==
    \A a, b \in table :
        LET x == ContractReads(a)
            y == ContractReads(b)
            plain == \A text \in {a.paper, a.credit, b.paper, b.credit} : ~text.blank
        IN /\ Crosses(EngineOrder(a), EngineOrder(b)) =>
                 x.perp = y.perp /\ x.paper > 0 /\ y.paper < 0
           /\ plain /\ a.perp.spelling = b.perp.spelling =>
                 (Crosses(EngineOrder(a), EngineOrder(b)) <=> Crosses(x, y))

\* A signature in one of the forms DecodeSignature supports, 64 bytes, or v
\* as 0 or 1, or as 27 or 28 (tradedata.go:127), of the right key is accepted.
SupportedSignature ==
    last.answer = "Invalid signature" =>
        LET r == last.request IN
        ~(r.v \in {r.recovery, r.recovery + 27} \/ (r.v = NoV /\ r.recovery = 0))

=============================================================================
