---------------------------- MODULE ChainAccount ----------------------------
(***************************************************************************)
(* The one account all transactions are sent from,                         *)
(* src/internal/chain/client.go.  SubmitPerpTrade, called by the submit    *)
(* loop, and SubmitFundingRateUpdate, called by the funding rate keeper,   *)
(* both ask the node for the next nonce, then for the gas price, and then  *)
(* send, with no lock around the three; the submit loop waits for the      *)
(* receipt, the keeper does not.                                           *)
(*                                                                         *)
(* External: the node.  It takes a transaction with a nonce that is free   *)
(* or, in place of the pending one, with a nonce that is taken if the new  *)
(* gas price is high enough; it refuses it otherwise, and mines what it    *)
(* took in the order of the nonces.  A transaction whose sending failed    *)
(* may reach it all the same, at once, much later or never.                *)
(***************************************************************************)
EXTENDS Integers, Sequences, FiniteSets, Functions

CONSTANTS Senders,     \* goroutines that send: the submit loop, the keeper
          Waiting,     \* those that wait for the receipt: the submit loop
          GasPrices,   \* what SuggestGasPrice may answer
          Bump,        \* rise, in percent, that lets a transaction replace one
          RpcFails,    \* whether calls of the node may fail
          MaxCalls     \* bound: sender -> calls

ASSUME WaitingAssumption == Waiting \subseteq Senders
ASSUME GasPricesAssumption == GasPrices \subseteq Nat
ASSUME BumpAssumption == Bump \in Nat
ASSUME RpcFailsAssumption == RpcFails \in BOOLEAN
ASSUME MaxCallsAssumption == MaxCalls \in [Senders -> Nat]

VARIABLES
    pc,     \* sender -> where its call is
    calls,  \* sender -> calls it made: names its transactions
    nonce,  \* sender -> the nonce it was told
    late,   \* external: transactions on their way although sending failed
    pool,   \* external: nonce -> pending transaction
    mined   \* external: the mined transactions, by nonce from 0

vars == <<pc, calls, nonce, late, pool, mined>>

Init ==
    /\ pc = [s \in Senders |-> "idle"]
    /\ calls = [s \in Senders |-> 0]
    /\ nonce = [s \in Senders |-> 0]
    /\ late = {}
    /\ pool = [n \in {} |-> 0]
    /\ mined = <<>>

-----------------------------------------------------------------------------
\* PendingNonceAt: the first nonce that is neither mined nor pending.
PendingNonce ==
    CHOOSE n \in 0..(Len(mined) + Cardinality(DOMAIN pool)) :
        /\ n >= Len(mined) /\ n \notin DOMAIN pool
        /\ \A k \in Len(mined)..(n - 1) : k \in DOMAIN pool

Goto(s, to) == pc' = [pc EXCEPT ![s] = to]

Tx(s, price) == [from |-> s, call |-> calls[s], price |-> price]

\* The submit loop has a trade, the keeper a settlement.
Call(s) ==
    /\ pc[s] = "idle"
    /\ calls[s] < MaxCalls[s]
    /\ calls' = [calls EXCEPT ![s] = @ + 1]
    /\ Goto(s, "nonce")
    /\ UNCHANGED <<nonce, late, pool, mined>>

\* Mutant: the client counts nonces itself.
GetNonceCounted(s) ==
    /\ pc[s] = "nonce"
    /\ nonce' = [q \in Senders |-> nonce[q] + 1]
    /\ Goto(s, "send")
    /\ UNCHANGED <<calls, late, pool, mined>>

GetNonce(s) ==
    /\ pc[s] = "nonce"
    /\ nonce' = [nonce EXCEPT ![s] = PendingNonce]
    /\ Goto(s, "send")
    /\ UNCHANGED <<calls, late, pool, mined>>

\* PendingNonceAt or SuggestGasPrice failed: the call returns.
GetNonceFails(s) ==
    /\ RpcFails
    /\ pc[s] \in {"nonce", "send"}
    /\ Goto(s, "idle")
    /\ UNCHANGED <<calls, nonce, late, pool, mined>>

\* Whether the node takes a transaction with that nonce and price.
Takes(n, price) ==
    /\ n >= Len(mined)
    /\ n \in DOMAIN pool => price * 100 >= pool[n].price * (100 + Bump)

Taken(n, tx) == pool' = [m \in DOMAIN pool \cup {n} |-> IF m = n THEN tx ELSE pool[m]]

\* SuggestGasPrice and SendTransaction: as any price may come, when it is
\* asked for makes no difference.
Send(s) ==
    /\ pc[s] = "send"
    /\ \E price \in GasPrices :
          Takes(nonce[s], price) /\ Taken(nonce[s], Tx(s, price))
    /\ Goto(s, IF s \in Waiting THEN "wait" ELSE "idle")
    /\ UNCHANGED <<calls, nonce, late, mined>>

\* "nonce too low" or "replacement transaction underpriced".
Refused(s) ==
    /\ pc[s] = "send"
    /\ \E price \in GasPrices : ~Takes(nonce[s], price)
    /\ Goto(s, "idle")
    /\ UNCHANGED <<calls, nonce, late, pool, mined>>

Sent(s) == \E price \in GasPrices :
              late' = late \cup {[nonce |-> nonce[s], tx |-> Tx(s, price)]}

\* Mutant: on an error it is sent again with a new nonce.
SendFailsRetries(s) ==
    /\ RpcFails
    /\ pc[s] = "send"
    /\ Sent(s)
    /\ Goto(s, "nonce")
    /\ UNCHANGED <<calls, nonce, pool, mined>>

\* The connection breaks: the call returns, the transaction is on its way.
SendFails(s) ==
    /\ RpcFails
    /\ pc[s] = "send"
    /\ Sent(s)
    /\ Goto(s, "idle")
    /\ UNCHANGED <<calls, nonce, pool, mined>>

\* It comes to the node, which takes it or not; nobody gets the answer.
Arrive(l) ==
    /\ l \in late
    /\ late' = late \ {l}
    /\ \/ Takes(l.nonce, l.tx.price) /\ Taken(l.nonce, l.tx)
       \/ ~Takes(l.nonce, l.tx.price) /\ UNCHANGED pool
    /\ UNCHANGED <<pc, calls, nonce, mined>>

IsMined(s) == \E i \in DOMAIN mined : mined[i].from = s /\ mined[i].call = calls[s]

\* bind.WaitMined polls for the receipt of the transaction's own hash; its
\* context has no deadline.
WaitMined(s) ==
    /\ pc[s] = "wait"
    /\ IsMined(s)
    /\ Goto(s, "idle")
    /\ UNCHANGED <<calls, nonce, late, pool, mined>>

Mine ==
    /\ Len(mined) \in DOMAIN pool
    /\ mined' = Append(mined, pool[Len(mined)])
    /\ pool' = Restrict(pool, DOMAIN pool \ {Len(mined)})
    /\ UNCHANGED <<pc, calls, nonce, late>>

\* The process dies and comes up again; the node keeps what it took.
Restart ==
    /\ pc' = [s \in Senders |-> "idle"]
    /\ UNCHANGED <<calls, nonce, late, pool, mined>>

SenderStep(s) == \/ Call(s) \/ GetNonce(s) \/ GetNonceFails(s)
                 \/ Send(s) \/ Refused(s) \/ SendFails(s)
                 \/ WaitMined(s)

Step == \/ \E s \in Senders : SenderStep(s)
        \/ \E l \in late : Arrive(l)
        \/ Mine

Next == Step \/ Restart

Spec == Init /\ [][Next]_vars

\* While the process is up its goroutines run, and the node mines.
LiveSpec == /\ Spec
            /\ \A s \in Senders : WF_vars(SenderStep(s))
            /\ WF_vars(Mine)

-----------------------------------------------------------------------------
(* Properties.                                                             *)

Txs == [from : Senders, call : Nat \ {0}, price : GasPrices]

TypeOK ==
    /\ pc \in [Senders -> {"idle", "nonce", "send", "wait"}]
    /\ \A s \in Senders : pc[s] = "wait" => s \in Waiting
    /\ calls \in [Senders -> Nat]
    /\ nonce \in [Senders -> Nat]
    /\ late \subseteq [nonce : Nat, tx : Txs]
    /\ DOMAIN pool \subseteq Nat
    /\ \A n \in DOMAIN pool : pool[n] \in Txs
    /\ mined \in Seq(Txs)

\* No pending transaction waits for a nonce that nobody sends: the pending
\* nonces follow the mined ones, and a goroutine about to send, whatever the
\* others did meanwhile, or a transaction that comes late, leaves no gap.
NoGap ==
    LET next == Len(mined) + Cardinality(DOMAIN pool) IN
    /\ DOMAIN pool = Len(mined)..(next - 1)
    /\ \A s \in Senders : pc[s] = "send" => nonce[s] <= next
    /\ \A l \in late : l.nonce <= next

\* The nonces in use and the transaction that has one.
Used == DOMAIN pool \cup 0..(Len(mined) - 1)

At(n) == IF n \in DOMAIN pool THEN pool[n] ELSE mined[n + 1]

\* The calls of a goroutine stand on the chain in the order it made them, and
\* none twice: trades in the order of the engine, indexes, which are written as
\* absolute values, in the order they were computed in - however late what was
\* believed lost comes in.
SentOnceInOrder ==
    \A m, n \in Used :
        m < n /\ At(m).from = At(n).from => At(m).call < At(n).call

\* The transaction a goroutine waits for is neither mined nor pending.
IsReplaced(s) ==
    /\ ~IsMined(s)
    /\ \A n \in DOMAIN pool : pool[n].from /= s \/ pool[n].call /= calls[s]

\* The submit loop gets the receipt it waits for, and goes on to update the
\* tables (matchengine.go:291), unless the keeper's transaction took the place
\* of its own: then, the wait having no deadline, it stays there.
WaitEnds ==
    \A s \in Waiting : pc[s] = "wait" ~> (pc[s] /= "wait" \/ IsReplaced(s))

=============================================================================
