---------------------------- MODULE Transactions ----------------------------
(***************************************************************************)
(* sendTx, the one way an OrderBuilder writes to the chain, called by       *)
(* several goroutines with one private key.  It reads the pending nonce,    *)
(* the gas price and a gas estimate from the node, sends the signed         *)
(* transaction, and polls for its receipt.  Nothing is locked in between:   *)
(* two goroutines may read the same nonce, and since signatures are         *)
(* deterministic the same call at the same nonce and gas price is the same  *)
(* transaction.                                                             *)
(*                                                                          *)
(* The node is external: its pool holds one transaction per nonce, a better *)
(* paid one replaces another, and it mines them in the order of nonces.     *)
(***************************************************************************)
EXTENDS Naturals, FiniteSets

CONSTANTS
  Callers,    \* goroutines that use the OrderBuilder
  Deadlines,  \* the callers whose context ends some day
  Calls,      \* the contract calls: destination and calldata
  Prices,     \* gas prices; the next one up is enough to replace a transaction
  MaxNonce,   \* bound: no call starts that could need a nonce above it
  NoTx,       \* no transaction is being assembled
  Faults      \* what may go wrong: a subset of FaultKinds

FaultKinds == {"rpc", "revert", "drop"}

ASSUME TxAssumption ==
  /\ Deadlines \subseteq Callers
  /\ Prices \subseteq Nat
  /\ MaxNonce \in Nat
  /\ Faults \subseteq FaultKinds

Nonces == 0..MaxNonce
Txs == [call : Calls, nonce : Nonces, price : Prices \cup {0}]

ASSUME NoTxAssumption == NoTx \notin Txs

VARIABLES
  at,         \* at[c]: where in sendTx caller c is
  tx,         \* tx[c]: the transaction it assembles, sends and waits for
  result,     \* result[c]: the TransactionResult sendTx has returned to it
  pool,       \* the node's pending transactions
  next,       \* the account's nonce: how many transactions were mined
  succeeded,  \* mined transactions with a successful receipt
  reverted,   \* mined transactions with a failed one
  claimed,    \* transactions for which a TransactionSuccess was returned
  reclaimed   \* ... and for which one was returned twice

nodeVars == <<pool, next, succeeded, reverted>>
claims == <<claimed, reclaimed>>
txVars == <<at, tx, result, pool, next, succeeded, reverted, claimed, reclaimed>>

Stages == {"idle",      \* not in sendTx
           "nonce",     \* ChainID and PendingNonceAt
           "gas",       \* SuggestGasPrice and EstimateGas
           "send",      \* SignTx and SendTransaction
           "wait",      \* WaitMined
           "returned"}  \* sendTx has returned

(* What the caller sees: a success, a failed receipt (a hash and no cause), *)
(* the end of WaitMined without one (both), or any other failure (a cause). *)
Results == {"none", "success", "reverted", "unconfirmed", "failed"}

TxTypeOK ==
  /\ at \in [Callers -> Stages]
  /\ tx \in [Callers -> Txs \cup {NoTx}]
  /\ result \in [Callers -> Results]
  /\ pool \in SUBSET Txs
  /\ next \in Nat
  /\ succeeded \in SUBSET Txs
  /\ reverted \in SUBSET Txs
  /\ claimed \in SUBSET Txs
  /\ reclaimed \in SUBSET Txs

TxInit ==
  /\ at = [c \in Callers |-> "idle"]
  /\ tx = [c \in Callers |-> NoTx]
  /\ result = [c \in Callers |-> "none"]
  /\ pool = {}
  /\ next = 0
  /\ succeeded = {}
  /\ reverted = {}
  /\ claimed = {}
  /\ reclaimed = {}

-----------------------------------------------------------------------------
(***************************************************************************)
(* The callers.                                                             *)
(***************************************************************************)

Mined == succeeded \cup reverted

(* PendingNonceAt: the first nonce that is neither used nor in the pool. *)
IsPendingNonce(n) ==
  /\ n >= next
  /\ \A t \in pool : t.nonce # n
  /\ \A m \in next..(n - 1) : \E t \in pool : t.nonce = m

Busy == {c \in Callers : at[c] \in {"nonce", "gas", "send"}}

(* sendTx(ctx, to, data) is called with call k. *)
SendTx(c, k) ==
  /\ at[c] = "idle"
  /\ next + Cardinality(pool) + Cardinality(Busy) <= MaxNonce
  /\ at' = [at EXCEPT ![c] = "nonce"]
  /\ tx' = [tx EXCEPT ![c] = [call |-> k, nonce |-> 0, price |-> 0]]
  /\ UNCHANGED <<result, nodeVars, claims>>

ReadNonce(c) ==
  /\ at[c] = "nonce"
  /\ \E n \in Nonces :
       /\ IsPendingNonce(n)
       /\ tx' = [tx EXCEPT ![c].nonce = n]
  /\ at' = [at EXCEPT ![c] = "gas"]
  /\ UNCHANGED <<result, nodeVars, claims>>

PriceGas(c) ==
  /\ at[c] = "gas"
  /\ \E p \in Prices : tx' = [tx EXCEPT ![c].price = p]
  /\ at' = [at EXCEPT ![c] = "send"]
  /\ UNCHANGED <<result, nodeVars, claims>>

(* sendTx returns r to its caller. *)
Return(c, r) ==
  /\ at' = [at EXCEPT ![c] = "returned"]
  /\ result' = [result EXCEPT ![c] = r]
  /\ IF r = "success"
       THEN /\ claimed' = claimed \cup {tx[c]}
            /\ reclaimed' = reclaimed \cup ({tx[c]} \cap claimed)
       ELSE UNCHANGED claims
  /\ UNCHANGED tx

(* ChainID, PendingNonceAt, SuggestGasPrice or EstimateGas fails; the last   *)
(* one also when the call would revert.                                     *)
FailBeforeSend(c) ==
  /\ \/ at[c] \in {"nonce", "gas"} /\ "rpc" \in Faults
     \/ at[c] = "gas" /\ "revert" \in Faults
  /\ Return(c, "failed")
  /\ UNCHANGED nodeVars

Accepts(t) ==
  /\ t.nonce >= next
  /\ \A u \in pool : u.nonce = t.nonce => u.price < t.price

AddToPool(t) == pool' = {u \in pool : u.nonce # t.nonce} \cup {t}

(* Mutation: "already known" counts as sent. *)
SubmitOrKnown(c) ==
  /\ at[c] = "send"
  /\ Accepts(tx[c]) \/ tx[c] \in pool
  /\ AddToPool(tx[c])
  /\ at' = [at EXCEPT ![c] = "wait"]
  /\ UNCHANGED <<tx, result, next, succeeded, reverted, claims>>

(* Mutation: the error of SendTransaction is not looked at. *)
WaitAnyway(c) ==
  /\ at[c] = "send"
  /\ ~Accepts(tx[c])
  /\ at' = [at EXCEPT ![c] = "wait"]
  /\ UNCHANGED <<tx, result, nodeVars, claims>>

(* SendTransaction succeeds. *)
Submit(c) ==
  /\ at[c] = "send"
  /\ Accepts(tx[c])
  /\ AddToPool(tx[c])
  /\ at' = [at EXCEPT ![c] = "wait"]
  /\ UNCHANGED <<tx, result, next, succeeded, reverted, claims>>

(* SendTransaction fails: the nonce is used, the transaction is known or     *)
(* another one with its nonce is paid as well.                              *)
Rejected(c) ==
  /\ at[c] = "send"
  /\ ~Accepts(tx[c])
  /\ Return(c, "failed")
  /\ UNCHANGED nodeVars

(* SendTransaction fails on the way to the node or on the way back. *)
SendLost(c) ==
  /\ "rpc" \in Faults
  /\ at[c] = "send"
  /\ \/ Accepts(tx[c]) /\ AddToPool(tx[c])
     \/ UNCHANGED pool
  /\ Return(c, "failed")
  /\ UNCHANGED <<next, succeeded, reverted>>

(* Mutation: only a successful receipt ends the wait. *)
ConfirmSuccess(c) ==
  /\ at[c] = "wait"
  /\ tx[c] \in succeeded
  /\ Return(c, "success")
  /\ UNCHANGED nodeVars

(* WaitMined finds the receipt.  An error of the poll itself is ignored. *)
Confirm(c) ==
  /\ at[c] = "wait"
  /\ tx[c] \in Mined
  /\ Return(c, IF tx[c] \in succeeded THEN "success" ELSE "reverted")
  /\ UNCHANGED nodeVars

(* Mutation: the error of WaitMined is not looked at, and the status is read  *)
(* off a receipt that is not there.                                         *)
ExpireWithNilReceipt(c) ==
  /\ c \in Deadlines
  /\ at[c] = "wait"
  /\ Return(c, "nil dereference")
  /\ UNCHANGED nodeVars

(* The context ends while sendTx waits. *)
Expire(c) ==
  /\ c \in Deadlines
  /\ at[c] = "wait"
  /\ Return(c, "unconfirmed")
  /\ UNCHANGED nodeVars

-----------------------------------------------------------------------------
(***************************************************************************)
(* The node (external).                                                     *)
(***************************************************************************)

Mine(t) ==
  /\ t \in pool
  /\ t.nonce = next
  /\ next' = next + 1
  /\ pool' = pool \ {t}
  /\ \/ succeeded' = succeeded \cup {t} /\ UNCHANGED reverted
     \/ "revert" \in Faults /\ reverted' = reverted \cup {t} /\ UNCHANGED succeeded
  /\ UNCHANGED <<at, tx, result, claims>>

(* The node forgets a pending transaction. *)
Drop(t) ==
  /\ "drop" \in Faults
  /\ t \in pool
  /\ pool' = pool \ {t}
  /\ UNCHANGED <<at, tx, result, next, succeeded, reverted, claims>>

-----------------------------------------------------------------------------
(* sendTx from its first call to the node to its return. *)
Advance(c) ==
  \/ ReadNonce(c)
  \/ PriceGas(c)
  \/ FailBeforeSend(c)
  \/ Submit(c)
  \/ Rejected(c)
  \/ SendLost(c)
  \/ Confirm(c)
  \/ Expire(c)

NodeStep == \E t \in pool : Mine(t) \/ Drop(t)

(* The caller takes the result and can call again. *)
TakeResult(c) ==
  /\ at[c] = "returned"
  /\ at' = [at EXCEPT ![c] = "idle"]
  /\ tx' = [tx EXCEPT ![c] = NoTx]
  /\ result' = [result EXCEPT ![c] = "none"]
  /\ UNCHANGED <<nodeVars, claims>>

TxNext ==
  \/ \E c \in Callers :
       \/ \E k \in Calls : SendTx(c, k)
       \/ Advance(c)
       \/ TakeResult(c)
  \/ NodeStep

TxSpec == TxInit /\ [][TxNext]_txVars

(* A goroutine runs on, a context with a deadline ends, and the node mines. *)
FairTxSpec ==
  /\ TxSpec
  /\ \A c \in Callers : WF_txVars(Advance(c))
  /\ WF_txVars(\E t \in pool : Mine(t))

-----------------------------------------------------------------------------
(***************************************************************************)
(* Properties.                                                              *)
(***************************************************************************)

(* Each TransactionSuccess is earned by a transaction of its own: although   *)
(* nonces are read without a lock, two calls never report the same mined     *)
(* transaction, as long as the node drops none from its pool.                *)
OneSuccessEach ==
  /\ reclaimed = {}
  /\ claimed \subseteq succeeded

(* As long as the node drops nothing, WaitMined polls in vain only for a     *)
(* transaction that another call of the same builder has outbid at the same  *)
(* nonce: a call that waits has its transaction in the pool or mined, or     *)
(* such a rival has taken its place.                                        *)
WaitsUnlessOutbid ==
  \A c \in Callers :
    at[c] = "wait" =>
      \E t \in pool \cup Mined :
        t = tx[c] \/ (t.nonce = tx[c].nonce /\ t.price > tx[c].price)

(* sendTx returns, also without a deadline, when a single goroutine sends    *)
(* and the node drops nothing; a second one could outbid it.                 *)
SendTxReturns ==
  \A c \in Callers : (at[c] \notin {"idle", "returned"}) ~> (at[c] = "returned")

(* "TransactionFail indicates a failed on-chain transaction." (types.go)     *)
FailMeansFailed ==
  \A c \in Callers :
    at[c] = "returned" /\ result[c] # "success" => tx[c] \notin succeeded
=============================================================================
