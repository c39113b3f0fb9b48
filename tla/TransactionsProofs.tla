------------------------- MODULE TransactionsProofs -------------------------
(***************************************************************************)
(* Proofs about Transactions for any number of callers, calls and prices.   *)
(*                                                                          *)
(* TxInv holds whatever the node does.  When it drops nothing, a nonce that *)
(* a caller has sent a transaction for stays spent: it is used up, or held  *)
(* in the pool by a transaction that is paid at least as well.  That is     *)
(* what keeps two goroutines that read the same nonce from being told of    *)
(* the same mined transaction.                                              *)
(***************************************************************************)
EXTENDS Transactions, TLAPS

(* Inside sendTx there is a transaction, and a success is a mined one. *)
Assembled ==
  \A c \in Callers :
    /\ at[c] # "idle" => tx[c] \in Txs
    /\ result[c] = "success" => at[c] = "returned" /\ tx[c] \in succeeded

TxInv ==
  /\ TxTypeOK
  /\ Assembled
  /\ claimed \subseteq succeeded

(* Sending t would be rejected. *)
Spent(t) ==
  \/ t.nonce < next
  \/ \E u \in pool : u.nonce = t.nonce /\ u.price >= t.price

SpentInv ==
  /\ \A t \in claimed : Spent(t)
  /\ \A c \in Callers :
       at[c] = "wait" =>
         /\ Spent(tx[c])
         /\ tx[c] \notin claimed
         /\ \A d \in Callers \ {c} : at[d] = "wait" => tx[d] # tx[c]

NodeKeepsInv ==
  /\ TxInv
  /\ SpentInv
  /\ OneSuccessEach
  /\ WaitsUnlessOutbid

USE TxAssumption, NoTxAssumption

(* Nonces and prices are numbers. *)
LEMMA TxNumbers == \A t \in Txs : t.nonce \in Nat /\ t.price \in Nat
<1>1. \A n \in Nonces : n \in Nat
  BY DEF Nonces, TxAssumption
<1>2. \A p \in Prices \cup {0} : p \in Nat
  BY DEF TxAssumption
<1> QED
  BY <1>1, <1>2 DEF Txs

-----------------------------------------------------------------------------
(* A fresh builder satisfies both invariants. *)
LEMMA TxInitInv == TxInit => NodeKeepsInv
BY DEF TxInit, NodeKeepsInv, TxInv, TxTypeOK, Assembled, SpentInv,
       OneSuccessEach, WaitsUnlessOutbid, Stages, Results

(* A step of a caller or of the node preserves TxInv. *)
LEMMA TxNextInv == TxInv /\ [TxNext]_txVars => TxInv'
<1> SUFFICES ASSUME TxInv, [TxNext]_txVars PROVE TxInv'
  OBVIOUS
<1> USE DEF TxInv, TxTypeOK, Assembled, Txs, Nonces, Stages, Results,
            nodeVars, claims
<1>1. ASSUME NEW c \in Callers, NEW k \in Calls, SendTx(c, k) PROVE TxInv'
  BY <1>1 DEF SendTx
<1>2. ASSUME NEW c \in Callers, ReadNonce(c) PROVE TxInv'
  BY <1>2 DEF ReadNonce
<1>3. ASSUME NEW c \in Callers, PriceGas(c) PROVE TxInv'
  BY <1>3 DEF PriceGas
<1>4. ASSUME NEW c \in Callers, FailBeforeSend(c) PROVE TxInv'
  BY <1>4 DEF FailBeforeSend, Return
<1>5. ASSUME NEW c \in Callers, Submit(c) PROVE TxInv'
  BY <1>5 DEF Submit, AddToPool
<1>6. ASSUME NEW c \in Callers, Rejected(c) PROVE TxInv'
  BY <1>6 DEF Rejected, Return
<1>7. ASSUME NEW c \in Callers, SendLost(c) PROVE TxInv'
  BY <1>7 DEF SendLost, AddToPool, Return
<1>8. ASSUME NEW c \in Callers, Confirm(c) PROVE TxInv'
  BY <1>8 DEF Confirm, Return, Mined
<1>9. ASSUME NEW c \in Callers, Expire(c) PROVE TxInv'
  BY <1>9 DEF Expire, Return
<1>10. ASSUME NEW c \in Callers, TakeResult(c) PROVE TxInv'
  BY <1>10 DEF TakeResult
<1>11. ASSUME NEW t \in pool, Mine(t) PROVE TxInv'
  BY <1>11 DEF Mine
<1>12. ASSUME NEW t \in pool, Drop(t) PROVE TxInv'
  BY <1>12 DEF Drop
<1>13. CASE UNCHANGED txVars
  BY <1>13 DEF txVars
<1> QED
  BY <1>1, <1>2, <1>3, <1>4, <1>5, <1>6, <1>7, <1>8, <1>9, <1>10, <1>11,
     <1>12, <1>13 DEF TxNext, Advance, NodeStep

(* Types, and: a success was mined. *)
THEOREM TxInvariance == TxSpec => []TxInv
<1>1. TxInit => TxInv
  BY TxInitInv DEF NodeKeepsInv
<1> QED
  BY <1>1, TxNextInv, PTL DEF TxSpec

(* Every value of every variable stays in its type. *)
THEOREM TxTypeCorrect == TxSpec => []TxTypeOK
BY TxInvariance, PTL DEF TxInv

-----------------------------------------------------------------------------
(* A pool that only gains transactions or has them outbid, and an account    *)
(* nonce that only grows, leave a spent nonce spent.                         *)
LEMMA SpentStays ==
  ASSUME TxInv, [TxNext]_txVars, "drop" \notin Faults,
         NEW t \in Txs, Spent(t)
  PROVE  Spent(t)'
<1> USE DEF TxInv, TxTypeOK, nodeVars, Spent
<1>1. ASSUME NEW u \in Txs, Accepts(u), AddToPool(u), next' = next
      PROVE  Spent(t)'
  <2>1. CASE t.nonce < next
    BY <1>1, <2>1
  <2>2. CASE \E v \in pool : v.nonce = t.nonce /\ v.price >= t.price
    <3>1. PICK v \in pool : v.nonce = t.nonce /\ v.price >= t.price
      BY <2>2
    <3>2. CASE v.nonce = u.nonce
      <4>1. t.price \in Nat /\ u.price \in Nat /\ v.price \in Nat
        BY TxNumbers
      <4>2. u.nonce = t.nonce /\ u.price >= t.price
        BY <1>1, <3>1, <3>2, <4>1 DEF Accepts
      <4> QED
        BY <1>1, <4>2 DEF AddToPool
    <3>3. CASE v.nonce # u.nonce
      BY <1>1, <3>1, <3>3 DEF AddToPool
    <3> QED
      BY <3>2, <3>3
  <2> QED
    BY <2>1, <2>2
<1>2. ASSUME UNCHANGED <<pool, next>> PROVE Spent(t)'
  BY <1>2
<1>3. ASSUME NEW u \in pool, Mine(u) PROVE Spent(t)'
  BY <1>3 DEF Mine, Txs, Nonces
<1>4. ASSUME NEW c \in Callers, Submit(c) \/ SendLost(c) PROVE Spent(t)'
  <2>1. tx[c] \in Txs
    BY <1>4 DEF Submit, SendLost, Assembled
  <2> QED
    BY <1>1, <1>2, <1>4, <2>1 DEF Submit, SendLost
<1> QED
  BY <1>2, <1>3, <1>4
     DEF TxNext, Advance, NodeStep, SendTx, ReadNonce, PriceGas,
         FailBeforeSend, Rejected, Confirm, Expire, Drop, TakeResult, txVars

(* When the node drops nothing, every step preserves NodeKeepsInv. *)
LEMMA NodeKeepsStep ==
  NodeKeepsInv /\ "drop" \notin Faults /\ [TxNext]_txVars => NodeKeepsInv'
<1> SUFFICES ASSUME NodeKeepsInv, "drop" \notin Faults, [TxNext]_txVars
             PROVE  NodeKeepsInv'
  OBVIOUS
<1>1. TxInv /\ TxInv'
  BY TxNextInv DEF NodeKeepsInv
<1>2. \A t \in Txs : Spent(t) => Spent(t)'
  BY <1>1, SpentStays
<1> USE <1>1, <1>2 DEF TxInv, TxTypeOK, Assembled, nodeVars, claims
<1> DEFINE Outbid(t) == \E u \in pool \cup Mined :
                          u = t \/ (u.nonce = t.nonce /\ u.price > t.price)
<1>3. ASSUME NEW t \in Txs, Outbid(t) PROVE Outbid(t)'
  <2>1. PICK u \in pool \cup Mined :
               u = t \/ (u.nonce = t.nonce /\ u.price > t.price)
    BY <1>3
  <2>2. u \in (pool \cup Mined)' => Outbid(t)'
    BY <2>1
  <2>3. ASSUME NEW v \in Txs, Accepts(v), AddToPool(v), UNCHANGED <<succeeded, reverted>>
        PROVE  Outbid(t)'
    <3>1. CASE u \in Mined \/ u.nonce # v.nonce
      BY <2>2, <2>3, <3>1 DEF AddToPool, Mined
    <3>2. CASE u \in pool /\ u.nonce = v.nonce
      <4>1. v \in pool' /\ v.nonce = t.nonce /\ v.price > u.price
        BY <2>1, <2>3, <3>2, TxNumbers DEF AddToPool, Accepts
      <4>2. v.price > t.price
        BY <2>1, <4>1, <3>2, TxNumbers
      <4> QED
        BY <4>1, <4>2
    <3> QED
      BY <2>1, <3>1, <3>2
  <2>4. ASSUME NEW c \in Callers, Submit(c) \/ SendLost(c) PROVE Outbid(t)'
    <3>1. tx[c] \in Txs
      BY <2>4 DEF Submit, SendLost
    <3> QED
      BY <2>1, <2>2, <2>3, <2>4, <3>1 DEF Submit, SendLost, Mined
  <2>5. ASSUME NEW w \in pool, Mine(w) PROVE Outbid(t)'
    BY <2>1, <2>2, <2>5 DEF Mine, Mined
  <2> QED
    BY <2>1, <2>2, <2>4, <2>5
       DEF TxNext, Advance, NodeStep, SendTx, ReadNonce, PriceGas,
           FailBeforeSend, Rejected, Confirm, Expire, Drop, TakeResult, txVars, Mined
<1>4. ASSUME NEW c \in Callers, Submit(c) PROVE NodeKeepsInv'
  <2>1. ~Spent(tx[c])
    <3>1. tx[c] \in Txs
      BY <1>4 DEF Submit
    <3> QED
      BY <1>4, <3>1, TxNumbers DEF Submit, Accepts, Spent
  <2>2. Spent(tx[c])' /\ Outbid(tx[c])'
    <3>1. tx[c] \in Txs /\ tx' = tx /\ tx[c] \in pool'
      BY <1>4 DEF Submit, AddToPool
    <3>2. tx[c].price \in Nat
      BY <3>1, TxNumbers
    <3> QED
      BY <3>1, <3>2 DEF Spent, Mined
  <2>3. SpentInv'
    BY <1>4, <2>1, <2>2 DEF Submit, SpentInv, NodeKeepsInv
  <2>4. WaitsUnlessOutbid'
    BY <1>3, <1>4, <2>2 DEF Submit, WaitsUnlessOutbid, NodeKeepsInv
  <2> QED
    BY <1>4, <2>3, <2>4 DEF Submit, OneSuccessEach, NodeKeepsInv
<1>5. ASSUME NEW c \in Callers, Confirm(c) PROVE NodeKeepsInv'
  <2>1. SpentInv' /\ OneSuccessEach'
    BY <1>5 DEF Confirm, Return, SpentInv, OneSuccessEach, NodeKeepsInv
  <2>2. WaitsUnlessOutbid'
    BY <1>3, <1>5 DEF Confirm, Return, WaitsUnlessOutbid, NodeKeepsInv
  <2> QED
    BY <2>1, <2>2 DEF NodeKeepsInv
<1>6. ASSUME UNCHANGED claims,
             \A c \in Callers : at'[c] = "wait" => at[c] = "wait" /\ tx'[c] = tx[c]
      PROVE  NodeKeepsInv'
  <2>1. SpentInv' /\ OneSuccessEach'
    BY <1>6 DEF SpentInv, OneSuccessEach, NodeKeepsInv
  <2>2. WaitsUnlessOutbid'
    BY <1>3, <1>6 DEF WaitsUnlessOutbid, NodeKeepsInv
  <2> QED
    BY <2>1, <2>2 DEF NodeKeepsInv
<1>7. ASSUME NEW c \in Callers,
             \/ \E k \in Calls : SendTx(c, k)
             \/ ReadNonce(c) \/ PriceGas(c) \/ FailBeforeSend(c) \/ Rejected(c)
             \/ SendLost(c) \/ Expire(c) \/ TakeResult(c)
      PROVE  NodeKeepsInv'
  BY <1>6, <1>7 DEF SendTx, ReadNonce, PriceGas, FailBeforeSend, Rejected,
                    SendLost, Expire, TakeResult, Return
<1>8. ASSUME NodeStep PROVE NodeKeepsInv'
  BY <1>6, <1>8 DEF NodeStep, Mine, Drop
<1>9. CASE UNCHANGED txVars
  BY <1>6, <1>9 DEF txVars
<1> QED
  BY <1>4, <1>5, <1>7, <1>8, <1>9 DEF TxNext, Advance

(* Two goroutines with one key are never told of the same mined transaction, *)
(* when the node drops no pending one.                                       *)
THEOREM SuccessesAreDistinct == "drop" \notin Faults => (TxSpec => []OneSuccessEach)
<1> SUFFICES ASSUME "drop" \notin Faults PROVE TxSpec => []OneSuccessEach
  OBVIOUS
<1>1. NodeKeepsInv /\ [TxNext]_txVars => NodeKeepsInv'
  BY NodeKeepsStep
<1> QED
  BY <1>1, TxInitInv, PTL DEF TxSpec, NodeKeepsInv

(* A call that waits for a receipt gets one, or was outbid at its nonce.     *)
THEOREM WaitingIsJustified == "drop" \notin Faults => (TxSpec => []WaitsUnlessOutbid)
<1> SUFFICES ASSUME "drop" \notin Faults PROVE TxSpec => []WaitsUnlessOutbid
  OBVIOUS
<1>1. NodeKeepsInv /\ [TxNext]_txVars => NodeKeepsInv'
  BY NodeKeepsStep
<1> QED
  BY <1>1, TxInitInv, PTL DEF TxSpec, NodeKeepsInv
=============================================================================
