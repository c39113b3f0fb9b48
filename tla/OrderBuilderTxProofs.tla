------------------------ MODULE OrderBuilderTxProofs ------------------------
(***************************************************************************)
(* Proofs about OrderBuilderTx, for any number of goroutines, whatever is   *)
(* approved at the start and whatever the node and the RPC do.              *)
(*                                                                          *)
(* The operations only touch the chain through sendTx, so the module        *)
(* implements Transactions and inherits its invariant.  BuilderInv adds     *)
(* what a SetApprovals under way knows: as long as every result was Ok, the *)
(* approvals before its position are held.                                  *)
(***************************************************************************)
EXTENDS OrderBuilderTx, TransactionsProofs

(* The transaction of an operation is the one the operation asked for. *)
OwnCall ==
  \A c \in Callers :
    /\ job[c] = "none" => at[c] = "idle"
    /\ job[c] # "SetApprovals" => op[c] = 1
    /\ job[c] = "SetApprovals" /\ at[c] # "idle" => tx[c].call = ops[op[c]]
    /\ job[c] = "CancelOrders" =>
         /\ at[c] # "idle" => tx[c].call = CancelCall(cancel[c].flags)
         /\ cancel[c].withValidation => cancel[c].flags = cancel[c].orders

(* SetApprovals began in the past, and its transactions come after. *)
BegunBefore ==
  \A c \in Callers :
    /\ begun[c] <= next
    /\ job[c] = "SetApprovals" /\ (at[c] \in {"gas", "send", "wait"}
                                   \/ result[c] = "success")
         => begun[c] <= tx[c].nonce

GrantedUpTo(n, since) == \A i \in 1..10 : i < n => Granted(ops[i], since)

ApprovalsGranted ==
  \A c \in Callers :
    /\ success[c] => GrantedUpTo(op[c], begun[c])
    /\ answer[c] = "approved" => GrantedUpTo(11, begun[c])

BuilderInv ==
  /\ TypeOK
  /\ TxInv
  /\ OwnCall
  /\ BegunBefore
  /\ ApprovalsGranted

USE BuilderAssumption

-----------------------------------------------------------------------------
(* Every approval, cancellation and position operation is a contract call.   *)
LEMMA CallsAreCalls ==
  /\ \A i \in 1..10 : ops[i] \in Calls
  /\ \A a \in Changes : a \in Calls /\ Withdrawal(a) \in Calls
  /\ \A m \in Market : CancelCall(m) \in Calls
  /\ \A m \in Market, f \in PositionMethods : PositionCall(m, f) \in Calls
<1>1. BuilderCalls \subseteq Calls
  BY DEF BuilderAssumption
<1>2. \A i \in 1..10 : ops[i] \in Approvals
  BY DEF Approvals
<1> QED
  BY <1>1, <1>2 DEF BuilderCalls, BuilderAssumption

(* What the builder does to the chain is a step of sendTx, of the node, or   *)
(* the taking of a result.                                                   *)
LEMMA StepIsTxStep == TypeOK /\ [Next]_vars => [TxNext]_txVars
<1> SUFFICES ASSUME TypeOK, [Next]_vars PROVE [TxNext]_txVars
  OBVIOUS
<1>1. ASSUME NEW c \in Callers, SendApproval(c) PROVE TxNext
  <2>1. ops[op[c]] \in Calls
    BY CallsAreCalls DEF TypeOK
  <2> QED
    BY <1>1, <2>1 DEF SendApproval, TxNext
<1>2. ASSUME NEW c \in Callers,
             NEW x \in Cancellations,
             CancelOrders(c, x)
      PROVE  TxNext
  <2>1. CancelCall(x.flags) \in Calls
    BY CallsAreCalls DEF BuilderAssumption, Cancels
  <2> QED
    BY <1>2, <2>1 DEF CancelOrders, TxNext
<1>3. ASSUME NEW c \in Callers, NEW m \in Markets, NEW f \in Positions,
             ChangePosition(c, m, f)
      PROVE  TxNext
  <2>1. PositionCall(m, f) \in Calls
    BY CallsAreCalls DEF BuilderAssumption
  <2> QED
    BY <1>3, <2>1 DEF ChangePosition, TxNext
<1>4. ASSUME NEW c \in Callers, TakeApproval(c) \/ TakeSingle(c) \/ InSendTx(c)
      PROVE  TxNext
  BY <1>4 DEF TakeApproval, TakeSingle, InSendTx, TxNext
<1>5. ASSUME NEW c \in Callers,
             \/ SetApprovals(c) \/ SkipApproval(c) \/ AbortApprovals(c)
             \/ \E x \in Cancellations : RefuseCancel(c, x)
      PROVE  UNCHANGED txVars
  BY <1>5 DEF SetApprovals, SkipApproval, AbortApprovals, RefuseCancel
<1>6. CASE NodeStep
  BY <1>6 DEF TxNext
<1>7. ASSUME NEW c \in Callers, NEW a \in Changes,
             GrantApproval(c, a) \/ WithdrawApproval(c, a)
      PROVE  TxNext
  <2>1. a \in Calls /\ Withdrawal(a) \in Calls
    BY CallsAreCalls
  <2> QED
    BY <1>7, <2>1 DEF GrantApproval, WithdrawApproval, TxNext
<1>8. CASE UNCHANGED vars
  BY <1>8 DEF vars
<1> QED
  BY <1>1, <1>2, <1>3, <1>4, <1>5, <1>6, <1>7, <1>8 DEF Next, CallerStep

(* A step of sendTx or of the node adds at most the transaction it mines,    *)
(* which has the nonce of the account, to those that succeeded.             *)
LEMMA Succeeding ==
  ASSUME TxInv, [TxNext]_txVars
  PROVE  /\ succeeded \subseteq succeeded'
         /\ \A t \in succeeded' \ succeeded : t.nonce = next
         /\ next \in Nat /\ next' \in Nat /\ next <= next'
<1>1. next \in Nat
  BY DEF TxInv, TxTypeOK
<1>2. ASSUME NEW t \in pool, Mine(t)
      PROVE  /\ succeeded \subseteq succeeded' /\ succeeded' \subseteq succeeded \cup {t}
             /\ t.nonce = next /\ next' = next + 1
  BY <1>2 DEF Mine
<1>3. CASE \E t \in pool : Mine(t)
  BY <1>1, <1>2, <1>3
<1>4. CASE ~\E t \in pool : Mine(t)
  <2>1. succeeded' = succeeded /\ next' = next
    BY <1>4 DEF TxNext, Advance, NodeStep, SendTx, ReadNonce, PriceGas,
                FailBeforeSend, Submit, Rejected, SendLost, Confirm, Expire,
                TakeResult, Drop, Return, nodeVars, txVars
  <2> QED
    BY <1>1, <2>1
<1> QED
  BY <1>3, <1>4

(* What is granted stays so, or is taken back later. *)
LEMMA GrantedStays ==
  ASSUME TxInv, [TxNext]_txVars, preset' = preset,
         NEW a, NEW n \in Nat, n <= next, Granted(a, n)
  PROVE  Granted(a, n)'
<1>1. /\ succeeded \subseteq succeeded'
      /\ \A t \in succeeded' \ succeeded : t.nonce = next
      /\ next \in Nat
  BY Succeeding
<1>2. CASE Withdrawn(a, n)
  BY <1>1, <1>2 DEF Withdrawn, Granted
<1>3. CASE \E t \in succeeded' \ succeeded : t.call = Withdrawal(a)
  BY <1>1, <1>3 DEF Withdrawn, Granted
<1>4. CASE /\ ~Withdrawn(a, n)
           /\ ~\E t \in succeeded' \ succeeded : t.call = Withdrawal(a)
  <2>1. a \in Held
    BY <1>4 DEF Granted
  <2>2. \A k : Withdrawn(a, k)' => Withdrawn(a, k)
    BY <1>4 DEF Withdrawn
  <2>3. a \in Held'
    BY <1>1, <2>1, <2>2 DEF Held
  <2> QED
    BY <2>3 DEF Granted
<1> QED
  BY <1>2, <1>3, <1>4

(* An approval whose transaction succeeded is granted since its nonce, or    *)
(* since an earlier one.                                                    *)
LEMMA SucceededIsGranted ==
  ASSUME TxInv, NEW t \in succeeded, t.call \in Approvals, NEW n \in Nat,
         n <= t.nonce
  PROVE  Granted(t.call, n)
<1>1. \A u \in succeeded : u.nonce \in Nat
  BY TxNumbers DEF TxInv, TxTypeOK
<1>2. CASE Withdrawn(t.call, t.nonce)
  BY <1>1, <1>2 DEF Granted, Withdrawn
<1>3. CASE ~Withdrawn(t.call, t.nonce)
  BY <1>3 DEF Granted, Held
<1> QED
  BY <1>2, <1>3

(* Every step of a caller or of the node preserves BuilderInv.               *)
LEMMA BuilderStep == BuilderInv /\ [Next]_vars => BuilderInv'
<1> SUFFICES ASSUME BuilderInv, [Next]_vars PROVE BuilderInv'
  OBVIOUS
<1>1. [TxNext]_txVars /\ TxInv /\ TxInv' /\ preset' = preset
  BY StepIsTxStep, TxNextInv
     DEF BuilderInv, Next, CallerStep, SetApprovals, SkipApproval, SendApproval,
         AbortApprovals, TakeApproval, CancelOrders, RefuseCancel,
         ChangePosition, GrantApproval, WithdrawApproval, TakeSingle, InSendTx,
         vars
<1>2. next \in Nat /\ next' \in Nat /\ next <= next'
  BY <1>1, Succeeding
<1>3. \A d \in Callers : begun[d] \in Nat /\ begun[d] <= next
  BY DEF BuilderInv, TypeOK, BegunBefore
<1>4. \A i \in 1..10, n \in Nat : n <= next /\ Granted(ops[i], n) => Granted(ops[i], n)'
  BY <1>1, GrantedStays
<1>5. ASSUME NEW d \in Callers, op'[d] = op[d], begun'[d] = begun[d],
             success'[d] = success[d], answer'[d] = answer[d]
      PROVE  /\ success'[d] => GrantedUpTo(op[d], begun[d])'
             /\ answer'[d] = "approved" => GrantedUpTo(11, begun[d])'
  <2>1. op[d] \in 1..11 /\ 11 \in 1..11
    BY DEF BuilderInv, TypeOK
  <2>2. ASSUME NEW k \in 1..11, GrantedUpTo(k, begun[d])
        PROVE  \A i \in 1..10 : i < k => Granted(ops[i], begun[d])'
    BY <1>3, <1>4, <1>5, <2>2 DEF GrantedUpTo
  <2>3. ASSUME success[d] PROVE GrantedUpTo(op[d], begun[d])'
    BY <2>1, <2>2, <2>3, <1>5 DEF BuilderInv, ApprovalsGranted, GrantedUpTo
  <2>4. ASSUME answer[d] = "approved" PROVE GrantedUpTo(11, begun[d])'
    BY <2>1, <2>2, <2>4, <1>5 DEF BuilderInv, ApprovalsGranted, GrantedUpTo
  <2> QED
    BY <1>5, <2>3, <2>4
<1> USE <1>1, <1>2 DEF BuilderInv, TypeOK, TxInv, Assembled, TxTypeOK, OwnCall,
                       BegunBefore, jobVars, nodeVars, claims
(* A step that starts an operation of c, or ends one and starts none. *)
<1>6. ASSUME NEW c \in Callers,
             \A d \in Callers \ {c} : /\ op'[d] = op[d] /\ begun'[d] = begun[d]
                                       /\ success'[d] = success[d]
                                       /\ answer'[d] = answer[d],
             op'[c] = 1, answer'[c] # "approved"
      PROVE  ApprovalsGranted'
  <2>1. GrantedUpTo(op[c], begun[c])'
    BY <1>6 DEF GrantedUpTo
  <2> QED
    BY <1>5, <1>6, <2>1 DEF ApprovalsGranted
<1>7. ASSUME NEW c \in Callers, SetApprovals(c) PROVE BuilderInv'
  <2>1. ApprovalsGranted'
    BY <1>6, <1>7 DEF SetApprovals, Begin
  <2>2. TypeOK'
    BY <1>7 DEF SetApprovals, Begin, Jobs, Answers, NoCancel, Cancels, Market, txVars
  <2>3. OwnCall' /\ BegunBefore'
    BY <1>7 DEF SetApprovals, Begin, txVars, NoCancel
  <2> QED
    BY <2>1, <2>2, <2>3
<1>8. ASSUME NEW c \in Callers, NEW ok \in BOOLEAN, NextOp(c, ok),
             job[c] = "SetApprovals", at'[c] = "idle", result'[c] # "success",
             \A d \in Callers \ {c} :
               at'[d] = at[d] /\ tx'[d] = tx[d] /\ result'[d] = result[d],
             ok => Granted(ops[op[c]], begun[c])
      PROVE  BuilderInv'
  <2>0. op[c] \in 1..10 /\ begun[c] \in Nat /\ begun[c] <= next
    BY <1>3
  <2>3. \A i \in 1..10, n \in Nat :
          ok /\ i = op[c] /\ n = begun[c] => Granted(ops[i], n)'
    BY <1>4, <1>8, <2>0
  <2>4. \A i \in 1..10, n \in Nat :
          success[c] /\ i < op[c] /\ n = begun[c] => Granted(ops[i], n)'
    BY <1>4, <2>0 DEF ApprovalsGranted, GrantedUpTo
  <2>1. CASE op[c] < 10
    <3>1. ASSUME success'[c] PROVE GrantedUpTo(op[c], begun[c])'
      <4>1. success[c] /\ ok
        BY <1>8, <2>1, <3>1 DEF NextOp
      <4>2. op'[c] = op[c] + 1 /\ begun'[c] = begun[c]
        BY <1>8, <2>1 DEF NextOp
      <4>3. ASSUME NEW i \in 1..10, i < op'[c] PROVE Granted(ops[i], begun[c])'
        <5>1. i = op[c] \/ i < op[c]
          BY <2>0, <4>2, <4>3
        <5> QED
          BY <2>0, <2>3, <2>4, <4>1, <4>2, <5>1
      <4> QED
        BY <4>3 DEF GrantedUpTo
    <3>2. answer'[c] = answer[c]
      BY <1>8, <2>1 DEF NextOp
    <3>3. answer[c] = "approved" => GrantedUpTo(11, begun[c])'
      <4>1. begun'[c] = begun[c] /\ 11 \in 1..11
        BY <1>8, <2>1 DEF NextOp
      <4>2. ASSUME answer[c] = "approved"
            PROVE  \A i \in 1..10 : i < 11 => Granted(ops[i], begun[c])'
        BY <1>4, <2>0, <4>1, <4>2 DEF ApprovalsGranted, GrantedUpTo
      <4> QED
        BY <4>1, <4>2 DEF GrantedUpTo
    <3>4. ApprovalsGranted'
      BY <1>5, <1>8, <2>1, <3>1, <3>2, <3>3 DEF NextOp, ApprovalsGranted
    <3>5. TypeOK' /\ OwnCall' /\ BegunBefore'
      BY <1>8, <2>1 DEF NextOp
    <3> QED
      BY <3>4, <3>5
  <2>2. CASE ~(op[c] < 10)
    <3>1. op[c] = 10
      BY <2>2
    <3>2. ASSUME success[c], ok
          PROVE  \A i \in 1..10, n \in Nat : n = begun[c] => Granted(ops[i], n)'
      <4>1. \A i \in 1..10 : i = op[c] \/ i < op[c]
        BY <3>1
      <4> QED
        BY <2>3, <2>4, <3>2, <4>1
    <3>3. TypeOK'
      <4>1. NoCancel \in Cancels
        BY DEF NoCancel, Cancels, Market
      <4>2. /\ job' \in [Callers -> Jobs] /\ op' \in [Callers -> 1..10]
            /\ begun' \in [Callers -> Nat]
        BY <1>8, <2>2 DEF NextOp, End, Jobs
      <4>3. success' \in [Callers -> BOOLEAN]
        <5>1. success' = [success EXCEPT ![c] = TRUE]
          BY <1>8, <2>2 DEF NextOp, End
        <5>2. success \in [Callers -> BOOLEAN]
          OBVIOUS
        <5> QED
          BY ONLY <5>1, <5>2, Zenon
      <4>4. cancel' \in [Callers -> Cancels]
        BY <1>8, <2>2, <4>1 DEF NextOp, End
      <4>5. answer' \in [Callers -> Answers]
        BY <1>8, <2>2 DEF NextOp, End, Answers
      <4> QED
        BY <4>2, <4>3, <4>4, <4>5
    <3>4. OwnCall' /\ BegunBefore'
      BY <1>8, <2>2 DEF NextOp, End, NoCancel
    <3>5. answer'[c] = "approved" => success[c] /\ ok /\ begun'[c] = begun[c]
      BY <1>8, <2>2 DEF NextOp, End
    <3>6. answer'[c] = "approved" => GrantedUpTo(11, begun[c])'
      BY <2>0, <3>2, <3>5 DEF GrantedUpTo
    <3>7. op'[c] = 1
      BY <1>8, <2>2 DEF NextOp, End
    <3>8. GrantedUpTo(op[c], begun[c])'
      BY <3>7 DEF GrantedUpTo
    <3>9. ApprovalsGranted'
      BY <1>5, <1>8, <2>2, <3>6, <3>8 DEF NextOp, End, ApprovalsGranted
    <3> QED
      BY <3>3, <3>4, <3>9
  <2> QED
    BY <2>1, <2>2
<1>9. ASSUME NEW c \in Callers, SkipApproval(c) PROVE BuilderInv'
  <2>1. Granted(ops[op[c]], begun[c])
    BY <1>9 DEF SkipApproval, Granted
  <2> QED
    BY <1>8, <1>9, <2>1 DEF SkipApproval, txVars
<1>10. ASSUME NEW c \in Callers, TakeApproval(c) PROVE BuilderInv'
  <2>1. ASSUME result[c] = "success" PROVE Granted(ops[op[c]], begun[c])
    <3>1. /\ tx[c] \in succeeded /\ tx[c].call = ops[op[c]]
          /\ begun[c] <= tx[c].nonce /\ begun[c] \in Nat
      BY <1>10, <2>1 DEF TakeApproval
    <3>2. ops[op[c]] \in Approvals
      BY DEF Approvals
    <3> QED
      BY <3>1, <3>2, SucceededIsGranted
  <2> QED
    BY <1>8, <1>10, <2>1 DEF TakeApproval, TakeResult
<1>11. ASSUME NEW c \in Callers, SendApproval(c) PROVE BuilderInv'
  <2>1. ApprovalsGranted'
    BY <1>5, <1>11 DEF SendApproval, ApprovalsGranted
  <2> QED
    BY <1>11, <2>1 DEF SendApproval, SendTx
<1>12. ASSUME NEW c \in Callers, AbortApprovals(c) PROVE BuilderInv'
  <2>1. ApprovalsGranted'
    BY <1>6, <1>12 DEF AbortApprovals, End
  <2> QED
    BY <1>12, <2>1 DEF AbortApprovals, End, Jobs, Answers, NoCancel, Cancels,
                       Market, txVars
<1>13. ASSUME NEW c \in Callers, NEW x \in Cancellations, CancelOrders(c, x)
       PROVE  BuilderInv'
  <2>1. ApprovalsGranted'
    BY <1>6, <1>13 DEF CancelOrders, Begin
  <2> QED
    BY <1>13, <2>1, BuilderAssumption
       DEF CancelOrders, Begin, SendTx, ValidateTokenIDs, Registered, Jobs,
           Answers, Cancels, BuilderAssumption
<1>14. ASSUME NEW c \in Callers, NEW x \in Cancellations, RefuseCancel(c, x)
       PROVE  BuilderInv'
  <2>1. ApprovalsGranted'
    BY <1>6, <1>14 DEF RefuseCancel
  <2> QED
    BY <1>14, <2>1, BuilderAssumption
       DEF RefuseCancel, Answers, Cancels, BuilderAssumption, txVars
<1>15. ASSUME NEW c \in Callers, NEW k, Begin(c, "single", NoCancel), SendTx(c, k),
              UNCHANGED preset
       PROVE  BuilderInv'
  <2>1. ApprovalsGranted'
    BY <1>6, <1>15 DEF Begin
  <2>2. TypeOK'
    BY <1>15 DEF Begin, Jobs, Answers, NoCancel, Cancels, Market
  <2>3. OwnCall' /\ BegunBefore'
    BY <1>15 DEF Begin, SendTx, NoCancel
  <2> QED
    BY <2>1, <2>2, <2>3
<1>16. ASSUME NEW c \in Callers, TakeSingle(c) PROVE BuilderInv'
  <2>1. ApprovalsGranted'
    BY <1>6, <1>16 DEF TakeSingle, End
  <2> QED
    BY <1>16, <2>1 DEF TakeSingle, TakeResult, End, Jobs, Answers, NoCancel,
                       Cancels, Market
<1>17. ASSUME UNCHANGED jobVars,
              \A c \in Callers : /\ at'[c] = "idle" <=> at[c] = "idle"
                                 /\ at[c] # "idle" => tx'[c].call = tx[c].call,
              BegunBefore'
       PROVE  BuilderInv'
  <2>1. ApprovalsGranted'
    BY <1>5, <1>17 DEF ApprovalsGranted
  <2> QED
    BY <1>17, <2>1
<1>18. ASSUME NEW c \in Callers, InSendTx(c) PROVE BuilderInv'
  <2>1. CASE ReadNonce(c)
    <3>1. BegunBefore'
      BY <1>3, <1>18, <2>1 DEF InSendTx, ReadNonce, IsPendingNonce, Nonces, Txs
    <3> QED
      BY <1>17, <1>18, <2>1, <3>1 DEF InSendTx, ReadNonce, Txs
  <2>2. CASE PriceGas(c) \/ Submit(c)
    <3>1. BegunBefore'
      BY <1>18, <2>2 DEF InSendTx, PriceGas, Submit, Txs
    <3> QED
      BY <1>17, <1>18, <2>2, <3>1 DEF InSendTx, PriceGas, Submit, Txs
  <2>3. CASE FailBeforeSend(c) \/ Rejected(c) \/ SendLost(c) \/ Expire(c)
    <3>1. BegunBefore'
      BY <1>18, <2>3 DEF InSendTx, FailBeforeSend, Rejected, SendLost, Expire, Return
    <3> QED
      BY <1>17, <1>18, <2>3, <3>1
         DEF InSendTx, FailBeforeSend, Rejected, SendLost, Expire, Return
  <2>4. CASE Confirm(c)
    <3>1. BegunBefore'
      BY <1>18, <2>4 DEF InSendTx, Confirm, Return
    <3> QED
      BY <1>17, <1>18, <2>4, <3>1 DEF InSendTx, Confirm, Return
  <2> QED
    BY <1>18, <2>1, <2>2, <2>3, <2>4 DEF InSendTx, Advance
<1>19. ASSUME NodeStep, UNCHANGED jobVars PROVE BuilderInv'
  <2>1. UNCHANGED <<at, tx, result>>
    BY <1>19 DEF NodeStep, Mine, Drop
  <2>2. BegunBefore'
    BY <1>3, <1>19, <2>1
  <2> QED
    BY <1>17, <1>19, <2>1, <2>2
<1>20. CASE UNCHANGED vars
  <2>1. BegunBefore'
    BY <1>20 DEF vars, txVars
  <2> QED
    BY <1>17, <1>20, <2>1 DEF vars, txVars
<1> QED
  BY <1>7, <1>9, <1>10, <1>11, <1>12, <1>13, <1>14, <1>15, <1>16, <1>18, <1>19,
     <1>20 DEF Next, CallerStep, ChangePosition, GrantApproval, WithdrawApproval

(* BuilderInv holds in every reachable state. *)
THEOREM BuilderInvariance == Spec => []BuilderInv
<1>1. Init => BuilderInv
  <2> SUFFICES ASSUME Init PROVE BuilderInv
    OBVIOUS
  <2>1. TxInv
    BY TxInitInv DEF Init, NodeKeepsInv
  <2>2. TypeOK
    BY <2>1, BuilderAssumption
       DEF Init, TypeOK, TxInv, Jobs, Answers, NoCancel, Cancels, Market,
           BuilderAssumption
  <2>3. OwnCall /\ BegunBefore /\ ApprovalsGranted
    BY DEF Init, TxInit, OwnCall, BegunBefore, ApprovalsGranted, GrantedUpTo, NoCancel
  <2> QED
    BY <2>1, <2>2, <2>3 DEF BuilderInv
<1> QED
  BY <1>1, BuilderStep, PTL DEF Spec

(* Every value of every variable stays in its type. *)
THEOREM BuilderTypeCorrect == Spec => []TypeOK
BY BuilderInvariance, PTL DEF BuilderInv

(* All the builder does to the chain, it does as sendTx allows. *)
THEOREM BuilderUsesSendTx == Spec => TxSpec
<1>1. Init => TxInit
  BY DEF Init
<1>2. BuilderInv /\ [Next]_vars => [TxNext]_txVars
  BY StepIsTxStep DEF BuilderInv
<1> QED
  BY <1>1, <1>2, BuilderInvariance, PTL DEF Spec, TxSpec

(* The ten approvals of SetApprovals are all that trading takes.             *)
LEMMA OpsAreEnough ==
  ASSUME NEW since, GrantedUpTo(11, since), NEW m \in Market
  PROVE  Tradeable(m, since)
<1> DEFINE Has(a) == Granted(a, since)
<1>1. \A i \in 1..10 : Has(ops[i])
  BY DEF GrantedUpTo
<1>2. ASSUME NEW n \in BOOLEAN, NEW y \in BOOLEAN
      PROVE  /\ Has(SetCTFExchangeApproval(n, y))
             /\ Has(SetCTFExchangeAllowance(n, y))
             /\ Has(SetNegRiskAdapterApproval(y))
  <2>1. /\ Has(ops[1]) /\ Has(ops[2]) /\ Has(ops[3]) /\ Has(ops[4])
        /\ Has(ops[5]) /\ Has(ops[6]) /\ Has(ops[7]) /\ Has(ops[8])
        /\ Has(ops[9]) /\ Has(ops[10])
    BY <1>1
  <2>2. /\ ops[1] = SetCTFExchangeApproval(FALSE, FALSE)
        /\ ops[2] = SetCTFExchangeApproval(TRUE, FALSE)
        /\ ops[3] = SetNegRiskAdapterApproval(FALSE)
        /\ ops[4] = SetCTFExchangeAllowance(FALSE, FALSE)
        /\ ops[5] = SetCTFExchangeAllowance(TRUE, FALSE)
        /\ ops[6] = SetCTFExchangeApproval(FALSE, TRUE)
        /\ ops[7] = SetCTFExchangeApproval(TRUE, TRUE)
        /\ ops[8] = SetNegRiskAdapterApproval(TRUE)
        /\ ops[9] = SetCTFExchangeAllowance(FALSE, TRUE)
        /\ ops[10] = SetCTFExchangeAllowance(TRUE, TRUE)
    BY DEF ops
  <2> QED
    BY <2>1, <2>2
<1>3. m.neg \in BOOLEAN /\ m.yield \in BOOLEAN
      /\ m = [neg |-> m.neg, yield |-> m.yield]
  BY DEF Market
<1>4. exchangeAddress(m) = exchangeContract(m)
  BY DEF exchangeAddress, exchangeContract
<1>5. ASSUME NEW d \in Addresses, d.neg = m.neg, d.yield = m.yield
      PROVE  /\ d.tokens = ctfContract(m)
             /\ \A operator \in d.adapters :
                  /\ operator = negRiskAdapter(m.yield)
                  /\ ctfContract([neg |-> TRUE, yield |-> m.yield]) = ctfContract(m)
  BY <1>3, <1>5 DEF Addresses, ctfContract, negRiskAdapter
<1>6. ASSUME NEW d \in Addresses, d.neg = m.neg, d.yield = m.yield
      PROVE  /\ Has(Call("usdt", "approve", exchangeAddress(m)))
             /\ \A operator \in {exchangeAddress(m)} \cup d.adapters :
                  Has(Call(d.tokens, "setApprovalForAll", operator))
  <2>1. /\ Has(Call("usdt", "approve", exchangeAddress(m)))
        /\ Has(Call(ctfContract(m), "setApprovalForAll", exchangeAddress(m)))
    BY <1>2, <1>3, <1>4 DEF SetCTFExchangeApproval, SetCTFExchangeAllowance
  <2>2. Has(Call(ctfContract([neg |-> TRUE, yield |-> m.yield]),
                 "setApprovalForAll", negRiskAdapter(m.yield)))
    BY <1>2, <1>3 DEF SetNegRiskAdapterApproval
  <2> QED
    BY <1>5, <1>6, <2>1, <2>2
<1> QED
  BY <1>6 DEF Tradeable

(* A successful SetApprovals makes every kind of market tradeable. *)
THEOREM ApprovedMeansTradeable == Spec => []ApprovedIsTradeable
<1>1. BuilderInv => ApprovedIsTradeable
  BY OpsAreEnough DEF BuilderInv, ApprovalsGranted, ApprovedIsTradeable
<1> QED
  BY <1>1, BuilderInvariance, PTL

(* A successful CancelOrders with validation cancels on the right exchange.  *)
THEOREM CancelsOnSigningExchange == Spec => []CancelsWhereSigned
<1>1. BuilderInv => CancelsWhereSigned
  BY DEF BuilderInv, TxInv, Assembled, OwnCall, CancelsWhereSigned, CancelCall,
         exchangeAddress, exchangeContract
<1> QED
  BY <1>1, BuilderInvariance, PTL
=============================================================================
