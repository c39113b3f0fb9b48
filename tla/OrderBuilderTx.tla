--------------------------- MODULE OrderBuilderTx ---------------------------
(***************************************************************************)
(* The contract operations of OrderBuilder, on top of sendTx: SetApprovals, *)
(* which walks through ten approvals and sends a transaction for each one   *)
(* it reads as missing; CancelOrders, which checks the orders' tokens       *)
(* against the exchange its flags select; and the redeem, merge and split   *)
(* operations, and a single approval that is given or taken back, which     *)
(* send one call.  Several goroutines run them at once.                     *)
(*                                                                          *)
(* Calls go through the Kernel when a Predict account is set; the owner of  *)
(* the approvals is then the account, and nothing else changes.  Calldata   *)
(* is abstracted to the contract it is for, the method and the operator.    *)
(***************************************************************************)
EXTENDS Transactions, Sequences

CONSTANTS
  Presets,    \* sets of approvals the owner may have given before
  Changes,    \* the approvals that are given or taken back one by one
  Cancellations,  \* the arguments CancelOrders is called with
  Markets,    \* the kinds of market the positions belong to
  Positions   \* the position operations that are called

Market == [neg : BOOLEAN, yield : BOOLEAN]

(* Orders of a market of kind "orders", opts for one of kind "flags". *)
Cancels == [orders : Market, flags : Market, withValidation : BOOLEAN]

(***************************************************************************)
(* Routing: which contract serves a kind of market.                         *)
(***************************************************************************)
exchangeContract(m) ==
  IF m.neg THEN IF m.yield THEN "yieldBearingNegRiskCTFExchange"
                           ELSE "negRiskCTFExchange"
           ELSE IF m.yield THEN "yieldBearingCTFExchange"
                           ELSE "ctfExchange"

ctfContract(m) ==
  IF m.yield THEN IF m.neg THEN "yieldBearingNegRiskConditionalTokens"
                           ELSE "yieldBearingConditionalTokens"
             ELSE IF m.neg THEN "negRiskConditionalTokens"
                           ELSE "conditionalTokens"

negRiskAdapter(yield) ==
  IF yield THEN "yieldBearingNegRiskAdapter" ELSE "negRiskAdapter"

(* The verifying contract BuildTypedData puts into a signed order. *)
exchangeAddress(m) ==
  IF m.neg THEN IF m.yield THEN "yieldBearingNegRiskCTFExchange"
                           ELSE "negRiskCTFExchange"
           ELSE IF m.yield THEN "yieldBearingCTFExchange"
                           ELSE "ctfExchange"

(* The contracts deployed for each kind of market, as Addresses lists them.  *)
Addresses ==
  {[neg |-> FALSE, yield |-> FALSE,
    tokens |-> "conditionalTokens", adapters |-> {}],
   [neg |-> TRUE, yield |-> FALSE,
    tokens |-> "negRiskConditionalTokens", adapters |-> {"negRiskAdapter"}],
   [neg |-> FALSE, yield |-> TRUE,
    tokens |-> "yieldBearingConditionalTokens", adapters |-> {}],
   [neg |-> TRUE, yield |-> TRUE,
    tokens |-> "yieldBearingNegRiskConditionalTokens",
    adapters |-> {"yieldBearingNegRiskAdapter"}]}

(* Redeem, merge and split go to the adapter for NegRisk markets. *)
positionContract(m) == IF m.neg THEN negRiskAdapter(m.yield) ELSE ctfContract(m)

(***************************************************************************)
(* The contract calls.                                                      *)
(***************************************************************************)
Call(to, method, operator) == [to |-> to, method |-> method, operator |-> operator]

SetCTFExchangeApproval(neg, yield) ==
  LET m == [neg |-> neg, yield |-> yield]
  IN  Call(ctfContract(m), "setApprovalForAll", exchangeContract(m))

(* Mutation: the adapter is approved on the CTF of plain markets. *)
ApproveAdapterOnPlainCTF(yield) ==
  Call(ctfContract([neg |-> FALSE, yield |-> yield]), "setApprovalForAll",
       negRiskAdapter(yield))

SetNegRiskAdapterApproval(yield) ==
  Call(ctfContract([neg |-> TRUE, yield |-> yield]), "setApprovalForAll",
       negRiskAdapter(yield))

SetCTFExchangeAllowance(neg, yield) ==
  Call("usdt", "approve", exchangeContract([neg |-> neg, yield |-> yield]))

(* What SetApprovals does, in its order. *)
ops == <<
  SetCTFExchangeApproval(FALSE, FALSE),
  SetCTFExchangeApproval(TRUE, FALSE),
  SetNegRiskAdapterApproval(FALSE),
  SetCTFExchangeAllowance(FALSE, FALSE),
  SetCTFExchangeAllowance(TRUE, FALSE),
  SetCTFExchangeApproval(FALSE, TRUE),
  SetCTFExchangeApproval(TRUE, TRUE),
  SetNegRiskAdapterApproval(TRUE),
  SetCTFExchangeAllowance(FALSE, TRUE),
  SetCTFExchangeAllowance(TRUE, TRUE) >>

Approvals == {ops[i] : i \in 1..10}

(* Take an approval back: approved = false, or an allowance that is less     *)
(* than the half of 2^256 that SetApprovals asks for.                       *)
Withdrawal(a) ==
  [a EXCEPT !.method = IF @ = "approve" THEN "approveLess"
                                        ELSE "setApprovalForAllFalse"]

CancelCall(m) == Call(exchangeContract(m), "cancelOrders", "none")

PositionMethods == {"redeemPositions", "mergePositions", "splitPosition"}
PositionCall(m, f) == Call(positionContract(m), f, "none")

BuilderCalls ==
  Approvals \cup {Withdrawal(a) : a \in Approvals}
            \cup {CancelCall(m) : m \in Market}
            \cup {PositionCall(m, f) : m \in Market, f \in PositionMethods}

ASSUME BuilderAssumption ==
  /\ Presets \subseteq SUBSET Approvals
  /\ Changes \subseteq Approvals
  /\ Cancellations \subseteq Cancels
  /\ Markets \subseteq Market
  /\ Positions \subseteq PositionMethods
  /\ BuilderCalls \subseteq Calls

VARIABLES
  preset,     \* the approvals given before
  job,        \* job[c]: the operation caller c is in
  op,         \* op[c]: the position of its SetApprovals in ops
  begun,      \* begun[c]: the account's nonce when its SetApprovals began
  success,    \* success[c]: every result of its SetApprovals so far is Ok
  cancel,     \* cancel[c]: the arguments of its CancelOrders
  answer      \* answer[c]: what its last operation returned

jobVars == <<job, op, begun, success, cancel, answer>>
vars == <<txVars, preset, jobVars>>

Jobs == {"none", "SetApprovals", "CancelOrders", "single"}
Answers == {"none",                      \* no answer, or one TransactionResult
            "approved", "incomplete",    \* SetApprovalsResult.Success or not
            "error",                     \* the error of a read
            "ErrInvalidNegRiskConfig"}

NoCancel == [orders |-> [neg |-> FALSE, yield |-> FALSE],
             flags |-> [neg |-> FALSE, yield |-> FALSE],
             withValidation |-> FALSE]

TypeOK ==
  /\ TxTypeOK
  /\ preset \in SUBSET Approvals
  /\ job \in [Callers -> Jobs]
  /\ op \in [Callers -> 1..10]
  /\ begun \in [Callers -> Nat]
  /\ success \in [Callers -> BOOLEAN]
  /\ cancel \in [Callers -> Cancels]
  /\ answer \in [Callers -> Answers]

Init ==
  /\ TxInit
  /\ preset \in Presets
  /\ job = [c \in Callers |-> "none"]
  /\ op = [c \in Callers |-> 1]
  /\ begun = [c \in Callers |-> 0]
  /\ success = [c \in Callers |-> TRUE]
  /\ cancel = [c \in Callers |-> NoCancel]
  /\ answer = [c \in Callers |-> "none"]

(* Approval a was taken back by the transaction of nonce n or a later one. *)
Withdrawn(a, n) ==
  \E t \in succeeded : t.call = Withdrawal(a) /\ t.nonce >= n

(* The approvals the owner has given and not taken back since. *)
Held ==
  {a \in Approvals :
     \/ a \in preset /\ ~Withdrawn(a, 0)
     \/ \E t \in succeeded : t.call = a /\ ~Withdrawn(a, t.nonce)}

-----------------------------------------------------------------------------
(* Caller c starts operation j, with arguments x if j is CancelOrders. *)
Begin(c, j, x) ==
  /\ job[c] = "none"
  /\ job' = [job EXCEPT ![c] = j]
  /\ cancel' = [cancel EXCEPT ![c] = x]
  /\ answer' = [answer EXCEPT ![c] = "none"]
  /\ begun' = [begun EXCEPT ![c] = IF j = "SetApprovals" THEN next ELSE 0]
  /\ UNCHANGED <<op, success>>

(* Its operation returns a. *)
End(c, a) ==
  /\ job' = [job EXCEPT ![c] = "none"]
  /\ op' = [op EXCEPT ![c] = 1]
  /\ success' = [success EXCEPT ![c] = TRUE]
  /\ cancel' = [cancel EXCEPT ![c] = NoCancel]
  /\ answer' = [answer EXCEPT ![c] = a]
  /\ begun' = IF a = "approved" THEN begun ELSE [begun EXCEPT ![c] = 0]

SetApprovals(c) ==
  /\ Begin(c, "SetApprovals", NoCancel)
  /\ UNCHANGED <<txVars, preset>>

(* Mutation: the loop runs one position too far. *)
NextOpPastEnd(c, ok) ==
  IF op[c] <= 10
    THEN /\ op' = [op EXCEPT ![c] = @ + 1]
         /\ success' = [success EXCEPT ![c] = @ /\ ok]
         /\ UNCHANGED <<job, begun, cancel, answer>>
    ELSE End(c, IF success[c] /\ ok THEN "approved" ELSE "incomplete")

(* The result of one approval is appended; after the tenth, they are         *)
(* summed up.                                                               *)
NextOp(c, ok) ==
  IF op[c] < 10
    THEN /\ op' = [op EXCEPT ![c] = @ + 1]
         /\ success' = [success EXCEPT ![c] = @ /\ ok]
         /\ UNCHANGED <<job, begun, cancel, answer>>
    ELSE End(c, IF success[c] /\ ok THEN "approved" ELSE "incomplete")

(* isApprovedForAll or allowance says that the approval is there. *)
SkipApproval(c) ==
  /\ job[c] = "SetApprovals"
  /\ at[c] = "idle"
  /\ ops[op[c]] \in Held
  /\ NextOp(c, TRUE)
  /\ UNCHANGED <<txVars, preset>>

(* It is not: setApprovalForAll or approve. *)
SendApproval(c) ==
  /\ job[c] = "SetApprovals"
  /\ ops[op[c]] \notin Held
  /\ SendTx(c, ops[op[c]])
  /\ UNCHANGED <<preset, jobVars>>

(* The read fails: SetApprovals returns its error and no results. *)
AbortApprovals(c) ==
  /\ "rpc" \in Faults
  /\ job[c] = "SetApprovals"
  /\ at[c] = "idle"
  /\ End(c, "error")
  /\ UNCHANGED <<txVars, preset>>

(* Mutation: the loop stops looking at the results after the first failure. *)
TakeAnyApproval(c) ==
  /\ job[c] = "SetApprovals"
  /\ TakeResult(c)
  /\ NextOp(c, TRUE)
  /\ UNCHANGED preset

(* sendTx returned a TransactionResult: also after a failure the loop goes on. *)
TakeApproval(c) ==
  /\ job[c] = "SetApprovals"
  /\ TakeResult(c)
  /\ NextOp(c, result[c] = "success")
  /\ UNCHANGED preset

(* A token ID is registered on the exchange of its own kind of market, and   *)
(* on no other (external).                                                  *)
Registered(orders, flags) == orders = flags

(* Mutation: an RPC failure does not count against a token ID. *)
ValidOrUnread(orders, flags) == Registered(orders, flags) \/ "rpc" \in Faults

(* ValidateTokenIDs can answer true; it answers false if the RPC fails. *)
ValidateTokenIDs(orders, flags) == Registered(orders, flags)

CancelOrders(c, x) ==
  /\ x.withValidation => ValidateTokenIDs(x.orders, x.flags)
  /\ Begin(c, "CancelOrders", x)
  /\ SendTx(c, CancelCall(x.flags))
  /\ UNCHANGED preset

(* ValidateTokenIDs answers false. *)
RefuseCancel(c, x) ==
  /\ job[c] = "none"
  /\ x.withValidation
  /\ ~Registered(x.orders, x.flags) \/ "rpc" \in Faults
  /\ cancel' = [cancel EXCEPT ![c] = x]
  /\ answer' = [answer EXCEPT ![c] = "ErrInvalidNegRiskConfig"]
  /\ begun' = [begun EXCEPT ![c] = 0]
  /\ UNCHANGED <<txVars, preset, job, op, success>>

(* RedeemPositions, MergePositions, SplitPositions. *)
ChangePosition(c, m, f) ==
  /\ Begin(c, "single", NoCancel)
  /\ SendTx(c, PositionCall(m, f))
  /\ UNCHANGED preset

(* SetCTFExchangeApproval, SetNegRiskAdapterApproval, SetCTFExchangeAllowance *)
(* called by the program.  They send nothing if what they read is as asked;   *)
(* of an allowance the program may ask for any minimum, also one above what  *)
(* SetApprovals is content with.                                            *)
GrantApproval(c, a) ==
  /\ a.method = "setApprovalForAll" => a \notin Held
  /\ Begin(c, "single", NoCancel)
  /\ SendTx(c, a)
  /\ UNCHANGED preset

(* approved = false; or a minAmount the allowance falls short of, with a      *)
(* maxAmount that is less than what SetApprovals is content with.           *)
WithdrawApproval(c, a) ==
  /\ a.method = "setApprovalForAll" => a \in Held
  /\ Begin(c, "single", NoCancel)
  /\ SendTx(c, Withdrawal(a))
  /\ UNCHANGED preset

(* They and CancelOrders return what sendTx does. *)
TakeSingle(c) ==
  /\ job[c] \in {"CancelOrders", "single"}
  /\ TakeResult(c)
  /\ End(c, "none")
  /\ UNCHANGED preset

InSendTx(c) == Advance(c) /\ UNCHANGED <<preset, jobVars>>

CallerStep(c) ==
  \/ SkipApproval(c)
  \/ SendApproval(c)
  \/ AbortApprovals(c)
  \/ TakeApproval(c)
  \/ TakeSingle(c)
  \/ InSendTx(c)

Next ==
  \/ \E c \in Callers :
       \/ SetApprovals(c)
       \/ \E x \in Cancellations : CancelOrders(c, x) \/ RefuseCancel(c, x)
       \/ \E m \in Markets, f \in Positions : ChangePosition(c, m, f)
       \/ \E a \in Changes : GrantApproval(c, a) \/ WithdrawApproval(c, a)
       \/ CallerStep(c)
  \/ NodeStep /\ UNCHANGED <<preset, jobVars>>

Spec == Init /\ [][Next]_vars

-----------------------------------------------------------------------------
(***************************************************************************)
(* Properties.                                                              *)
(***************************************************************************)

(* The owner has given approval a, or has taken it back since nonce n. *)
Granted(a, n) == a \in Held \/ Withdrawn(a, n)

(* What trading in a market of kind m takes: the exchange orders are signed  *)
(* for may move the owner's outcome tokens and USDT, and for NegRisk so may  *)
(* the adapter the tokens.                                                  *)
Tradeable(m, n) ==
  \A d \in Addresses :
    d.neg = m.neg /\ d.yield = m.yield =>
      /\ Granted(Call("usdt", "approve", exchangeAddress(m)), n)
      /\ \A operator \in {exchangeAddress(m)} \cup d.adapters :
           Granted(Call(d.tokens, "setApprovalForAll", operator), n)

(* When SetApprovals reports success, every kind of market can be traded,    *)
(* whatever failed in earlier calls, in other goroutines or in the pool, but *)
(* for what somebody has taken back since the call began.                   *)
ApprovedIsTradeable ==
  \A c \in Callers :
    answer[c] = "approved" => \A m \in Market : Tradeable(m, begun[c])

(* A CancelOrders with validation whose transaction succeeds has cancelled   *)
(* on the exchange the orders were signed for, whatever its flags say; on    *)
(* another one the orders would stay open.                                  *)
CancelsWhereSigned ==
  \A c \in Callers :
    job[c] = "CancelOrders" /\ cancel[c].withValidation /\ result[c] = "success" =>
      /\ tx[c] \in succeeded
      /\ tx[c].call = Call(exchangeAddress(cancel[c].orders), "cancelOrders", "none")

(* "ErrInvalidNegRiskConfig is returned when token IDs do not match the      *)
(* exchange." (errors.go)                                                   *)
NegRiskErrorMeansMismatch ==
  \A c \in Callers :
    answer[c] = "ErrInvalidNegRiskConfig" =>
      ~Registered(cancel[c].orders, cancel[c].flags)
=============================================================================
