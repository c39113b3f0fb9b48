-------------------------- MODULE MCOrderBuilderTx --------------------------
(* An instance of OrderBuilderTx for model checking. *)
EXTENDS OrderBuilderTx, TLC

(* An approval of the CTF that is given, and one of USDT that is missing,    *)
(* may be given or taken back one by one; of the two nonces SetApprovals     *)
(* needs one, and the other can undo what it has found or done.              *)
Changing == {ops[7], ops[9]}
OneMissing == {Approvals \ {ops[9]}}

Plain == [neg |-> FALSE, yield |-> FALSE]
NegRisk == [neg |-> TRUE, yield |-> FALSE]

(* Checked, with the right flags and with wrong ones. *)
SomeCancellations ==
  [orders : {NegRisk}, flags : {Plain, NegRisk}, withValidation : {TRUE}]

AllCancellations ==
  [orders : {NegRisk}, flags : {Plain, NegRisk}, withValidation : BOOLEAN]

OneKind == {NegRisk}

Interchangeable == Permutations(Callers)
=============================================================================
