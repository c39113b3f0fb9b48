--------------------------- MODULE MCTransactions ---------------------------
(* Instances of Transactions for model checking. *)
EXTENDS Transactions, TLC

NodeKeepsAll == FaultKinds \ {"drop"}

(* Sound for the run that checks no liveness property. *)
Interchangeable == Permutations(Callers) \cup Permutations(Calls)
=============================================================================
