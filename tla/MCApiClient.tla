----------------------------- MODULE MCApiClient -----------------------------
(* Instances of ApiClient for model checking. *)
EXTENDS ApiClient, TLC

NoFaults == {}

(* Sound for the runs that check no liveness property. *)
Interchangeable ==
  Permutations(Callers) \cup Permutations(Orders) \cup Permutations(Tokens)
=============================================================================
