--------------------------- MODULE OrderPlacement ---------------------------
(***************************************************************************)
(* What CreateLimitOrder promises its caller, whatever happens on the way:  *)
(* an order reaches the book at most once, and the answer the call returns  *)
(* can be relied on.                                                        *)
(*                                                                          *)
(*   "placed"   the order is in the book;                                   *)
(*   "refused"  the server said no (an APIError with a code, or a failed    *)
(*              re-authentication after one): the order never will be;      *)
(*   "unknown"  no answer of the server's that can be read: it may be in    *)
(*              the book or get there yet;                                  *)
(*   "invalid"  the call failed before it sent anything.                    *)
(*                                                                          *)
(* ApiClient implements this specification with its bearer cache, its       *)
(* requests in flight and its one retry after a 401.                        *)
(***************************************************************************)
EXTENDS Naturals

CONSTANT Orders     \* the orders the calls build, one per call

VARIABLES
  placed,           \* placed[o]: how many times the server put o in the book
  outcome           \* outcome[o]: what the call that built o has returned

vars == <<placed, outcome>>

Answers == {"placed", "refused", "unknown"}
Outcomes == Answers \cup {"unsent", "pending", "invalid"}

TypeOK ==
  /\ placed \in [Orders -> {0, 1}]
  /\ outcome \in [Orders -> Outcomes]

Init ==
  /\ placed = [o \in Orders |-> 0]
  /\ outcome = [o \in Orders |-> "unsent"]

(* The call starts: it either fails on its own or goes to the server. *)
Call(o) ==
  /\ outcome[o] = "unsent"
  /\ \E r \in {"pending", "invalid"} : outcome' = [outcome EXCEPT ![o] = r]
  /\ UNCHANGED placed

(* The server puts the order in the book, possibly after the caller left. *)
Place(o) ==
  /\ outcome[o] \in {"pending", "unknown"}
  /\ placed[o] = 0
  /\ placed' = [placed EXCEPT ![o] = 1]
  /\ UNCHANGED outcome

Return(o, r) ==
  /\ outcome[o] = "pending"
  /\ r = "placed" => placed[o] = 1
  /\ r = "refused" => placed[o] = 0
  /\ outcome' = [outcome EXCEPT ![o] = r]
  /\ UNCHANGED placed

Next ==
  \E o \in Orders :
    \/ Call(o)
    \/ Place(o)
    \/ \E r \in Answers : Return(o, r)

Spec == Init /\ [][Next]_vars
=============================================================================
