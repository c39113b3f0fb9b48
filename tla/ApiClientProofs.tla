--------------------------- MODULE ApiClientProofs ---------------------------
(***************************************************************************)
(* Proofs about ApiClient for any number of callers, orders and tokens and  *)
(* for every combination of faults: the type invariant, the two safety      *)
(* invariants, and the refinement of OrderPlacement.                        *)
(*                                                                          *)
(* AtMostOnce and HonestOutcome are not inductive: whether an order may     *)
(* still be accepted depends on where its caller is and on what its         *)
(* exchange has come to.  CallInv adds that.                                *)
(***************************************************************************)
EXTENDS ApiClient, TLAPS

(* The order of a caller is pending and its own; there is one exactly where  *)
(* CreateLimitOrder is running.                                             *)
OwnOrder ==
  \A c \in Callers :
    /\ pc[c] \in {"idle", "read"} => order[c] = NoOrder
    /\ pc[c] \in {"submit", "resubmit", "retry"} => order[c] # NoOrder
    /\ order[c] # NoOrder => outcome[order[c]] = "pending"
    /\ \A d \in Callers \ {c} : order[c] # NoOrder => order[d] # order[c]

(* While its call runs, an order is in the book only if the exchange that    *)
(* submitted it has been answered, and not with a refusal.                   *)
PlacedByAnswer ==
  \A c \in Callers :
    order[c] # NoOrder =>
      /\ placed[order[c]] = 1 => /\ pc[c] \in {"submit", "retry"}
                                 /\ wire[c] \in {"data", "empty", "mangled", "foreign"}
      /\ /\ pc[c] \in {"submit", "retry"}
         /\ wire[c] \in {"data", "empty"}
         => placed[order[c]] = 1

(* An order on its way without a caller waiting is not in the book yet, and  *)
(* its call could not tell.                                                 *)
AdriftUnknown ==
  \A o \in Orders : o \in adrift => outcome[o] = "unknown" /\ placed[o] = 0

CallInv ==
  /\ TypeOK
  /\ OwnOrder
  /\ PlacedByAnswer
  /\ AdriftUnknown
  /\ AtMostOnce
  /\ HonestOutcome

-----------------------------------------------------------------------------
USE ApiAssumption

(* A client that has just been made satisfies CallInv. *)
LEMMA InitInv == Init => CallInv
BY DEF Init, CallInv, TypeOK, OwnOrder, PlacedByAnswer, AdriftUnknown,
       AtMostOnce, HonestOutcome, Bearers, Locations

(* Every step of a caller, the server or the network preserves CallInv. *)
LEMMA NextInv == CallInv /\ [Next]_vars => CallInv'
<1> SUFFICES ASSUME CallInv, [Next]_vars PROVE CallInv'
  OBVIOUS
<1> USE DEF CallInv, TypeOK, OwnOrder, Bearers, Locations, Replies,
            serverVars, clientVars
<1>1. ASSUME NEW c \in Callers, NEW o \in Orders, CreateLimitOrder(c, o) PROVE CallInv'
  <2>1. TypeOK' /\ OwnOrder'
    BY <1>1 DEF CreateLimitOrder, SubmitOrder, Send
  <2>2. PlacedByAnswer'
    BY <1>1 DEF CreateLimitOrder, SubmitOrder, Send, PlacedByAnswer,
       HonestOutcome
  <2>3. AdriftUnknown'
    BY <1>1 DEF CreateLimitOrder, SubmitOrder, Send, PlacedByAnswer,
       AdriftUnknown
  <2>4. AtMostOnce' /\ HonestOutcome'
    BY <1>1 DEF CreateLimitOrder, SubmitOrder, Send, PlacedByAnswer,
       AdriftUnknown, AtMostOnce, HonestOutcome
  <2> QED
    BY <2>1, <2>2, <2>3, <2>4
<1>2. ASSUME NEW c \in Callers, Authenticate(c) PROVE CallInv'
  BY <1>2 DEF Authenticate, Send, PlacedByAnswer, AdriftUnknown, AtMostOnce,
     HonestOutcome
<1>3. ASSUME NEW c \in Callers, InvalidateAuth(c) PROVE CallInv'
  BY <1>3 DEF InvalidateAuth, PlacedByAnswer, AdriftUnknown, AtMostOnce,
     HonestOutcome
<1>4. ASSUME NEW c \in Callers, Reauthenticate(c) PROVE CallInv'
  BY <1>4 DEF Reauthenticate, Send, Answered, Decode, PlacedByAnswer,
     AdriftUnknown, AtMostOnce, HonestOutcome
<1>5. ASSUME NEW c \in Callers, ReturnFromSubmit(c) PROVE CallInv'
  <2>1. TypeOK' /\ OwnOrder'
    BY <1>5 DEF ReturnFromSubmit, Finish, Answered, Reported, Decode
  <2>2. PlacedByAnswer'
    BY <1>5 DEF ReturnFromSubmit, Finish, Answered, Reported, Decode,
       PlacedByAnswer
  <2>3. AdriftUnknown'
    BY <1>5 DEF ReturnFromSubmit, Finish, Answered, Reported, Decode,
       PlacedByAnswer, AdriftUnknown
  <2>4. AtMostOnce' /\ HonestOutcome'
    BY <1>5 DEF ReturnFromSubmit, Finish, Answered, Reported, Decode,
       PlacedByAnswer, AdriftUnknown, AtMostOnce, HonestOutcome
  <2> QED
    BY <2>1, <2>2, <2>3, <2>4
<1>6. ASSUME NEW c \in Callers, SignMessage(c) PROVE CallInv'
  BY <1>6 DEF SignMessage, Send, PlacedByAnswer, AdriftUnknown, AtMostOnce,
     HonestOutcome
<1>7. ASSUME NEW c \in Callers, StoreToken(c) PROVE CallInv'
  <2>1. TypeOK' /\ OwnOrder'
    BY <1>7 DEF StoreToken, Finish
  <2>2. PlacedByAnswer'
    BY <1>7 DEF StoreToken, Finish, PlacedByAnswer
  <2>3. AdriftUnknown'
    BY <1>7 DEF StoreToken, Finish, PlacedByAnswer, AdriftUnknown
  <2>4. AtMostOnce' /\ HonestOutcome'
    BY <1>7 DEF StoreToken, Finish, PlacedByAnswer, AdriftUnknown,
       AtMostOnce, HonestOutcome
  <2> QED
    BY <2>1, <2>2, <2>3, <2>4
<1>8. ASSUME NEW c \in Callers, FailAuth(c) PROVE CallInv'
  <2>1. TypeOK' /\ OwnOrder'
    BY <1>8 DEF FailAuth, Finish, Answered
  <2>2. PlacedByAnswer'
    BY <1>8 DEF FailAuth, Finish, Answered, PlacedByAnswer
  <2>3. AdriftUnknown'
    BY <1>8 DEF FailAuth, Finish, Answered, PlacedByAnswer, AdriftUnknown
  <2>4. AtMostOnce' /\ HonestOutcome'
    BY <1>8 DEF FailAuth, Finish, Answered, PlacedByAnswer, AdriftUnknown,
       AtMostOnce, HonestOutcome
  <2> QED
    BY <2>1, <2>2, <2>3, <2>4
<1>9. ASSUME NEW c \in Callers, Resubmit(c) PROVE CallInv'
  BY <1>9 DEF Resubmit, SubmitOrder, Send, PlacedByAnswer, AdriftUnknown,
     AtMostOnce, HonestOutcome
<1>10. ASSUME NEW c \in Callers, GiveUp(c) PROVE CallInv'
  <2>1. TypeOK' /\ OwnOrder'
    BY <1>10 DEF GiveUp, Finish
  <2>2. PlacedByAnswer'
    BY <1>10 DEF GiveUp, Finish, PlacedByAnswer
  <2>4. AtMostOnce'
    BY <1>10 DEF GiveUp, AtMostOnce
  <2>5. /\ placed' = placed
        /\ adrift' \subseteq adrift \cup {order[c]}
        /\ pc[c] \notin {"submit", "retry"} => adrift' = adrift
        /\ \A o \in Orders : o # order[c] => outcome'[o] = outcome[o]
        /\ order[c] # NoOrder =>
             outcome'[order[c]] = IF pc[c] \in {"submit", "retry"} THEN "unknown"
                                                                  ELSE "refused"
    BY <1>10 DEF GiveUp, Finish
  <2>3. AdriftUnknown'
    <3> SUFFICES ASSUME NEW o \in Orders, o \in adrift'
                 PROVE  outcome'[o] = "unknown" /\ placed'[o] = 0
      BY DEF AdriftUnknown
    <3>1. CASE o \in adrift
      <4>1. outcome[o] = "unknown" /\ placed[o] = 0
        BY <3>1 DEF AdriftUnknown
      <4>2. o # order[c]
        BY <4>1, ApiAssumption
      <4> QED
        BY <2>5, <4>1, <4>2
    <3>2. CASE o \notin adrift
      <4>1. /\ o = order[c] /\ order[c] # NoOrder
            /\ pc[c] \in {"submit", "retry"} /\ wire[c] = "request"
        BY <1>10, <3>2, ApiAssumption DEF GiveUp
      <4>2. placed[o] # 1 /\ placed[o] \in Nat /\ placed[o] <= 1
        BY <4>1 DEF PlacedByAnswer, AtMostOnce
      <4> QED
        BY <2>5, <4>1, <4>2
    <3> QED
      BY <3>1, <3>2
  <2>6. ASSUME NEW o \in Orders, o # order[c]
        PROVE  /\ outcome'[o] = "placed" => placed'[o] = 1
               /\ outcome'[o] \in {"unsent", "invalid", "refused"} =>
                    placed'[o] = 0 /\ o \notin adrift'
    BY <2>5, <2>6 DEF HonestOutcome
  <2>7. ASSUME order[c] # NoOrder, pc[c] \notin {"submit", "retry"}
        PROVE  placed[order[c]] = 0 /\ order[c] \notin adrift
    <3>1. order[c] \in Orders /\ outcome[order[c]] = "pending"
      BY <2>7
    <3>2. placed[order[c]] # 1 /\ placed[order[c]] <= 1
      BY <2>7, <3>1 DEF PlacedByAnswer, AtMostOnce
    <3> QED
      BY <3>1, <3>2 DEF AdriftUnknown
  <2>8. HonestOutcome'
    BY <2>5, <2>6, <2>7, ApiAssumption DEF HonestOutcome
  <2> QED
    BY <2>1, <2>2, <2>3, <2>4, <2>8
<1>11. ASSUME NEW c \in Callers, NEW o \in Orders, AcceptOrder(c, o) PROVE CallInv'
  <2>1. TypeOK' /\ OwnOrder'
    BY <1>11 DEF AcceptOrder, Reply, AcceptReplies, GarbledReplies
  <2>2. PlacedByAnswer'
    BY <1>11 DEF AcceptOrder, Reply, AcceptReplies, GarbledReplies, PlacedByAnswer,
       AtMostOnce
  <2>3. AdriftUnknown'
    BY <1>11 DEF AcceptOrder, Reply, AcceptReplies, GarbledReplies, PlacedByAnswer,
       AdriftUnknown
  <2>4. AtMostOnce' /\ HonestOutcome'
    BY <1>11 DEF AcceptOrder, Reply, AcceptReplies, GarbledReplies, PlacedByAnswer,
       AdriftUnknown, AtMostOnce, HonestOutcome
  <2> QED
    BY <2>1, <2>2, <2>3, <2>4
<1>12. ASSUME NEW c \in Callers, RefuseOrder(c) PROVE CallInv'
  <2>1. TypeOK' /\ OwnOrder'
    BY <1>12 DEF RefuseOrder, Reply, RefuseReplies, DeniedReplies, GarbledReplies
  <2>2. PlacedByAnswer'
    BY <1>12 DEF RefuseOrder, Reply, RefuseReplies, DeniedReplies, GarbledReplies,
       PlacedByAnswer
  <2>3. AdriftUnknown'
    BY <1>12 DEF RefuseOrder, Reply, RefuseReplies, DeniedReplies, GarbledReplies,
       PlacedByAnswer, AdriftUnknown
  <2>4. AtMostOnce' /\ HonestOutcome'
    BY <1>12 DEF RefuseOrder, Reply, RefuseReplies, DeniedReplies, GarbledReplies,
       PlacedByAnswer, AdriftUnknown, AtMostOnce, HonestOutcome
  <2> QED
    BY <2>1, <2>2, <2>3, <2>4
<1>13. ASSUME NEW c \in Callers, ServeMessage(c) PROVE CallInv'
  BY <1>13 DEF ServeMessage, Reply, RefuseReplies, PlacedByAnswer,
     AdriftUnknown, AtMostOnce, HonestOutcome
<1>14. ASSUME NEW c \in Callers, NEW t \in Tokens, IssueToken(c, t) PROVE CallInv'
  BY <1>14 DEF IssueToken, Reply, PlacedByAnswer, AdriftUnknown, AtMostOnce,
     HonestOutcome
<1>15. ASSUME NEW c \in Callers, RefuseToken(c) PROVE CallInv'
  BY <1>15 DEF RefuseToken, Reply, RefuseReplies, PlacedByAnswer,
     AdriftUnknown, AtMostOnce, HonestOutcome
<1>16. ASSUME NEW o \in Orders, ServeAdrift(o) PROVE CallInv'
  <2>1. TypeOK' /\ OwnOrder'
    BY <1>16 DEF ServeAdrift
  <2>2. PlacedByAnswer'
    BY <1>16 DEF ServeAdrift, PlacedByAnswer, AdriftUnknown
  <2>3. AdriftUnknown'
    BY <1>16 DEF ServeAdrift, PlacedByAnswer, AdriftUnknown
  <2>4. AtMostOnce' /\ HonestOutcome'
    BY <1>16 DEF ServeAdrift, PlacedByAnswer, AdriftUnknown, AtMostOnce,
       HonestOutcome
  <2> QED
    BY <2>1, <2>2, <2>3, <2>4
<1>17. ASSUME NEW t \in Tokens, Revoke(t) PROVE CallInv'
  BY <1>17 DEF Revoke, PlacedByAnswer, AdriftUnknown, AtMostOnce,
     HonestOutcome
<1>18. ASSUME NEW c \in Callers, Read(c) PROVE CallInv'
  BY <1>18 DEF Read, Send, PlacedByAnswer, AdriftUnknown, AtMostOnce,
     HonestOutcome
<1>19. ASSUME NEW c \in Callers, ServeRead(c) PROVE CallInv'
  BY <1>19 DEF ServeRead, Reply, RefuseReplies, PlacedByAnswer,
     AdriftUnknown, AtMostOnce, HonestOutcome
<1>20. ASSUME NEW c \in Callers, ReturnFromRead(c) PROVE CallInv'
  <2>1. order[c] = NoOrder
    BY <1>20 DEF ReturnFromRead
  <2>2. /\ pc' = [pc EXCEPT ![c] = "idle"]
        /\ order' = order /\ outcome' = outcome
        /\ wire' = [wire EXCEPT ![c] = "quiet"]
        /\ granted' = [granted EXCEPT ![c] = NoToken]
        /\ UNCHANGED <<bearer, header, adrift, serverVars>>
    BY <1>20, <2>1 DEF ReturnFromRead, Finish
  <2>3. TypeOK' /\ OwnOrder'
    BY <2>1, <2>2
  <2> QED
    BY <2>1, <2>2, <2>3 DEF PlacedByAnswer, AdriftUnknown, AtMostOnce,
       HonestOutcome
<1>21. CASE UNCHANGED vars
  BY <1>21 DEF vars, PlacedByAnswer, AdriftUnknown, AtMostOnce,
     HonestOutcome
<1> QED
  BY <1>1, <1>2, <1>3, <1>4, <1>5, <1>6, <1>7, <1>8, <1>9, <1>10, <1>11,
     <1>12, <1>13, <1>14, <1>15, <1>16, <1>17, <1>18, <1>19, <1>20, <1>21
     DEF Next, CallerStep, ServeCaller

(* CallInv holds in every reachable state. *)
THEOREM Invariance == Spec => []CallInv
BY InitInv, NextInv, PTL DEF Spec

(* Every value of every variable stays in its type. *)
THEOREM TypeCorrect == Spec => []TypeOK
BY Invariance, PTL DEF CallInv

(* CreateLimitOrder's second POST, a reply that gets lost and a request      *)
(* served after its caller has left never put an order in the book twice.    *)
THEOREM PlacedAtMostOnce == Spec => []AtMostOnce
BY Invariance, PTL DEF CallInv

(* What CreateLimitOrder returned is true of the book, then and later.       *)
THEOREM OutcomeIsHonest == Spec => []HonestOutcome
BY Invariance, PTL DEF CallInv

-----------------------------------------------------------------------------
(* Every step of ApiClient is a step of OrderPlacement or leaves the book    *)
(* and the results as they are.                                             *)
LEMMA StepRefines ==
  CallInv /\ [Next]_vars => [Placement!Next]_(Placement!vars)
<1> SUFFICES ASSUME CallInv, [Next]_vars
             PROVE  [Placement!Next]_(Placement!vars)
  OBVIOUS
<1> USE DEF Placement!vars, clientVars, serverVars
<1>1. ASSUME NEW c \in Callers, NEW o \in Orders, CreateLimitOrder(c, o)
      PROVE  Placement!Call(o)
  BY <1>1 DEF CreateLimitOrder, Placement!Call
<1>2. ASSUME NEW c \in Callers, NEW r \in Placement!Answers, Finish(c, r),
             UNCHANGED placed,
             order[c] # NoOrder => /\ r = "placed" => placed[order[c]] = 1
                                   /\ r = "refused" => placed[order[c]] = 0
      PROVE  \/ \E o \in Orders : Placement!Return(o, r)
             \/ UNCHANGED <<placed, outcome>>
  <2>1. CASE order[c] = NoOrder
    BY <1>2, <2>1 DEF Finish, CallInv, TypeOK
  <2>2. CASE order[c] # NoOrder
    <3>1. order[c] \in Orders /\ outcome[order[c]] = "pending"
      BY <2>2 DEF CallInv, TypeOK, OwnOrder
    <3>2. outcome' = [outcome EXCEPT ![order[c]] = r]
      BY <1>2 DEF Finish, CallInv, TypeOK
    <3> QED
      BY <1>2, <2>2, <3>1, <3>2 DEF Placement!Return
  <2> QED
    BY <2>1, <2>2
<1>3. ASSUME NEW c \in Callers, ReturnFromSubmit(c)
      PROVE  [Placement!Next]_(Placement!vars)
  <2> DEFINE r == Reported(Decode(wire[c]))
  <2>1. order[c] \in Orders /\ placed[order[c]] \in {0, 1}
    BY <1>3 DEF ReturnFromSubmit, CallInv, TypeOK, OwnOrder, AtMostOnce
  <2>2. /\ r \in Placement!Answers
        /\ r = "placed" => placed[order[c]] = 1
        /\ r = "refused" => placed[order[c]] = 0
    BY <1>3, <2>1 DEF ReturnFromSubmit, Reported, Decode, Placement!Answers,
                      CallInv, PlacedByAnswer
  <2> QED
    BY <1>2, <1>3, <2>2 DEF ReturnFromSubmit, Placement!Next
<1>4. ASSUME NEW c \in Callers, StoreToken(c)
      PROVE  UNCHANGED <<placed, outcome>>
  BY <1>4 DEF StoreToken, Finish, CallInv, TypeOK
<1>5. ASSUME NEW c \in Callers, FailAuth(c)
      PROVE  [Placement!Next]_(Placement!vars)
  <2>1. order[c] # NoOrder => placed[order[c]] = 0
    BY <1>5 DEF FailAuth, CallInv, TypeOK, PlacedByAnswer, AtMostOnce
  <2> QED
    BY <1>2, <1>5, <2>1 DEF FailAuth, Placement!Answers, Placement!Next
<1>6. ASSUME NEW c \in Callers, GiveUp(c)
      PROVE  [Placement!Next]_(Placement!vars)
  <2> DEFINE r == IF pc[c] \in {"submit", "retry"} THEN "unknown" ELSE "refused"
  <2>1. order[c] # NoOrder /\ r = "refused" => placed[order[c]] = 0
    BY DEF CallInv, TypeOK, PlacedByAnswer, AtMostOnce
  <2>2. r \in Placement!Answers /\ r # "placed"
    BY DEF Placement!Answers
  <2> QED
    BY <1>2, <1>6, <2>1, <2>2 DEF GiveUp, Placement!Next
<1>7. ASSUME NEW c \in Callers, NEW o \in Orders, AcceptOrder(c, o)
      PROVE  Placement!Place(o)
  <2>1. outcome[o] = "pending" /\ placed[o] = 0
    BY <1>7 DEF AcceptOrder, CallInv, TypeOK, OwnOrder, PlacedByAnswer, AtMostOnce
  <2> QED
    BY <1>7, <2>1 DEF AcceptOrder, Placement!Place
<1>8. ASSUME NEW o \in Orders, ServeAdrift(o)
      PROVE  Placement!Place(o) \/ UNCHANGED <<placed, outcome>>
  BY <1>8 DEF ServeAdrift, Placement!Place, CallInv, AdriftUnknown
<1>9. ASSUME NEW c \in Callers,
             \/ Authenticate(c) \/ InvalidateAuth(c) \/ Reauthenticate(c)
             \/ SignMessage(c) \/ Resubmit(c) \/ RefuseOrder(c)
             \/ ServeMessage(c) \/ RefuseToken(c)
             \/ Read(c) \/ ServeRead(c)
             \/ \E t \in Tokens : IssueToken(c, t)
      PROVE  UNCHANGED <<placed, outcome>>
  BY <1>9 DEF Authenticate, InvalidateAuth, Reauthenticate, SignMessage,
              Resubmit, RefuseOrder, ServeMessage, RefuseToken, IssueToken,
              Read, ServeRead
<1>10. ASSUME NEW t \in Tokens, Revoke(t)
       PROVE  UNCHANGED <<placed, outcome>>
  BY <1>10 DEF Revoke
<1>11. ASSUME NEW c \in Callers, ReturnFromRead(c)
       PROVE  UNCHANGED <<placed, outcome>>
  BY <1>11 DEF ReturnFromRead, Finish, CallInv, TypeOK, OwnOrder
<1>12. CASE UNCHANGED vars
  BY <1>12 DEF vars
<1> QED
  BY <1>1, <1>3, <1>4, <1>5, <1>6, <1>7, <1>8, <1>9, <1>10, <1>11, <1>12
     DEF Next, CallerStep, ServeCaller, Placement!Next

(* The client implements OrderPlacement: an order is placed once or never,   *)
(* and every answer of CreateLimitOrder is one the specification allows.     *)
THEOREM Refinement == Spec => ImplementsPlacement
<1>1. Init => Placement!Init
  BY DEF Init, Placement!Init
<1> QED
  BY <1>1, Invariance, StepRefines, PTL
     DEF Spec, ImplementsPlacement, Placement!Spec
=============================================================================
