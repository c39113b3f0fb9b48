------------------------------ MODULE ApiClient ------------------------------
(***************************************************************************)
(* One APIClient shared by several goroutines (the callers).  The client    *)
(* caches a JWT in "bearer" under a lock; every request copies it into its  *)
(* Authorization header when it is sent.  CreateLimitOrder posts an order   *)
(* and, when the server answers with an APIError of code 401, clears the    *)
(* cache, authenticates again and posts the same order once more.           *)
(*                                                                          *)
(* The server and the network are external.  The server checks the header   *)
(* of an order against the tokens it currently honours, may revoke a token  *)
(* at any time and may refuse any request; a reply may be lost, and a       *)
(* request the caller has given up on may still be served later.            *)
(*                                                                          *)
(* A step of a caller runs from one point where another goroutine can be    *)
(* noticed to the next: receiving a reply and acting on it is one step,     *)
(* since a later scheduling of the goroutine is a later delivery.  Storing  *)
(* the new token and reading it again for the retry are two steps, because  *)
(* the lock is released in between.  What BuildOrder, BuildTypedData and    *)
(* SignTypedDataOrder compute is abstracted to whether they fail.           *)
(***************************************************************************)
EXTENDS Naturals, FiniteSets

CONSTANTS
  Callers,    \* goroutines that use the client
  Keyless,    \* the callers whose OrderBuilder holds no private key
  Orders,     \* orders, told apart by their salt; one per CreateLimitOrder call
  Tokens,     \* the JWTs the server can hand out
  NoToken,    \* the empty bearer
  NoOrder,    \* the caller is not inside CreateLimitOrder
  Faults      \* what may go wrong outside the client: a subset of FaultKinds

FaultKinds == {"lost", "refuse", "revoke"}

ASSUME ApiAssumption ==
  /\ Keyless \subseteq Callers
  /\ NoToken \notin Tokens
  /\ NoOrder \notin Orders
  /\ Faults \subseteq FaultKinds

VARIABLES
  bearer,     \* APIClient.bearer
  pc,         \* pc[c]: where caller c is
  order,      \* order[c]: the order its CreateLimitOrder call submits
  wire,       \* wire[c]: its exchange: nothing, a request, or the reply to it
  granted,    \* granted[c]: the token in the reply to its POST /v1/auth
  header,     \* header[o]: the bearer sent with the last submission of o
  adrift,     \* orders submitted by a caller that no longer waits for the reply
  valid,      \* the tokens the server honours
  revoked,    \* the tokens it honours no longer
  placed,     \* placed[o]: how many times the server accepted o
  outcome     \* outcome[o]: what the CreateLimitOrder call for o returned

clientVars == <<bearer, pc, order, header, outcome>>
serverVars == <<valid, revoked, placed>>
vars == <<bearer, pc, order, wire, granted, header, adrift, valid, revoked,
          placed, outcome>>

Bearers == Tokens \cup {NoToken}

(***************************************************************************)
(* Replies, by what the client can make of them.                            *)
(***************************************************************************)
Replies == {"data",          \* success = true, everything expected is there
            "empty",         \* success = true, the field asked for is blank
            "data4xx",       \* success = true under an HTTP status >= 400
            "mangled",       \* no JSON object, or data that does not decode
            "foreign",       \* an object without success and code: a gateway's
            "unauthorized",  \* success = false with code 401
            "refusal"}       \* success = false with any other code but zero

(* Mutation: the HTTP status of a successful envelope is not looked at. *)
DecodeIgnoringStatus(r) == IF r \in {"data", "empty", "data4xx"} THEN "ok"
                           ELSE IF r = "unauthorized" THEN "apiError401"
                           ELSE IF r = "refusal" THEN "apiError"
                           ELSE IF r = "foreign" THEN "apiError0"
                           ELSE "error"

(* get and post: the envelope decides before the HTTP status is looked at.   *)
(* Any JSON object passes for an envelope.                                  *)
Decode(r) == IF r \in {"data", "empty"} THEN "ok"
             ELSE IF r = "unauthorized" THEN "apiError401"
             ELSE IF r = "refusal" THEN "apiError"
             ELSE IF r = "foreign" THEN "apiError0"
             ELSE "error"

(* What the caller may conclude: an APIError with a code says the order is   *)
(* not in the book; any other error, an APIError of code 0 included, says    *)
(* nothing.                                                                 *)
Reported(d) == IF d = "ok" THEN "placed"
               ELSE IF d \in {"error", "apiError0"} THEN "unknown"
               ELSE "refused"

(* What a gateway may answer in the place of the server.                    *)
GarbledReplies == IF "lost" \in Faults THEN {"mangled", "foreign"} ELSE {}
AcceptReplies == {"data", "empty"} \cup GarbledReplies
RefuseReplies == {"refusal", "unauthorized", "data4xx", "mangled", "foreign"}
DeniedReplies == {"unauthorized"} \cup GarbledReplies

Locations == {"idle",      \* not in a call
              "submit",    \* POST /v1/orders sent for the first time
              "message",   \* GET /v1/auth/message sent
              "auth",      \* POST /v1/auth sent
              "read",      \* a GET, or POST /v1/orders/remove, sent
              "resubmit",  \* authenticated again, about to post the order again
              "retry"}     \* POST /v1/orders sent for the second time

TypeOK ==
  /\ bearer \in Bearers
  /\ pc \in [Callers -> Locations]
  /\ order \in [Callers -> Orders \cup {NoOrder}]
  /\ wire \in [Callers -> {"quiet", "request"} \cup Replies]
  /\ granted \in [Callers -> Bearers]
  /\ header \in [Orders -> Bearers]
  /\ adrift \in SUBSET Orders
  /\ valid \in SUBSET Tokens
  /\ revoked \in SUBSET Tokens
  /\ placed \in [Orders -> Nat]
  /\ outcome \in [Orders -> {"unsent", "pending", "invalid",
                             "placed", "refused", "unknown"}]

(* NewAPIClient: opts.BearerToken may be set, and may be stale by now. *)
Init ==
  /\ bearer \in Bearers
  /\ pc = [c \in Callers |-> "idle"]
  /\ order = [c \in Callers |-> NoOrder]
  /\ wire = [c \in Callers |-> "quiet"]
  /\ granted = [c \in Callers |-> NoToken]
  /\ header = [o \in Orders |-> NoToken]
  /\ adrift = {}
  /\ valid \in SUBSET ({bearer} \ {NoToken})
  /\ revoked = {bearer} \ ({NoToken} \cup valid)
  /\ placed = [o \in Orders |-> 0]
  /\ outcome = [o \in Orders |-> "unsent"]

-----------------------------------------------------------------------------
(***************************************************************************)
(* The callers.                                                             *)
(***************************************************************************)

(* The caller goes to location l and sends the request it waits for there. *)
Send(c, l) ==
  /\ pc' = [pc EXCEPT ![c] = l]
  /\ wire' = [wire EXCEPT ![c] = "request"]

(* post and setAuthHeaders for an order: the header is a copy of the cache. *)
SubmitOrder(c, o, l) ==
  /\ Send(c, l)
  /\ header' = [header EXCEPT ![o] = bearer]

(* The caller is back: its CreateLimitOrder call, if it is in one, returns r. *)
Finish(c, r) ==
  /\ pc' = [pc EXCEPT ![c] = "idle"]
  /\ order' = [order EXCEPT ![c] = NoOrder]
  /\ wire' = [wire EXCEPT ![c] = "quiet"]
  /\ granted' = [granted EXCEPT ![c] = NoToken]
  /\ outcome' = [o \in Orders |-> IF o = order[c] THEN r ELSE outcome[o]]

(* CreateLimitOrder up to its first request.  Conflicting flags, an invalid *)
(* quantity, a missing key or a failed signature end it before that.        *)
CreateLimitOrder(c, o) ==
  /\ pc[c] = "idle"
  /\ outcome[o] = "unsent"
  /\ \/ /\ outcome' = [outcome EXCEPT ![o] = "invalid"]
        /\ UNCHANGED <<pc, order, wire, header>>
     \/ /\ c \notin Keyless
        /\ SubmitOrder(c, o, "submit")
        /\ order' = [order EXCEPT ![c] = o]
        /\ outcome' = [outcome EXCEPT ![o] = "pending"]
  /\ UNCHANGED <<bearer, granted, adrift, serverVars>>

(* Authenticate called by the program itself. *)
Authenticate(c) ==
  /\ pc[c] = "idle"
  /\ Send(c, "message")
  /\ UNCHANGED <<bearer, order, granted, header, adrift, outcome, serverVars>>

(* InvalidateAuth called by the program itself. *)
InvalidateAuth(c) ==
  /\ pc[c] = "idle"
  /\ bearer' = NoToken
  /\ UNCHANGED <<pc, order, wire, granted, header, adrift, outcome, serverVars>>

(* GetMarkets, GetMarketOrderbook, ListOrders, GetOrder, ListPositions and    *)
(* RemoveOrders: one exchange.  Nothing to ask for ends a call before that.  *)
Read(c) ==
  /\ pc[c] = "idle"
  /\ Send(c, "read")
  /\ UNCHANGED <<bearer, order, granted, header, adrift, outcome, serverVars>>

Answered(c) == wire[c] \in Replies

(* Whatever the answer, the call returns; a 401 leaves the bearer cached.    *)
ReturnFromRead(c) ==
  /\ pc[c] = "read"
  /\ Answered(c)
  /\ Finish(c, "unsent")
  /\ UNCHANGED <<bearer, header, adrift, serverVars>>

(* Mutation: every failure of the first submission is retried. *)
ReauthenticateOnAnyError(c) ==
  /\ pc[c] = "submit"
  /\ Answered(c)
  /\ Decode(wire[c]) # "ok"
  /\ bearer' = NoToken
  /\ Send(c, "message")
  /\ UNCHANGED <<order, granted, header, adrift, outcome, serverVars>>

(* Mutation: the retry recovers from a 401 too. *)
ReauthenticateAgain(c) ==
  /\ pc[c] \in {"submit", "retry"}
  /\ Answered(c)
  /\ Decode(wire[c]) = "apiError401"
  /\ bearer' = NoToken
  /\ Send(c, "message")
  /\ UNCHANGED <<order, granted, header, adrift, outcome, serverVars>>

(* The first submission is answered 401: InvalidateAuth, then Authenticate. *)
Reauthenticate(c) ==
  /\ pc[c] = "submit"
  /\ Answered(c)
  /\ Decode(wire[c]) = "apiError401"
  /\ bearer' = NoToken
  /\ Send(c, "message")
  /\ UNCHANGED <<order, granted, header, adrift, outcome, serverVars>>

(* Any other answer to a submission is the result of the call. *)
ReturnFromSubmit(c) ==
  /\ pc[c] \in {"submit", "retry"}
  /\ Answered(c)
  /\ pc[c] = "submit" => Decode(wire[c]) # "apiError401"
  /\ Finish(c, Reported(Decode(wire[c])))
  /\ UNCHANGED <<bearer, header, adrift, serverVars>>

(* GetAuthMessage succeeded: sign the message and PostAuth. *)
SignMessage(c) ==
  /\ pc[c] = "message"
  /\ wire[c] = "data"
  /\ c \notin Keyless
  /\ Send(c, "auth")
  /\ UNCHANGED <<bearer, order, granted, header, adrift, outcome, serverVars>>

(* Mutation: PostAuth forgets to write the token into the client. *)
DropToken(c) ==
  /\ pc[c] = "auth"
  /\ wire[c] = "data"
  /\ IF order[c] = NoOrder
       THEN Finish(c, "unsent")
       ELSE /\ pc' = [pc EXCEPT ![c] = "resubmit"]
            /\ wire' = [wire EXCEPT ![c] = "quiet"]
            /\ granted' = [granted EXCEPT ![c] = NoToken]
            /\ UNCHANGED <<order, outcome>>
  /\ UNCHANGED <<bearer, header, adrift, serverVars>>

(* PostAuth succeeded: the token replaces whatever is cached by now. *)
StoreToken(c) ==
  /\ pc[c] = "auth"
  /\ wire[c] = "data"
  /\ bearer' = granted[c]
  /\ IF order[c] = NoOrder
       THEN Finish(c, "unsent")
       ELSE /\ pc' = [pc EXCEPT ![c] = "resubmit"]
            /\ wire' = [wire EXCEPT ![c] = "quiet"]
            /\ granted' = [granted EXCEPT ![c] = NoToken]
            /\ UNCHANGED <<order, outcome>>
  /\ UNCHANGED <<header, adrift, serverVars>>

(* Authenticate failed: a blank message or token, an error, no key.  Inside *)
(* CreateLimitOrder the error returned wraps the 401 that came first.       *)
FailAuth(c) ==
  /\ pc[c] \in {"message", "auth"}
  /\ Answered(c)
  /\ wire[c] = "data" => pc[c] = "message" /\ c \in Keyless
  /\ Finish(c, "refused")
  /\ UNCHANGED <<bearer, header, adrift, serverVars>>

(* The retry of CreateOrder: the same order, with the bearer cached now. *)
Resubmit(c) ==
  /\ pc[c] = "resubmit"
  /\ SubmitOrder(c, order[c], "retry")
  /\ UNCHANGED <<bearer, order, granted, adrift, outcome, serverVars>>

(* Mutation: a timeout is reported as a refusal. *)
GiveUpAsRefused(c) ==
  /\ "lost" \in Faults
  /\ wire[c] # "quiet"
  /\ adrift' = IF wire[c] = "request" /\ pc[c] \in {"submit", "retry"}
                 THEN adrift \cup {order[c]}
                 ELSE adrift
  /\ Finish(c, "refused")
  /\ UNCHANGED <<bearer, header, serverVars>>

(* Mutation: an abandoned request is taken for an order whatever it was. *)
GiveUpAnything(c) ==
  /\ "lost" \in Faults
  /\ wire[c] # "quiet"
  /\ adrift' = IF wire[c] = "request" THEN adrift \cup {order[c]} ELSE adrift
  /\ Finish(c, IF pc[c] \in {"submit", "retry"} THEN "unknown" ELSE "refused")
  /\ UNCHANGED <<bearer, header, serverVars>>

(* The exchange fails: connection error, http.Client.Timeout, cancelled ctx. *)
GiveUp(c) ==
  /\ "lost" \in Faults
  /\ wire[c] # "quiet"
  /\ adrift' = IF wire[c] = "request" /\ pc[c] \in {"submit", "retry"}
                 THEN adrift \cup {order[c]}
                 ELSE adrift
  /\ Finish(c, IF pc[c] \in {"submit", "retry"} THEN "unknown" ELSE "refused")
  /\ UNCHANGED <<bearer, header, serverVars>>

-----------------------------------------------------------------------------
(***************************************************************************)
(* The server and the network (external).                                   *)
(***************************************************************************)

Reply(c, r) == wire' = [wire EXCEPT ![c] = r]

(* The server puts order o, sent by c, in the book. *)
AcceptOrder(c, o) ==
  /\ pc[c] \in {"submit", "retry"}
  /\ wire[c] = "request"
  /\ order[c] = o
  /\ header[o] \in valid
  /\ placed' = [placed EXCEPT ![o] = @ + 1]
  /\ \E r \in AcceptReplies : Reply(c, r)
  /\ UNCHANGED <<clientVars, granted, adrift, valid, revoked>>

(* It does not, either because of the token or for any other reason. *)
RefuseOrder(c) ==
  /\ pc[c] \in {"submit", "retry"}
  /\ wire[c] = "request"
  /\ \E r \in Replies :
       /\ \/ header[order[c]] \notin valid /\ r \in DeniedReplies
          \/ "refuse" \in Faults /\ r \in RefuseReplies
       /\ Reply(c, r)
  /\ UNCHANGED <<clientVars, granted, adrift, serverVars>>

(* An order whose caller has left is accepted, or never will be. *)
ServeAdrift(o) ==
  /\ o \in adrift
  /\ adrift' = adrift \ {o}
  /\ \/ /\ header[o] \in valid
        /\ placed' = [placed EXCEPT ![o] = @ + 1]
     \/ UNCHANGED placed
  /\ UNCHANGED <<clientVars, wire, granted, valid, revoked>>

ServeMessage(c) ==
  /\ pc[c] = "message"
  /\ wire[c] = "request"
  /\ \E r \in {"data"} \cup IF "refuse" \in Faults
                              THEN RefuseReplies \cup {"empty"} ELSE {} :
       Reply(c, r)
  /\ UNCHANGED <<clientVars, granted, adrift, serverVars>>

(* Whether a read needs a bearer, and has a good one, is left open. *)
ServeRead(c) ==
  /\ pc[c] = "read"
  /\ wire[c] = "request"
  /\ \E r \in {"data", "unauthorized"} \cup IF "refuse" \in Faults
                              THEN RefuseReplies \cup {"empty"} ELSE {} :
       Reply(c, r)
  /\ UNCHANGED <<clientVars, granted, adrift, serverVars>>

(* A token is handed out: a new one, or one that is still honoured. *)
IssueToken(c, t) ==
  /\ pc[c] = "auth"
  /\ wire[c] = "request"
  /\ t \notin revoked
  /\ valid' = valid \cup {t}
  /\ granted' = [granted EXCEPT ![c] = t]
  /\ Reply(c, "data")
  /\ UNCHANGED <<clientVars, adrift, revoked, placed>>

RefuseToken(c) ==
  /\ "refuse" \in Faults
  /\ pc[c] = "auth"
  /\ wire[c] = "request"
  /\ \E r \in RefuseReplies \cup {"empty"} : Reply(c, r)
  /\ UNCHANGED <<clientVars, granted, adrift, serverVars>>

(* A token expires, or the server drops it when it hands out another. *)
Revoke(t) ==
  /\ "revoke" \in Faults
  /\ t \in valid
  /\ valid' = valid \ {t}
  /\ revoked' = revoked \cup {t}
  /\ UNCHANGED <<clientVars, wire, granted, adrift, placed>>

-----------------------------------------------------------------------------
CallerStep(c) ==
  \/ Reauthenticate(c)
  \/ ReturnFromSubmit(c)
  \/ ReturnFromRead(c)
  \/ SignMessage(c)
  \/ StoreToken(c)
  \/ FailAuth(c)
  \/ Resubmit(c)
  \/ GiveUp(c)

ServeCaller(c) ==
  \/ \E o \in Orders : AcceptOrder(c, o)
  \/ RefuseOrder(c)
  \/ ServeMessage(c)
  \/ ServeRead(c)
  \/ \E t \in Tokens : IssueToken(c, t)
  \/ RefuseToken(c)

Next ==
  \/ \E c \in Callers :
       \/ \E o \in Orders : CreateLimitOrder(c, o)
       \/ Authenticate(c)
       \/ InvalidateAuth(c)
       \/ Read(c)
       \/ CallerStep(c)
       \/ ServeCaller(c)
  \/ \E o \in Orders : ServeAdrift(o)
  \/ \E t \in Tokens : Revoke(t)

Spec == Init /\ [][Next]_vars

(* A goroutine inside a call runs on, and an exchange ends: if not with a    *)
(* reply then with the timeout NewAPIClient puts on its http.Client (30 s).  *)
(* Nothing is assumed of the server.                                        *)
FairSpec == Spec /\ \A c \in Callers : WF_vars(CallerStep(c))

(* A server that answers what it is asked. *)
ServedSpec == FairSpec /\ \A c \in Callers : WF_vars(ServeCaller(c))

-----------------------------------------------------------------------------
(***************************************************************************)
(* Properties.                                                              *)
(***************************************************************************)

(* No order is in the book twice, although CreateLimitOrder posts it again   *)
(* after a 401 and a request may be served after its caller has left.        *)
AtMostOnce == \A o \in Orders : placed[o] <= 1

(* What CreateLimitOrder returned is true, and stays true: success only for  *)
(* an order in the book, and an APIError with a code or a failed             *)
(* re-authentication only for one that is not and never will be, so that     *)
(* calling it again with a new salt cannot double the position.  An APIError *)
(* of code 0 is no such answer: it may be a gateway's, to an order placed.   *)
HonestOutcome ==
  \A o \in Orders :
    /\ outcome[o] = "placed" => placed[o] = 1
    /\ outcome[o] \in {"unsent", "invalid", "refused"} =>
         placed[o] = 0 /\ o \notin adrift

(* The calls implement the promise of OrderPlacement. *)
Placement == INSTANCE OrderPlacement
               WITH Orders <- Orders, placed <- placed, outcome <- outcome
ImplementsPlacement == Placement!Spec

(* Every call of CreateLimitOrder or Authenticate returns, whatever the      *)
(* server answers: the 401 recovery cannot go round in circles.              *)
CallsReturn == \A c \in Callers : (pc[c] # "idle") ~> (pc[c] = "idle")

(* A single goroutine recovers from a stale or missing JWT by itself: the    *)
(* order it sends gets into the book, through the 401 recovery if need be.   *)
HealsItself ==
  \A o \in Orders : (outcome[o] = "pending") ~> (outcome[o] = "placed")

(* "Clear the dirty bearer" (api_orders.go:71, in Chinese): what              *)
(* CreateLimitOrder clears after a 401 is the bearer its refused request     *)
(* carried, or nothing; not one that another goroutine has fetched since.    *)
ClearsOnlyDirtyBearer ==
  [][\A c \in Callers :
       pc[c] = "submit" /\ pc'[c] = "message" =>
         bearer \in {NoToken, header[order[c]]}]_vars
=============================================================================
