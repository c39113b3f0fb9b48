------------------------- MODULE OrderSigningProofs -------------------------
(***************************************************************************)
(* Proofs about OrderSigning: orders, typed data and signed orders have     *)
(* their types, and what is signed stands before the exchange, for every    *)
(* set of builders and inputs, and however often typed data goes through    *)
(* JSON and a Predict account changes hands.  What CreateLimitOrder signs   *)
(* pays no more than is written.                                            *)
(***************************************************************************)
EXTENDS OrderSigning, WeiMathProofs, DecimalTextProofs

(***************************************************************************)
(* The inductive invariant.  TypeOK lets a side be any numeral; that it     *)
(* comes back from typed data as 0 or 1, that the chain can be read and that *)
(* the maker signs rests on what BuildTypedData puts there and on what JSON  *)
(* leaves of it.                                                            *)
(***************************************************************************)
WellTyped(td) ==
  /\ td.message.maker = td.message.signer
  /\ td.message.side.value \in {0, 1}
  /\ td.chain.form \in {"go", "float", "number"}

(* Who made the held order is its maker and its signer. *)
MadeBy ==
  order # NoOrder =>
    /\ order.maker = order.signer
    /\ built.by.account # Nobody => order.maker.of = built.by.account
    /\ order.expiration >= Seconds(built.at)

(* CreateLimitOrder has priced the order, and found its quantity sufficient.  *)
PricedFrom(p, amount) ==
  /\ amount = LimitInput(p).makerAmount
  /\ parseUnits(p.quantity, Decimals) >= MinQuantity

(* The signed order and its signature come from the same typed data. *)
SignedFrom ==
  signed # NoSignedOrder =>
    /\ WellTyped(signed.typed)
    /\ Signable(signed.builder, signed.typed)
    /\ signed.order = messageToOrder(signed.typed.message)
    /\ signed.signature = SignHash(signed.builder, BuildTypedDataHash(signed.typed))
    /\ signed.params # NoParams =>
         /\ signed.order.maker.of = AuthSigner(signed.builder)
         /\ PricedFrom(signed.params, signed.order.makerAmount)

(* A builder with a key and a Predict account has the key of its owner.      *)
Owned ==
  \A b \in builders :
    b.key # Nobody /\ b.account # Nobody /\ b \notin stale
      => owner[b.account] = b.key

Inv ==
  /\ TypeOK
  /\ typed # NoTypedData => WellTyped(typed)
  /\ MadeBy
  /\ SignedFrom
  /\ Owned

-----------------------------------------------------------------------------
(* The key and the account of a builder. *)
LEMMA BuilderParts ==
  ASSUME NEW b \in Builders
  PROVE  /\ b.key \in Wallets \cup {Nobody}
         /\ b.account \in Accounts \cup {Nobody}
         /\ b.chain \in Chains
         /\ b.generateSalt \in Numeral
BY SigningAssumption DEF Builder

(* A time in seconds is a natural number, and no later than a later one. *)
LEMMA SecondsOfTicks ==
  ASSUME NEW t \in Nat
  PROVE  /\ Seconds(t) \in Nat
         /\ \A u \in Nat : u <= t => Seconds(u) <= Seconds(t)
BY SigningAssumption, SMT DEF Seconds

(* What CreateLimitOrder passes to BuildOrder is one of its inputs. *)
LEMMA LimitInputIsInput ==
  ASSUME NEW p \in Params
  PROVE  LimitInput(p) \in BuildOrderInput
<1> DEFINE price == parseUnits(p.price, Decimals)
           quantity == parseUnits(p.quantity, Decimals)
<1>1. price \in Int /\ quantity \in Int /\ p.tokenId \in Numeral /\ FarFuture \in Nat
  <2>1. p.price \in Text /\ p.quantity \in Text /\ p.tokenId \in Numeral
    BY SigningAssumption DEF LimitOrderParams
  <2> QED
    BY <2>1, ParseIsInt, SigningAssumption
<1> HIDE DEF price, quantity
<1>2. LimitPrice(price) \in Int /\ LimitQuantity(quantity) \in Int
  BY <1>1, RetainedIsInt, MathAssumption DEF LimitPrice, LimitQuantity
<1>3. LimitPrice(price) * LimitQuantity(quantity) \in Int
  BY <1>2, SMT
<1>4. LimitValue(price, quantity) \in Int
  BY <1>3, MathAssumption, SMT DEF LimitValue
<1>5. Empty \in AddressText
  BY DEF Empty, Hex, AddressText
<1> QED
  BY <1>1, <1>2, <1>4, <1>5 DEF LimitInput, BuildOrderInput, price, quantity

(* BuildOrder makes an order whose maker signs: the Predict account if there *)
(* is one, otherwise the signer, from which the maker of the input does not  *)
(* differ.  It has not expired to the second.                               *)
LEMMA OrderBuilt ==
  ASSUME NEW b \in Builders, NEW data \in BuildOrderInput, clock \in Nat,
         Acceptable(b, data)
  PROVE  LET o == BuildOrder(b, data)
         IN  /\ o \in Order
             /\ o.maker = o.signer
             /\ b.account # Nobody => o.maker = Hex(b.account)
             /\ b.account = Nobody => o.maker = Signer(b, data)
             /\ o.makerAmount = data.makerAmount
             /\ o.expiration >= Seconds(clock)
<1> DEFINE salt == IF data.salt # NoSalt THEN Decimal(data.salt) ELSE b.generateSalt
           maker == IF b.account # Nobody THEN Hex(b.account)
                    ELSE IF data.maker # Empty THEN data.maker ELSE Signer(b, data)
           signer == IF b.account # Nobody THEN Hex(b.account) ELSE Signer(b, data)
           end == IF data.strategy = "MARKET" THEN Seconds(clock) + MarketLife
                                              ELSE Seconds(data.expiresAt)
<1>1. /\ data.side \in {0, 1} /\ data.tokenId \in Numeral
      /\ data.makerAmount \in Int /\ data.takerAmount \in Int
      /\ data.expiresAt \in Nat /\ data.signer \in AddressText
      /\ data.salt # NoSalt => data.salt \in Int
  BY DEF BuildOrderInput
<1>2. maker = signer
  BY DEF Acceptable
<1>3. signer \in AddressText
  BY <1>1, BuilderParts DEF Signer, Hex, AddressText, Addresses
<1>4. salt \in Numeral
  BY <1>1, BuilderParts DEF Decimal, Numeral
<1>5. /\ Seconds(clock) \in Nat
      /\ Seconds(data.expiresAt) \in Nat
      /\ clock <= data.expiresAt => Seconds(clock) <= Seconds(data.expiresAt)
  BY <1>1, SecondsOfTicks
<1>6. data.strategy # "MARKET" => clock <= data.expiresAt
  BY <1>1 DEF Acceptable
<1>7. end \in Int /\ end >= Seconds(clock)
  BY <1>5, <1>6, SigningAssumption
<1>8. BuildOrder(b, data) =
        [salt |-> salt, side |-> data.side, tokenId |-> data.tokenId,
         makerAmount |-> data.makerAmount, takerAmount |-> data.takerAmount,
         maker |-> maker, signer |-> signer, expiration |-> end]
  BY DEF BuildOrder
<1> HIDE DEF end, maker, salt
<1>9. BuildOrder(b, data) \in Order
  <2> HIDE DEF signer
  <2> QED
    BY <1>1, <1>2, <1>3, <1>4, <1>7, <1>8 DEF Order
<1> QED
  BY <1>2, <1>7, <1>8, <1>9

(* Typed data of an order is well typed, ... *)
LEMMA OrderTyped ==
  ASSUME NEW b \in Builders, NEW o \in Order, NEW market \in Markets,
         o.maker = o.signer
  PROVE  /\ BuildTypedData(b, o, market) \in EIP712TypedData
         /\ WellTyped(BuildTypedData(b, o, market))
         /\ BuildTypedData(b, o, market).message.maker = o.maker
         /\ BuildTypedData(b, o, market).message.makerAmount = o.makerAmount
<1>1. orderToMessage(o) \in Message /\ orderToMessage(o).side.value \in {0, 1}
      /\ orderToMessage(o).maker = o.maker
      /\ orderToMessage(o).signer = o.signer
      /\ orderToMessage(o).makerAmount = o.makerAmount
  BY DEF orderToMessage, Order, Message, Decimal, Numeral
<1>2. [form |-> "go", value |-> b.chain] \in Numeral
  BY BuilderParts, SigningAssumption DEF Numeral
<1> QED
  BY <1>1, <1>2 DEF BuildTypedData, EIP712TypedData, WellTyped

(* ... and gives an order back. *)
LEMMA OrderReturned ==
  ASSUME NEW td \in EIP712TypedData, WellTyped(td)
  PROVE  /\ messageToOrder(td.message) \in Order
         /\ messageToOrder(td.message).maker = td.message.maker
         /\ messageToOrder(td.message).signer = td.message.signer
         /\ messageToOrder(td.message).makerAmount = td.message.makerAmount
BY DEF EIP712TypedData, WellTyped, messageToOrder, toUint8, Message, Order, Numeral

-----------------------------------------------------------------------------
(* The invariant holds at the start. *)
LEMMA InitInv == Init => Inv
<1> SUFFICES ASSUME Init PROVE Inv
  OBVIOUS
<1> QED
  BY DEF Init, Inv, TypeOK, MadeBy, SignedFrom, Owned

(* A step that touches nothing the program holds keeps what is said of it,   *)
(* if the builders stay and time does not go back.                          *)
LEMMA BesideTheHeld ==
  ASSUME Inv, UNCHANGED held, clock' \in Nat, clock <= clock',
         builders \subseteq builders', builders' \subseteq Builders,
         stale' \subseteq builders', owner' \in [Accounts -> Wallets], Owned'
  PROVE  Inv'
<1>1. TypeOK'
  BY DEF Inv, TypeOK, held
<1>2. (typed # NoTypedData => WellTyped(typed))'
  BY DEF Inv, held, WellTyped
<1>3. MadeBy'
  BY DEF Inv, MadeBy, held, Seconds
<1>4. SignedFrom'
  BY DEF Inv, SignedFrom, held, WellTyped, Signable, messageToOrder, toUint8,
         SignHash, BuildTypedDataHash, Encodes, Hash, toInt64, AuthSigner, Addresses
<1> QED
  BY <1>1, <1>2, <1>3, <1>4 DEF Inv

(* A builder with a key that does not own its Predict account is not made. *)
LEMMA NewBuilderInv ==
  ASSUME Inv, NEW b \in Builders,
         NewOrderBuilder(b) \/ NewOrderBuilderWithSigner(b)
  PROVE  Inv'
<1>1. /\ UNCHANGED <<clock, owner, held>>
      /\ builders' = builders \cup {b}
      /\ stale' \subseteq builders' /\ stale \subseteq stale' \cup {b}
      /\ b.key # Nobody /\ b.account # Nobody => owner[b.account] = b.key
  BY DEF NewOrderBuilder, NewOrderBuilderWithSigner, readECDSAValidatorOwner,
         Inv, TypeOK
<1>2. Owned'
  BY <1>1 DEF Inv, Owned
<1> QED
  BY <1>1, <1>2, BesideTheHeld DEF Inv, TypeOK

(* Time passes. *)
LEMMA TickInv == Inv /\ Tick => Inv'
<1> SUFFICES ASSUME Inv, Tick PROVE Inv'
  OBVIOUS
<1>1. clock' \in Nat /\ clock <= clock'
  BY DEF Tick, Inv, TypeOK
<1>2. Owned'
  BY DEF Tick, Inv, Owned
<1> QED
  BY <1>1, <1>2, BesideTheHeld DEF Tick, Inv, TypeOK

(* A Predict account changes hands: its builders are stale. *)
LEMMA ChangeOwnerInv ==
  ASSUME Inv, NEW a \in Accounts, NEW w \in Wallets, ChangeOwner(a, w)
  PROVE  Inv'
<1>1. /\ UNCHANGED <<clock, builders, held>>
      /\ owner' = [owner EXCEPT ![a] = w]
      /\ stale' = stale \cup {b \in builders : b.account = a}
  BY DEF ChangeOwner
<1>2. owner \in [Accounts -> Wallets] /\ builders \subseteq Builders
  BY DEF Inv, TypeOK
<1>3. owner' \in [Accounts -> Wallets]
  BY <1>1, <1>2
<1>4. Owned'
  <2> SUFFICES ASSUME NEW b \in builders,
                      b.key # Nobody, b.account # Nobody, b \notin stale'
               PROVE  owner'[b.account] = b.key
    BY <1>1 DEF Owned
  <2>1. b.account # a /\ b \notin stale
    BY <1>1
  <2>2. owner[b.account] = b.key /\ b.account \in Accounts
    BY <1>2, <2>1, BuilderParts DEF Inv, Owned
  <2> QED
    BY <1>1, <1>2, <2>1, <2>2
<1> QED
  BY <1>1, <1>2, <1>3, <1>4, BesideTheHeld DEF Inv, TypeOK

(* Only an order is held: BuildOrder. *)
LEMMA BuildInv ==
  ASSUME Inv, NEW b \in builders, NEW data \in Inputs, Build(b, data)
  PROVE  Inv'
<1>1. b \in Builders /\ data \in BuildOrderInput /\ clock \in Nat
  BY SigningAssumption DEF Inv, TypeOK
<1> DEFINE o == BuildOrder(b, data)
<1>2. /\ o \in Order /\ o.maker = o.signer /\ o.expiration >= Seconds(clock)
      /\ b.account # Nobody => o.maker = Hex(b.account)
  BY <1>1, OrderBuilt DEF Build
<1>3. /\ order' = o /\ typed' = NoTypedData /\ signed' = NoSignedOrder
      /\ built' = [by |-> b, at |-> clock]
      /\ UNCHANGED <<clock, owner, builders, stale>>
  BY DEF Build, Hold
<1> HIDE DEF o
<1>4. TypeOK'
  BY <1>1, <1>2, <1>3 DEF Inv, TypeOK
<1>5. MadeBy'
  BY <1>2, <1>3 DEF MadeBy, Hex
<1> QED
  BY <1>3, <1>4, <1>5 DEF Inv, SignedFrom, Owned

(* Only typed data is held: BuildTypedData and JSON. *)
LEMMA TypedInv ==
  ASSUME Inv, NEW td \in EIP712TypedData, WellTyped(td),
         Hold(NoOrder, td, NoSignedOrder)
  PROVE  Inv'
<1>1. /\ order' = NoOrder /\ typed' = td /\ signed' = NoSignedOrder
      /\ UNCHANGED <<clock, owner, builders, stale>>
  BY DEF Hold
<1>2. TypeOK'
  BY <1>1 DEF Inv, TypeOK
<1> QED
  BY <1>1, <1>2 DEF Inv, MadeBy, SignedFrom, Owned, WellTyped

(* JSON changes how the chain and the side are written, not what they are. *)
LEMMA JSONInv == Inv /\ PassThroughJSON => Inv'
<1> SUFFICES ASSUME Inv, PassThroughJSON PROVE Inv'
  OBVIOUS
<1>1. typed \in EIP712TypedData /\ WellTyped(typed)
  BY DEF PassThroughJSON, Inv, TypeOK
<1>2. PICK f \in {"float", "number"}, g \in {"decimal", "hex", "float"} :
        Hold(NoOrder, [typed EXCEPT !.chain.form = f, !.message.side.form = g],
             NoSignedOrder)
  BY DEF PassThroughJSON
<1> DEFINE td == [typed EXCEPT !.chain.form = f, !.message.side.form = g]
<1>3. typed.chain \in Numeral /\ typed.message \in Message
      /\ typed.message.side \in Numeral
  BY <1>1 DEF EIP712TypedData, Message
<1>4. [typed.chain EXCEPT !.form = f] \in Numeral
      /\ [typed.message.side EXCEPT !.form = g] \in Numeral
  BY <1>3 DEF Numeral
<1>5. td \in EIP712TypedData /\ WellTyped(td)
  BY <1>1, <1>3, <1>4 DEF EIP712TypedData, Message, Numeral, WellTyped
<1> QED
  BY <1>2, <1>5, TypedInv

(* Only a signed order is held: SignTypedDataOrder and CreateLimitOrder. *)
LEMMA SignedInv ==
  ASSUME Inv, NEW b \in builders, NEW td \in EIP712TypedData, WellTyped(td),
         Signable(b, td), NEW p \in Params \cup {NoParams},
         p # NoParams => /\ td.message.maker.of = AuthSigner(b)
                         /\ PricedFrom(p, td.message.makerAmount),
         Hold(NoOrder, NoTypedData, SignedOrder(b, td, p))
  PROVE  Inv'
<1> DEFINE s == SignedOrder(b, td, p)
<1>1. /\ order' = NoOrder /\ typed' = NoTypedData /\ signed' = s
      /\ UNCHANGED <<clock, owner, builders, stale>>
  BY DEF Hold
<1>2. /\ s.order = messageToOrder(td.message) /\ s.typed = td
      /\ s.builder = b /\ s.params = p
      /\ s.signature = SignHash(b, BuildTypedDataHash(td))
  BY DEF SignedOrder
<1> HIDE DEF s
<1>3. /\ s.order \in Order /\ s.order.maker = td.message.maker
      /\ s.order.makerAmount = td.message.makerAmount
  BY <1>2, OrderReturned
<1>4. TypeOK'
  BY <1>1, <1>2, <1>3 DEF Inv, TypeOK
<1>5. SignedFrom'
  BY <1>1, <1>2, <1>3 DEF SignedFrom
<1> QED
  BY <1>1, <1>4, <1>5 DEF Inv, MadeBy, Owned

(* CreateLimitOrder orders for the account it authenticates as. *)
LEMMA CreateLimitInv ==
  ASSUME Inv, NEW b \in builders, NEW p \in Params, CreateLimitOrder(b, p)
  PROVE  Inv'
<1> DEFINE data == LimitInput(p)
           o == BuildOrder(b, data)
           td == BuildTypedData(b, o, p.market)
<1>1. /\ b \in Builders /\ data \in BuildOrderInput /\ clock \in Nat
      /\ p.market \in Markets
  BY LimitInputIsInput, SigningAssumption DEF Inv, TypeOK, LimitOrderParams
<1>2. /\ Acceptable(b, data) /\ Signable(b, td)
      /\ Hold(NoOrder, NoTypedData, SignedOrder(b, td, p))
  BY DEF CreateLimitOrder
<1>3. data.signer = Empty /\ PricedFrom(p, data.makerAmount)
  BY DEF LimitInput, CreateLimitOrder, PricedFrom
<1> HIDE DEF data
<1>4. /\ o \in Order /\ o.maker = o.signer
      /\ b.account # Nobody => o.maker = Hex(b.account)
      /\ b.account = Nobody => o.maker = Signer(b, data)
      /\ o.makerAmount = data.makerAmount
  BY <1>1, <1>2, OrderBuilt
<1>5. o.maker.of = AuthSigner(b)
  BY <1>3, <1>4 DEF Signer, Hex, AuthSigner
<1> HIDE DEF o
<1>6. /\ td \in EIP712TypedData /\ WellTyped(td) /\ td.message.maker = o.maker
      /\ td.message.makerAmount = o.makerAmount
  BY <1>1, <1>4, OrderTyped
<1> HIDE DEF td
<1> QED
  BY <1>2, <1>3, <1>4, <1>5, <1>6, SignedInv

(* Every step keeps the invariant. *)
LEMMA NextInv == Inv /\ [Next]_vars => Inv'
<1> SUFFICES ASSUME Inv, [Next]_vars PROVE Inv'
  OBVIOUS
<1>1. ASSUME NEW b \in builders, NEW market \in Markets, TypeData(b, market)
      PROVE  Inv'
  <2>1. b \in Builders /\ order \in Order /\ order.maker = order.signer
    BY <1>1 DEF Inv, TypeOK, MadeBy, TypeData
  <2> QED
    BY <1>1, <2>1, OrderTyped, TypedInv DEF TypeData
<1>2. ASSUME NEW b \in builders, SignTypedDataOrder(b) PROVE Inv'
  <2>1. typed \in EIP712TypedData /\ WellTyped(typed)
    BY <1>2 DEF Inv, TypeOK, SignTypedDataOrder
  <2> QED
    BY <1>2, <2>1, SignedInv DEF SignTypedDataOrder
<1>3. CASE Next
  BY <1>1, <1>2, <1>3, NewBuilderInv, BuildInv, CreateLimitInv, JSONInv,
     TickInv, ChangeOwnerInv DEF Next
<1>4. CASE UNCHANGED vars
  <2>1. Owned'
    BY <1>4 DEF vars, Inv, Owned
  <2> QED
    BY <1>4, <2>1, BesideTheHeld DEF vars, Inv, TypeOK
<1> QED
  BY <1>3, <1>4

(* The invariant holds in every reachable state. *)
THEOREM Invariance == Spec => []Inv
BY InitInv, NextInv, PTL DEF Spec

(* Orders, typed data and signed orders have their types: a side is 0 or 1   *)
(* again when it comes back from typed data.                                *)
THEOREM TypeCorrect == Spec => []TypeOK
<1>1. Inv => TypeOK
  BY DEF Inv
<1> QED
  BY <1>1, Invariance, PTL

(* The maker of an order signs it, as it is built, typed and signed: the      *)
(* Predict account if there is one, otherwise whom the input names, because   *)
(* BuildOrder refuses a maker that is not the signer.                       *)
THEOREM TheMakerSigns == Spec => []MakerSigns
<1>1. Inv => MakerSigns
  <2> SUFFICES ASSUME Inv PROVE MakerSigns
    OBVIOUS
  <2>1. signed # NoSignedOrder =>
          /\ signed.typed \in EIP712TypedData /\ WellTyped(signed.typed)
          /\ signed.order = messageToOrder(signed.typed.message)
    BY DEF Inv, TypeOK, SignedFrom
  <2>2. signed # NoSignedOrder => signed.order.maker = signed.order.signer
    BY <2>1, OrderReturned DEF WellTyped
  <2> QED
    BY <2>2 DEF Inv, MadeBy, WellTyped, MakerSigns
<1> QED
  BY <1>1, Invariance, PTL

(* An order just built has not expired, to the second.                      *)
THEOREM BornUnexpired == Spec => []NotBornExpired
<1>1. Inv => NotBornExpired
  BY DEF Inv, MadeBy, NotBornExpired
<1> QED
  BY <1>1, Invariance, PTL

(* The signature of a builder that is not stale stands: a wallet is who its  *)
(* key says, a Predict account is owned by the key.                         *)
LEMMA BuilderStands ==
  ASSUME Inv, NEW b \in builders, b.key # Nobody, b \notin stale, NEW hash
  PROVE  Stands(AuthSigner(b), SignHash(b, hash), hash, b.chain)
<1>1. b.key \in Wallets /\ b.account \in Accounts \cup {Nobody}
  BY BuilderParts DEF Inv, TypeOK
<1>2. CASE b.account = Nobody
  <2>1. AuthSigner(b) = b.key /\ b.key \notin Accounts
    BY <1>1, <1>2, SigningAssumption DEF AuthSigner
  <2> QED
    BY <1>2, <2>1 DEF Stands, SignHash, EIP712WrapHash, Unwrapped
<1>3. CASE b.account # Nobody
  <2>1. AuthSigner(b) = b.account /\ b.account \in Accounts
    BY <1>1, <1>3 DEF AuthSigner
  <2>2. owner[b.account] = b.key
    BY <1>3 DEF Inv, Owned
  <2> QED
    BY <1>3, <2>1, <2>2 DEF Stands, SignHash, EIP712WrapHash, Unwrapped
<1> QED
  BY <1>2, <1>3

(* The numbers of a signed order are those that were hashed, if its side was  *)
(* not written in hexadecimal.                                              *)
LEMMA TupleOfSigned ==
  ASSUME Inv, signed # NoSignedOrder,
         signed.typed.message.side.form # "hex",
         NEW chain, NEW contract
  PROVE  orderToTuple(signed.order, chain, contract) =
           Hash(chain, contract, signed.typed.message.side.value,
                signed.typed.message)
<1> DEFINE m == signed.typed.message
<1>1. signed.order = [m EXCEPT !.side = toUint8(m.side)]
  BY DEF Inv, SignedFrom, messageToOrder
<1>2. m \in Message /\ m.side \in Numeral
  BY DEF Inv, TypeOK, EIP712TypedData, Message
<1>3. m.side.form \in {"decimal", "float"}
  BY DEF Inv, SignedFrom, Signable, Encodes
<1>4. toUint8(m.side) = m.side.value
  BY <1>3 DEF toUint8
<1> HIDE DEF m
<1>5. /\ signed.order.side = m.side.value
      /\ signed.order.salt = m.salt
      /\ signed.order.tokenId = m.tokenId
      /\ signed.order.makerAmount = m.makerAmount
      /\ signed.order.takerAmount = m.takerAmount
      /\ signed.order.maker = m.maker
      /\ signed.order.signer = m.signer
      /\ signed.order.expiration = m.expiration
  BY <1>1, <1>2, <1>4 DEF Message
<1> QED
  BY <1>5 DEF orderToTuple, Hash, m

(* What a builder signs stands before the exchange it was typed for, however *)
(* the typed data was written, until the Predict account changes hands.     *)
THEOREM SignaturesStand == Spec => []SignatureStands
<1>1. Inv => SignatureStands
  <2> DEFINE b == signed.builder
             td == signed.typed
             hash == BuildTypedDataHash(td)
  <2> SUFFICES ASSUME Inv, signed # NoSignedOrder,
                      b \notin stale,
                      b.account # Nobody => td.chain.value = b.chain,
                      td.chain.form # "number", td.message.side.form # "hex"
               PROVE  Stands(AuthSigner(b), signed.signature,
                             orderToTuple(signed.order, td.chain.value, td.contract),
                             td.chain.value)
    BY DEF SignatureStands
  <2>1. /\ b \in builders /\ b.key # Nobody
        /\ signed.signature = SignHash(b, hash)
        /\ td.chain.form \in {"go", "float"}
    BY DEF Inv, TypeOK, SignedFrom, Signable, WellTyped
  <2>2. hash = orderToTuple(signed.order, td.chain.value, td.contract)
    BY <2>1, TupleOfSigned DEF BuildTypedDataHash, toInt64
  <2>3. Stands(AuthSigner(b), signed.signature, hash, b.chain)
    BY <2>1, BuilderStands
  <2>4. b.account = Nobody => AuthSigner(b) \notin Accounts
    BY <2>1, BuilderParts, SigningAssumption DEF AuthSigner, Inv, TypeOK
  <2> HIDE DEF hash
  <2>5. Stands(AuthSigner(b), signed.signature, hash, td.chain.value)
    BY <2>3, <2>4 DEF Stands
  <2> QED
    BY <2>2, <2>5
<1> QED
  BY <1>1, Invariance, PTL

(* What CancelOrders makes of a signed order hashes to what was signed.      *)
THEOREM SignedIsCancellable == Spec => []Cancellable
<1>1. Inv => Cancellable
  <2> DEFINE td == signed.typed
             over == BuildTypedDataHash(td)
             committed == signed.signature.digest.over
  <2> SUFFICES ASSUME Inv, signed # NoSignedOrder,
                      Parsable(td.message),
                      td.message.side.form # "hex"
               PROVE  /\ Parsable(signed.order)
                      /\ orderToTuple(signed.order, committed.chain,
                                      committed.contract) = committed
    BY DEF Cancellable
  <2>1. committed = over
    BY DEF Inv, SignedFrom, SignHash, EIP712WrapHash, Unwrapped
  <2>2. over.chain = toInt64(td.chain) /\ over.contract = td.contract
    BY DEF BuildTypedDataHash, Hash
  <2>3. orderToTuple(signed.order, over.chain, over.contract) = over
    BY <2>2, TupleOfSigned DEF BuildTypedDataHash
  <2>4. Parsable(signed.order)
    <3>1. td.message \in Message
      BY DEF Inv, TypeOK, EIP712TypedData
    <3>2. /\ signed.order.tokenId = td.message.tokenId
          /\ signed.order.salt = td.message.salt
      BY <3>1 DEF Inv, SignedFrom, messageToOrder, Message
    <3> QED
      BY <3>2 DEF Parsable
  <2> QED
    BY <2>1, <2>3, <2>4
<1> QED
  BY <1>1, Invariance, PTL

(* CreateLimitOrder orders for the account whose session it uses after a     *)
(* 401, and can log it in.                                                  *)
THEOREM SessionIsTheMakers == Spec => []SessionOfTheMaker
<1>1. Inv => SessionOfTheMaker
  <2> SUFFICES ASSUME Inv, signed # NoSignedOrder, signed.params # NoParams
               PROVE  LET b == signed.builder
                      IN  /\ signed.order.maker.of = AuthSigner(b)
                          /\ b \notin stale =>
                               Stands(AuthSigner(b), SignHash(b, "login"),
                                      "login", b.chain)
    BY DEF SessionOfTheMaker
  <2>1. /\ signed.builder \in builders /\ signed.builder.key # Nobody
        /\ signed.order.maker.of = AuthSigner(signed.builder)
    BY DEF Inv, TypeOK, SignedFrom, Signable
  <2> QED
    BY <2>1, BuilderStands
<1> QED
  BY <1>1, Invariance, PTL

-----------------------------------------------------------------------------
(* Arithmetic: what is paid for a product of two amounts, each at most what   *)
(* is written of it.                                                        *)
LEMMA ProductAsWritten ==
  ASSUME NEW paid \in Nat, NEW u \in Nat \ {0},
         NEW p \in Nat, NEW dp \in Nat, NEW np \in Nat, p * dp <= np * u,
         NEW q \in Nat, NEW dq \in Nat, NEW nq \in Nat, q * dq <= nq * u,
         paid * u <= p * q
  PROVE  paid * dp * dq <= np * nq * u
<1> DEFINE a == p * dp
           b == q * dq
           c == np * u
           d == nq * u
           dd == dp * dq
           x == paid * dd
           y == np * nq * u
<1>1. a \in Nat /\ b \in Nat /\ c \in Nat /\ d \in Nat /\ dd \in Nat
      /\ p * q \in Nat /\ paid * u \in Nat /\ np * nq \in Nat
  BY ProductIsNat
<1>2. a * b <= c * d
  <2> HIDE DEF a, b, c, d
  <2>1. a <= c /\ b <= d
    BY DEF a, b, c, d
  <2> QED
    BY <1>1, <2>1, ProductsMonotone
<1>3. (paid * u) * dd <= (p * q) * dd
  <2> HIDE DEF dd
  <2> QED
    BY <1>1, ProductMonotone
<1>4. (p * q) * dd = a * b
  <2>1. (p * q) * (dp * dq) = (p * dp) * (q * dq)
    BY FourFactors
  <2> QED
    BY <2>1
<1>5. c * d = (np * nq) * (u * u)
  BY FourFactors
<1>6. (paid * u) * dd = x * u
  <2> HIDE DEF dd
  <2> QED
    BY <1>1, SMT
<1>7. (np * nq) * (u * u) = y * u
  <2> DEFINE n == np * nq
  <2> HIDE DEF n
  <2>1. n \in Nat
    BY <1>1 DEF n
  <2>2. n * (u * u) = (n * u) * u
    BY <2>1, SMT
  <2> QED
    BY <2>2 DEF n
<1>8. x \in Nat /\ y \in Nat
  <2> HIDE DEF dd
  <2> QED
    BY <1>1, ProductIsNat
<1>9. x = paid * dp * dq
  BY SMT
<1> HIDE DEF a, b, c, d, dd, x, y
<1>10. (p * q) * dd \in Nat /\ (paid * u) * dd \in Nat /\ c * d \in Nat
  BY <1>1, ProductIsNat
<1>11. x * u <= y * u
  BY <1>2, <1>3, <1>4, <1>5, <1>6, <1>7, <1>10
<1>12. x <= y
  BY <1>8, <1>11, ProductCancels
<1> QED
  BY <1>9, <1>12 DEF y

(* What a limit order of positive quantity is signed to pay: at most what is  *)
(* written, if it can be read.                                              *)
LEMMA LimitAsWritten ==
  ASSUME Unit = TenTo[Decimals], NEW p \in Params,
         Short(p.price, Decimals), Short(p.quantity, Decimals),
         NEW paid \in Nat, PricedFrom(p, paid)
  PROVE  IF Legible(p.price, Decimals) /\ Legible(p.quantity, Decimals)
           THEN paid * Denominator(p.price) * Denominator(p.quantity)
                  <= Numerator(p.price) * Numerator(p.quantity) * Unit
           ELSE paid = 0
<1> DEFINE price == parseUnits(p.price, Decimals)
           quantity == parseUnits(p.quantity, Decimals)
           dp == Denominator(p.price)
           np == Numerator(p.price)
           dq == Denominator(p.quantity)
           nq == Numerator(p.quantity)
           m == Magnitude(p.price, Decimals)
           k == Magnitude(p.quantity, Decimals)
<1>1. /\ p.price \in Text /\ p.quantity \in Text
      /\ Decimals \in Nat /\ Unit \in Nat \ {0} /\ MinQuantity \in Nat \ {0}
  BY SigningAssumption, MathAssumption DEF LimitOrderParams
<1>2. price \in {0, m, 0 - m} /\ quantity \in {0, k, 0 - k}
  BY <1>1, ParseIsInt, ParsesMagnitude
<1>3. /\ m \in Nat /\ np \in Nat /\ dp \in Nat /\ m * dp <= np * Unit
      /\ k \in Nat /\ nq \in Nat /\ dq \in Nat /\ k * dq <= nq * Unit
  BY <1>1, WrittenValue, MagnitudeRoundsDown
<1>4. ~Legible(p.price, Decimals) => price = 0
  BY <1>1, IllegibleIsNothing
<1>5. ~Legible(p.quantity, Decimals) => quantity = 0
  BY <1>1, IllegibleIsNothing
<1>6. paid = LimitValue(price, quantity) /\ quantity >= MinQuantity
  BY DEF PricedFrom, LimitInput
<1>7. price \in Int /\ quantity \in Int
  BY <1>1, ParseIsInt
<1> HIDE DEF price, quantity, dp, np, dq, nq, m, k
<1>8. quantity = k /\ quantity \in Nat /\ quantity # 0
  <2>1. quantity > 0
    BY <1>1, <1>6, <1>7
  <2> QED
    BY <1>2, <1>3, <2>1
<1>9. CASE price <= 0
  <2>1. paid <= 0
    BY <1>6, <1>7, <1>8, <1>9, NoPriceNoValue
  <2>2. paid = 0
    BY <2>1
  <2>3. 0 * dp * dq <= np * nq * Unit
    <3>1. np * nq \in Nat /\ np * nq * Unit \in Nat
      BY <1>1, <1>3, ProductIsNat
    <3>2. 0 * dp * dq = 0
      BY <1>3
    <3> QED
      BY <3>1, <3>2
  <2> QED
    BY <2>2, <2>3 DEF dp, np, dq, nq
<1>10. CASE price > 0
  <2>1. price = m
    BY <1>2, <1>3, <1>10
  <2>2. Legible(p.price, Decimals) /\ Legible(p.quantity, Decimals)
    BY <1>4, <1>5, <1>8, <1>10
  <2>3. paid * Unit <= m * k
    BY <1>3, <1>6, <1>8, <2>1, LimitIsLess
  <2>4. paid * dp * dq <= np * nq * Unit
    BY <1>1, <1>3, <2>3, ProductAsWritten
  <2> QED
    BY <2>2, <2>4 DEF dp, np, dq, nq
<1> QED
  BY <1>7, <1>9, <1>10

(* CreateLimitOrder does not sign to pay more than the price and the quantity *)
(* as they are written come to, but for their signs, and nothing for one it   *)
(* cannot read: for every text without an exponent, every text with one that  *)
(* has a bit less than a float, every number of decimals and of significant  *)
(* digits, if the precision of the builder is that of the collateral.       *)
THEOREM LimitOrderPaysAsWritten ==
  ASSUME Unit = TenTo[Decimals]
  PROVE  Spec => []PaysAtMostAsWritten
<1>1. Inv => PaysAtMostAsWritten
  <2> DEFINE p == signed.params
             paid == signed.order.makerAmount
  <2> SUFFICES ASSUME Inv, signed # NoSignedOrder, p # NoParams,
                      Short(p.price, Decimals), Short(p.quantity, Decimals)
               PROVE  IF Legible(p.price, Decimals) /\ Legible(p.quantity, Decimals)
                        THEN paid * Denominator(p.price) * Denominator(p.quantity)
                               <= Numerator(p.price) * Numerator(p.quantity) * Unit
                        ELSE paid = 0
    BY DEF PaysAtMostAsWritten
  <2>1. p \in Params /\ PricedFrom(p, paid)
    BY DEF Inv, TypeOK, SignedFrom
  <2>2. paid \in Nat
    <3>1. signed.typed \in EIP712TypedData /\ WellTyped(signed.typed)
      BY DEF Inv, TypeOK, SignedFrom
    <3>2. paid = signed.typed.message.makerAmount
      BY <3>1, OrderReturned DEF Inv, SignedFrom
    <3>3. signed.typed.message.makerAmount \in Int
      BY <3>1 DEF EIP712TypedData, Message
    <3>4. signed.typed.message.makerAmount >= 0
      BY DEF Inv, SignedFrom, Signable, Encodes
    <3> QED
      BY <3>2, <3>3, <3>4
  <2> HIDE DEF p, paid
  <2> QED
    BY <2>1, <2>2, LimitAsWritten
<1> QED
  BY <1>1, Invariance, PTL
=============================================================================
