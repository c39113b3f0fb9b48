---------------------------- MODULE OrderSigning ----------------------------
(***************************************************************************)
(* From a request to a signed order: OrderBuilder's construction,           *)
(* BuildOrder, BuildTypedData, SignTypedDataOrder and SignAuthMessage, and   *)
(* CreateLimitOrder, which runs them in a row before it posts.              *)
(*                                                                          *)
(* A program holds several builders: with or without a key, for the key's   *)
(* own address or for a Predict account.  It may build an order with one    *)
(* and sign it with another, and pass typed data through JSON in between.   *)
(* The exchange, which checks signatures, and the owner of a Predict        *)
(* account, who may change, are external.  Hashes are what they commit to,  *)
(* a key is the address it belongs to.                                      *)
(***************************************************************************)
EXTENDS DecimalText, WeiMath, FiniteSets

CONSTANTS
  Wallets,         \* addresses with a key of their own
  Accounts,        \* Predict accounts: smart wallets owned by a wallet
  Nobody,          \* the empty address, no key, no account
  Chains,          \* chain IDs
  Markets,         \* kinds of market; each has an exchange contract
  Builders,        \* the builders the program may make
  Inputs,          \* the BuildOrderInputs of the program
  Params,          \* the LimitOrderParams of the program
  Decimals,        \* of the collateral: 18
  TicksPerSecond,  \* resolution of time.Now
  MarketLife,      \* FiveMinutesSeconds
  FarFuture,       \* 2100-01-01, in ticks
  MaxClock,        \* bound on the clock, in ticks
  MaxBuilders,     \* bound on the builders of the program
  NoOrder, NoTypedData, NoSignedOrder, NoParams,
  NoSalt           \* the input has no salt

Addresses == Wallets \cup Accounts

(* How an address is written: with checksum, as Address.Hex does, or not.   *)
AddressText == [of : Addresses \cup {Nobody}, checksummed : BOOLEAN]
Hex(a) == [of |-> a, checksummed |-> TRUE]
Empty == Hex(Nobody)

(* How a number is written in typed data: a decimal or a hexadecimal string, *)
(* a float64 out of JSON, a json.Number, or the Go value itself.             *)
Numeral == [form : {"decimal", "hex", "float", "number", "go"}, value : Int]
Decimal(n) == [form |-> "decimal", value |-> n]

BuildOrderInput ==
  [strategy : {"LIMIT", "MARKET"}, side : {0, 1}, tokenId : Numeral,
   makerAmount : Int, takerAmount : Int, signer : AddressText,
   maker : AddressText, salt : Int \cup {NoSalt}, expiresAt : Nat]

LimitOrderParams ==
  [tokenId : Numeral, price : Text, quantity : Text, market : Markets]

(* generateSalt is what the builder's function of that name writes: decimal   *)
(* by default, anything if it comes from the options.                       *)
Builder == [key : Wallets \cup {Nobody}, account : Accounts \cup {Nobody},
            chain : Chains, generateSalt : Numeral]

ASSUME SigningAssumption ==
  /\ Wallets \cap Accounts = {}
  /\ Nobody \notin Addresses
  /\ Chains \subseteq Int
  /\ Builders \subseteq Builder
  /\ Inputs \subseteq BuildOrderInput
  /\ Params \subseteq LimitOrderParams
  /\ NoParams \notin Params
  /\ TicksPerSecond \in Nat \ {0}
  /\ MarketLife \in Nat
  /\ FarFuture \in Nat
  /\ MaxClock \in Nat
  /\ Decimals \in Nat

VARIABLES
  clock,      \* time.Now, in ticks
  owner,      \* owner[a]: who owns Predict account a
  builders,   \* the builders of the program
  stale,      \* those whose Predict account has changed hands since
  order,      \* the Order the program holds
  built,      \* history: who built it, and when
  typed,      \* the EIP712TypedData the program holds
  signed      \* the SignedOrder the program holds, and what it was made from

held == <<order, built, typed, signed>>
vars == <<clock, owner, builders, stale, held>>

Order == [salt : Numeral, side : {0, 1}, tokenId : Numeral,
          makerAmount : Int, takerAmount : Int, maker : AddressText,
          signer : AddressText, expiration : Int]

(* Typed data: the order with its side as text, for a chain and an exchange. *)
Message == [salt : Numeral, side : Numeral, tokenId : Numeral,
            makerAmount : Int, takerAmount : Int, maker : AddressText,
            signer : AddressText, expiration : Int]
EIP712TypedData == [chain : Numeral, contract : Markets, message : Message]

TypeOK ==
  /\ clock \in Nat
  /\ owner \in [Accounts -> Wallets]
  /\ builders \subseteq Builders
  /\ stale \subseteq builders
  /\ order \in Order \cup {NoOrder}
  /\ order # NoOrder => built.by \in builders /\ built.at \in 0..clock
  /\ typed \in EIP712TypedData \cup {NoTypedData}
  /\ signed # NoSignedOrder =>
       /\ signed.order \in Order
       /\ signed.typed \in EIP712TypedData
       /\ signed.builder \in builders
       /\ signed.params \in Params \cup {NoParams}

Init ==
  /\ clock = 0
  /\ owner \in [Accounts -> Wallets]
  /\ builders = {}
  /\ stale = {}
  /\ order = NoOrder
  /\ built = NoOrder
  /\ typed = NoTypedData
  /\ signed = NoSignedOrder

-----------------------------------------------------------------------------
(***************************************************************************)
(* The methods of a builder b, as pure functions.                           *)
(***************************************************************************)

(* Mutation: authenticate as the key's address. *)
AuthSignerIsKey(b) == b.key

AuthSigner(b) == IF b.account # Nobody THEN b.account ELSE b.key

Seconds(ticks) == ticks \div TicksPerSecond

(* Who the input says will sign; by default the owner of the key. *)
Signer(b, data) == IF data.signer # Empty THEN data.signer ELSE Hex(b.key)

(* Mutation: the expiry is not looked at. *)
AnyExpiry(b, data) ==
  /\ b.key # Nobody \/ data.signer # Empty
  /\ data.maker \in {Empty, Signer(b, data)}

(* Mutation: the maker is not compared. *)
AnyMaker(b, data) ==
  /\ data.strategy = "MARKET" \/ data.expiresAt >= clock
  /\ b.key # Nobody \/ data.signer # Empty

(* BuildOrder returns no error.  The maker is compared as it is written, and *)
(* with a Predict account too.                                              *)
Acceptable(b, data) ==
  /\ data.strategy = "MARKET" \/ data.expiresAt >= clock
  /\ b.key # Nobody \/ data.signer # Empty
  /\ data.maker \in {Empty, Signer(b, data)}

BuildOrder(b, data) ==
  [salt |-> IF data.salt # NoSalt THEN Decimal(data.salt) ELSE b.generateSalt,
   side |-> data.side, tokenId |-> data.tokenId,
   makerAmount |-> data.makerAmount, takerAmount |-> data.takerAmount,
   maker |-> IF b.account # Nobody THEN Hex(b.account)
             ELSE IF data.maker # Empty THEN data.maker ELSE Signer(b, data),
   signer |-> IF b.account # Nobody THEN Hex(b.account) ELSE Signer(b, data),
   expiration |-> IF data.strategy = "MARKET" THEN Seconds(clock) + MarketLife
                                              ELSE Seconds(data.expiresAt)]

orderToMessage(o) == [o EXCEPT !.side = Decimal(o.side)]

BuildTypedData(b, o, market) ==
  [chain |-> [form |-> "go", value |-> b.chain], contract |-> market,
   message |-> orderToMessage(o)]

(* Mutation: a side that comes out of JSON is not recognised. *)
toUint8OfString(n) == IF n.form = "decimal" THEN n.value ELSE 0

(* A hexadecimal string and a json.Number are silently taken for 0.          *)
toUint8(n) == IF n.form \in {"decimal", "float", "go"} THEN n.value ELSE 0
toInt64(n) == IF n.form \in {"float", "go"} THEN n.value ELSE 0

(* Mutation: the side is read from another field. *)
messageToOrderOfToken(m) == [m EXCEPT !.side = toUint8(m.tokenId)]

messageToOrder(m) == [m EXCEPT !.side = toUint8(m.side)]

(* What the EIP-712 encoder takes: numbers that are not negative, written in *)
(* any way but as a Go value or a json.Number, and addresses.               *)
Encodes(m) ==
  /\ {m.salt.form, m.side.form, m.tokenId.form} \subseteq {"decimal", "hex", "float"}
  /\ m.salt.value >= 0 /\ m.tokenId.value >= 0
  /\ m.makerAmount >= 0 /\ m.takerAmount >= 0
  /\ {m.maker.of, m.signer.of} \subseteq Addresses

(* An order is hashed with the values of its numbers, however written.       *)
Hash(chain, contract, side, o) ==
  [chain |-> chain, contract |-> contract, side |-> side, salt |-> o.salt.value,
   tokenId |-> o.tokenId.value, amounts |-> <<o.makerAmount, o.takerAmount>>,
   parties |-> <<o.maker.of, o.signer.of>>, expiration |-> o.expiration]

BuildTypedDataHash(td) ==
  Hash(toInt64(td.chain), td.contract, td.message.side.value, td.message)

(* A hash inside the domain of a Kernel, the contract of a Predict account.   *)
EIP712WrapHash(hash, chain, account) ==
  [kernel |-> account, chain |-> chain, over |-> hash]
Unwrapped(hash) == [kernel |-> Nobody, chain |-> 0, over |-> hash]

(* Sign a hash with the key, for a Predict account inside its Kernel and with *)
(* the validator in front of the signature.                                 *)
SignHash(b, hash) ==
  [by |-> b.key,
   digest |-> IF b.account = Nobody THEN Unwrapped(hash)
              ELSE EIP712WrapHash(hash, b.chain, b.account)]

(* SignTypedDataOrder returns no error. *)
Signable(b, td) == b.key # Nobody /\ Encodes(td.message)

SignedOrder(b, td, p) ==
  [order |-> messageToOrder(td.message),
   signature |-> SignHash(b, BuildTypedDataHash(td)),
   typed |-> td, builder |-> b, params |-> p]

(* orderToTuple, of an order whose numbers ParseWei can read: those that are  *)
(* strings of the caller's.  Amounts, expiration, nonce and fee are written   *)
(* by the code, in decimal.                                                 *)
Parsable(o) == o.salt.form = "decimal" /\ o.tokenId.form = "decimal"
orderToTuple(o, chain, contract) == Hash(chain, contract, o.side, o)

(* What CreateLimitOrder passes to BuildOrder. *)
LimitInput(p) ==
  LET price == parseUnits(p.price, Decimals)
      quantity == parseUnits(p.quantity, Decimals)
  IN  [strategy |-> "LIMIT", side |-> 0, tokenId |-> p.tokenId,
       makerAmount |-> LimitValue(price, quantity),
       takerAmount |-> LimitQuantity(quantity),
       signer |-> Empty, maker |-> Empty, salt |-> NoSalt,
       expiresAt |-> FarFuture]

-----------------------------------------------------------------------------
(***************************************************************************)
(* The program.  It holds an order, typed data or a signed order at a time. *)
(***************************************************************************)
Hold(o, td, s) ==
  /\ order' = o
  /\ typed' = td
  /\ signed' = s
  /\ UNCHANGED <<clock, owner, builders, stale>>

(* Mutation: nobody looks who owns the Predict account. *)
NewOrderBuilderUnchecked(b) ==
  /\ b.key # Nobody
  /\ Cardinality(builders) < MaxBuilders
  /\ builders' = builders \cup {b}
  /\ stale' = stale \ {b}
  /\ UNCHANGED <<clock, owner, held>>

(* The owner the ECDSA validator has on record for a Predict account. *)
readECDSAValidatorOwner(account) == owner[account]

(* It is read once, here. *)
NewOrderBuilderWithSigner(b) ==
  /\ b.key # Nobody
  /\ b.account # Nobody => readECDSAValidatorOwner(b.account) = b.key
  /\ Cardinality(builders) < MaxBuilders
  /\ builders' = builders \cup {b}
  /\ stale' = stale \ {b}
  /\ UNCHANGED <<clock, owner, held>>

NewOrderBuilder(b) ==
  /\ b.key = Nobody
  /\ Cardinality(builders) < MaxBuilders
  /\ builders' = builders \cup {b}
  /\ UNCHANGED <<clock, owner, stale, held>>

Build(b, data) ==
  /\ Acceptable(b, data)
  /\ built' = [by |-> b, at |-> clock]
  /\ Hold(BuildOrder(b, data), NoTypedData, NoSignedOrder)

TypeData(b, market) ==
  /\ order # NoOrder
  /\ Hold(NoOrder, BuildTypedData(b, order, market), NoSignedOrder)
  /\ built' = NoOrder

(* Typed data goes to another program and comes back: a number in it is a    *)
(* float64 then, or a json.Number if the decoder is told so.  A program that *)
(* writes it anew may write the side in another way.                        *)
PassThroughJSON ==
  /\ typed # NoTypedData
  /\ \E f \in {"float", "number"}, g \in {"decimal", "hex", "float"} :
       Hold(NoOrder, [typed EXCEPT !.chain.form = f, !.message.side.form = g],
            NoSignedOrder)
  /\ built' = NoOrder

SignTypedDataOrder(b) ==
  /\ typed # NoTypedData
  /\ Signable(b, typed)
  /\ Hold(NoOrder, NoTypedData, SignedOrder(b, typed, NoParams))
  /\ built' = NoOrder

(* CreateLimitOrder, up to the request it posts. *)
CreateLimitOrder(b, p) ==
  LET data == LimitInput(p)
      td == BuildTypedData(b, BuildOrder(b, data), p.market)
  IN  /\ parseUnits(p.quantity, Decimals) >= MinQuantity
      /\ Acceptable(b, data)
      /\ Signable(b, td)
      /\ built' = NoOrder
      /\ Hold(NoOrder, NoTypedData, SignedOrder(b, td, p))

(***************************************************************************)
(* External: time passes, a Predict account changes hands.                  *)
(***************************************************************************)
Tick ==
  /\ clock < MaxClock
  /\ clock' = clock + 1
  /\ UNCHANGED <<owner, builders, stale, held>>

ChangeOwner(a, w) ==
  /\ owner[a] # w
  /\ owner' = [owner EXCEPT ![a] = w]
  /\ stale' = stale \cup {b \in builders : b.account = a}
  /\ UNCHANGED <<clock, builders, held>>

Next ==
  \/ \E b \in Builders : NewOrderBuilder(b) \/ NewOrderBuilderWithSigner(b)
  \/ \E b \in builders :
       \/ \E data \in Inputs : Build(b, data)
       \/ \E market \in Markets : TypeData(b, market)
       \/ SignTypedDataOrder(b)
       \/ \E p \in Params : CreateLimitOrder(b, p)
  \/ PassThroughJSON
  \/ Tick
  \/ \E a \in Accounts, w \in Wallets : ChangeOwner(a, w)

Spec == Init /\ [][Next]_vars

-----------------------------------------------------------------------------
(***************************************************************************)
(* Properties.                                                              *)
(***************************************************************************)

(* How an address checks a signature: a wallet by ecrecover, a Predict       *)
(* account by its Kernel and its owner's key (ERC-1271).                    *)
Stands(address, signature, hash, chain) ==
  signature =
    IF address \in Accounts
      THEN [by |-> owner[address],
            digest |-> EIP712WrapHash(hash, chain, address)]
      ELSE [by |-> address, digest |-> Unwrapped(hash)]

(* A signed order is accepted by the exchange it was typed for, whatever     *)
(* builder made the order or the typed data, and whatever JSON made of it,   *)
(* if the order names whom the builder signs for and the Predict account has *)
(* not changed hands since the builder was made.  Excluded are two ways of   *)
(* writing that toInt64 and toUint8 do not read.                            *)
SignatureStands ==
  signed # NoSignedOrder =>
    LET b == signed.builder
        td == signed.typed
    IN  /\ signed.order.signer.of = AuthSigner(b)
        /\ b \notin stale
        /\ b.account # Nobody => td.chain.value = b.chain
        /\ td.chain.form # "number"
        /\ td.message.side.form # "hex"
        => Stands(AuthSigner(b), signed.signature,
                  orderToTuple(signed.order, td.chain.value, td.contract),
                  td.chain.value)

(* A signed order whose token and salt are written in decimal can be         *)
(* cancelled: the tuple CancelOrders makes of it hashes to what was signed,   *)
(* whatever builders and JSON it went through.                              *)
Cancellable ==
  /\ signed # NoSignedOrder
  /\ Parsable(signed.typed.message)
  /\ signed.typed.message.side.form # "hex"
  => LET hash == signed.signature.digest.over
     IN  /\ Parsable(signed.order)
         /\ orderToTuple(signed.order, hash.chain, hash.contract) = hash

(* Maker and signer of an order are the same address, as it is built, typed   *)
(* and signed, whatever the input says, and "BuildOrder sets maker / signer   *)
(* to the Predict account" (README.md).  Without a Predict account the maker  *)
(* of the input goes into the order: that it signs rests on the comparison   *)
(* in BuildOrder.                                                           *)
MakerSigns ==
  /\ order # NoOrder =>
       /\ order.maker = order.signer
       /\ built.by.account # Nobody => order.maker.of = built.by.account
  /\ typed # NoTypedData => typed.message.maker = typed.message.signer
  /\ signed # NoSignedOrder => signed.order.maker = signed.order.signer

(* An order just built has not expired, to the second.                      *)
NotBornExpired == order # NoOrder => order.expiration >= Seconds(built.at)

(* CreateLimitOrder orders for the account it authenticates as after a 401,  *)
(* and the signature it authenticates with stands.                          *)
SessionOfTheMaker ==
  signed # NoSignedOrder /\ signed.params # NoParams =>
    LET b == signed.builder
    IN  /\ signed.order.maker.of = AuthSigner(b)
        /\ b \notin stale =>
             Stands(AuthSigner(b), SignHash(b, "login"), "login", b.chain)

(* CreateLimitOrder does not sign to pay more than the price and the quantity *)
(* as they are written come to, and nothing for one it cannot read.  Signs    *)
(* are not counted: of two the code takes both, so that --5 pays like 5.  A   *)
(* number in scientific notation has to fit a float with a bit to spare.     *)
PaysAtMostAsWritten ==
  /\ signed # NoSignedOrder /\ signed.params # NoParams
  /\ Short(signed.params.price, Decimals)
  /\ Short(signed.params.quantity, Decimals)
  =>
    LET price == signed.params.price
        quantity == signed.params.quantity
        paid == signed.order.makerAmount
    IN  IF Legible(price, Decimals) /\ Legible(quantity, Decimals)
          THEN paid * Denominator(price) * Denominator(quantity)
                 <= Numerator(price) * Numerator(quantity) * Unit
          ELSE paid = 0
=============================================================================
