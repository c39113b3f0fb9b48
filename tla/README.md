# go-predict-fun in TLA+

Specifications of the Go client of predict.fun (package `x`): its REST session,
its orders and their signatures, its transactions on BNB chain and its order
arithmetic. The modules are
translated from the code; file and line of every definition are in
`PROJECT.json` under `map`.

## The system

The package is a library: it starts no goroutine of its own, and its two objects,
`APIClient` and `OrderBuilder`, may be shared by the goroutines of a program.

| Part | State | Operations | Hard about it |
|---|---|---|---|
| API session (`api_client.go`, `api_orders.go`) | `bearer`, a JWT behind an RWMutex | `Authenticate` (`GetAuthMessage`, sign, `PostAuth`), `InvalidateAuth`, `CreateOrder`, `CreateLimitOrder` with one retry after a 401 | the cache is read when a request leaves and changed when a reply comes; replies get lost; an order is posted twice |
| API reads and cancellation (`api_account.go`, `api_client.go`) | none | `ListOrders`, `GetOrder`, `RemoveOrders`, `ListPositions`, `GetMarkets`, `GetMarketOrderbook` | share the bearer with the calls that change it; no recovery from a 401 |
| Transaction sender (`sendTx`) | none of its own; the account's nonce and pool in the node | read nonce, gas price and estimate, sign, send, `WaitMined` | no lock between reading a nonce and sending; replacement, lost replies, deadlines |
| Contract operations (`order_builder_tx.go`) | approvals recorded by the contracts | `SetApprovals` (ten operations, also called one by one), `CancelOrders` and `ValidateTokenIDs`, `RedeemPositions`, `MergePositions`, `SplitPositions` | one of ten steps fails; check and set are apart; somebody takes back what another gives; flags choose the contract |
| Order amounts (`order_builder.go`, `internal/utils.go`) | none | `GetLimitOrderAmounts`, `GetMarketOrderAmounts`, `processBook`, `RetainSignificantDigits` | quotients rounded at every step, slippage, free and empty levels |
| Order construction and signing (`order_builder.go`, `order_builder_sign.go`) | key, Predict account, chain | `BuildOrder`, `BuildTypedData`, `SignTypedDataOrder`, `SignAuthMessage`, `orderToTuple` | who signs for whom, expiry, typed data that went through JSON |
| Construction (`NewOrderBuilderWithSigner`) | none | dial, read the owner of the Predict account | the owner is read once |
| Parsing (`internal/utils.go`) | none | `ParseEther`, `parseUnits`, `parseUnitsFloat`, `ParseWei` | malformed numbers parse to 0; signs, exponents, long fractions |
| Encoding, bindings, types, constants, errors, logger, proxy | none | layout and configuration | - |

`CreateLimitOrder` calls the amounts, then construction and signing, then posts.
The contract operations all end in `sendTx`, through the Kernel when a Predict
account is set. What makes each part correct: an order is in the book at most
once and the caller can trust the answer (session); each reported success was
earned by a transaction (sender); a reported approval means that orders can be
settled, and a cancellation reaches the exchange the orders were signed for
(contract operations); signed amounts can be filled by the book they were
computed from (amounts); a signature stands at the exchange, for the account the
session is authenticated as, and what was signed can be cancelled (signing).

## The modules

| Module | Models | State and actions |
|---|---|---|
| `OrderPlacement` | what `CreateLimitOrder` promises | abstract: `placed`, `outcome`; `Call`, `Place`, `Return` |
| `ApiClient` | the API session, several goroutines | `bearer` is the field; `pc`, `order`, `wire`, `granted` are the goroutines' stacks and requests in flight; the rest is the server. One action per point where a goroutine can be overtaken: `CreateLimitOrder`, `Reauthenticate`, `SignMessage`, `StoreToken`, `Resubmit`, `ReturnFromSubmit`, `FailAuth`, `GiveUp`, `Read` and `ReturnFromRead` for the reads and `RemoveOrders`, and the program's own `Authenticate` and `InvalidateAuth` |
| `Transactions` | `sendTx`, several goroutines, one key | `at`, `tx`, `result` are a call's progress; `pool`, `next`, `succeeded`, `reverted` the node; one action per RPC call or group of reads |
| `OrderBuilderTx` | the contract operations, on top of `Transactions` | `job`, `op`, `success`, `cancel`, `answer` are the calls, `begun` the nonce a `SetApprovals` began at; one action per approval skipped, sent or taken, per approval given or taken back, per operation started or finished |
| `DecimalNumbers` | powers and logarithms of ten and two, and digits, which `big.Int` and `big.Float` compute for the code | operators only |
| `WeiMath` | the helpers of the arithmetic and the amounts of a limit order | operators only |
| `OrderAmounts` | the arithmetic of market and limit orders | one step per loop iteration of `getMarketOrderAmountsByValue` and `processBook` |
| `DecimalText` | how a price or a quantity is read, through integers or a binary float, and what it means to its writer | operators only |
| `OrderSigning` | builders, from the request to the signed order | `builders` are the `OrderBuilder`s of the program, `order`, `typed`, `signed` the values it holds; one action per method: `NewOrderBuilder`, `NewOrderBuilderWithSigner`, `Build`, `TypeData`, `SignTypedDataOrder`, `CreateLimitOrder`; external: `PassThroughJSON`, `Tick`, `ChangeOwner` |

`ApiClient` implements `OrderPlacement`: `Placement == INSTANCE OrderPlacement
WITH` the orders, `placed` and `outcome` of `ApiClient`; the reads map to
stutters. `OrderBuilderTx` EXTENDS `Transactions` and conjoins its actions.
`OrderAmounts` and `OrderSigning` both use `WeiMath`, so that the amounts
`CreateLimitOrder` signs are those `OrderAmounts` computes. The `MC*` modules hold
the instances, the `*Proofs` modules the theorems.

### Abstractions

- Orders, tokens and calls are atoms. A reply is one of seven classes, by what
  `decodeAPIResponse` and the status check of `get` and `post` make of it. One of
  them is a JSON object without `success` and `code`, such as a gateway may send:
  it is an `APIError` of code 0 for the client, also when the order was accepted.
- Server and network (`ApiClient`): the server checks the bearer of an order
  against the tokens it honours, may revoke a token or refuse a request at any
  time, and puts an order in the book only together with an answer that a client
  reads as success, cannot read, or reads as an error of code 0. So an `APIError`
  with a code other than zero is the server's own word that the order is not in
  the book; a gateway that answers an accepted order with a numeric `code` of its
  own, or with a 401, is assumed not to occur. The server does not itself
  deduplicate: that an order is not placed twice rests on the client's retry
  alone. A request whose caller has given up may still be served (`adrift`). A
  token once revoked is not handed out again.
- Node (`Transactions`): one pending transaction per nonce, replaced by a better
  paid one; mined in the order of nonces. Reorganisations are left out. Equal
  calls at equal nonce and price are equal transactions, because signatures are
  deterministic and the gas limit follows from the call.
- Contracts (`OrderBuilderTx`): calldata is the contract, the method and the
  operator. An approval counts as taken back by `approved = false`, or by an
  explicit allowance below the half of 2^256 that `SetApprovals` asks for, which
  the code sends whenever the allowance is below the minimum the caller names, be
  it held or not; an allowance used up below that half is left out. The contracts'
  record is what the transactions that succeeded say, the latest nonce last. The
  Kernel wraps a call and changes neither its effect nor the owner of the
  approvals, who is the Predict account then. Argument errors (malformed numbers,
  a NegRisk redemption without an amount, an empty list of orders) end an
  operation before it does anything and are left out, and so is a builder without
  a signer, for which every operation fails.
- Amounts: natural numbers of any size. A book level is a price and a quantity,
  already parsed.
- Signing (`OrderSigning`): a hash is what it commits to, a key the address it
  belongs to, a signature the key and the digest. An address keeps the way it is
  written, since makers and signers are compared as text. A number in typed data
  keeps its form (decimal, hexadecimal, float64, json.Number, Go value), since
  `toUint8`, `toInt64`, `ParseWei` and the EIP-712 encoder read different ones.
  The salt is the caller's, in decimal, or what the builder's `generateSalt`
  writes in whatever form. Fields that are only copied (taker, nonce, fee,
  signature type) are left out. The exchange checks a signature by recovering the
  signer, or for a Predict account by its Kernel and the key of its owner, who may
  change at any time.
- Texts (`DecimalText`): signs, digits, a point, digits, an exponent; any other
  character is one character, and spoils the number if it is kept. The `big.Float`
  behind scientific notation is modelled as what its precision (`FloatBits`, 256
  in the code) makes of a fraction: the nearest one, ties to even, when the text
  is read and again when it is scaled, then cut off. `ParseFloat` scales by a
  power of five in 64 more bits, which is exact for exponents up to 137 (the
  digits after the point counted in); larger ones, and those at which a float
  overflows, are outside the model.

## The runs

| Run | Question | Bounds |
|---|---|---|
| `session` | types, no double placement, honest answers, refinement of `OrderPlacement` | 2 goroutines, 2 orders, 2 tokens, every fault |
| `session_returns` | does every call return? | 2 goroutines, one without a key, 1 order, 2 tokens |
| `session_heals` | does one goroutine recover from a stale JWT by itself? | 3 orders in a row, 3 tokens, no fault |
| `session_dirty` | is only the refused bearer cleared? **Violated** | as `session` |
| `transactions` | types, one success per transaction, justified waits | 2 goroutines, 2 calls, 2 gas prices, 3 nonces |
| `transactions_lone` | does `sendTx` return without a deadline? | 1 goroutine, 3 nonces |
| `transactions_fail` | does a `TransactionFail` mean failure? **Violated** | 1 goroutine |
| `builder` | types, approvals given and taken back, cancellations | 2 goroutines, 2 nonces, 1 approval missing and 2 that change, 2 kinds of market, a node that drops |
| `builder_negrisk` | does `ErrInvalidNegRiskConfig` mean a mismatch? **Violated** | 1 goroutine |
| `amounts` | types, fillable orders, exact walks, budgets, limit prices | every book of up to 2 and many of 3 levels over 16 levels, 1000 units to a share |
| `amounts_budget` | does a BUY by value stay within it? **Violated** | 2 levels, 10000 units to a share, digits as in the code |
| `signing` | types, signatures that stand, cancellation, maker and signer, expiry, amounts as written | 2 wallets, 1 Predict account on 2 chains, 2 builders of 5, one with salts in hexadecimal, 16 inputs, 12 ways to write a number, a float of 14 bits, 3 instants |

Why the bounds are enough. In `session` two goroutines suffice for each race over
the cache (one acts between two steps of the other), two tokens for a stale and a
fresh one, and an order has no more than two submissions. In `transactions` two
callers and two prices give every collision of nonces: equal transactions,
underpriced, replaced. `MaxNonce` only stops calls from starting that could need
another nonce, and is why those runs do not check for deadlock. In `builder` the
two approvals that change are one of each contract type; the other eight are
routed by the same operators, and the theorems cover every set of approvals. Of
the two nonces `SetApprovals` needs one, so that another goroutine can take back
what it has found or done. In `signing` two builders are enough for one to sign
what the other has built or typed, and five kinds give each way in which they can
disagree: key, account, owner, chain; the instants lie in two different seconds.
A collateral of two decimals, a price of one digit and a quantity of two make
every rounding happen on numbers TLC can write down, and a float of 14 bits rounds
0.3 and 4.3 so that a unit is lost, as 256 bits do with 0.54 and 18 decimals. In
`amounts`, level and request values include zero, free and empty levels, exact
multiples and remainders; the arithmetic is scaled to fit TLC's integers and the
theorems cover the real constants. A call of `OrderAmounts` ends, so that run
does not check for deadlock either. SYMMETRY is used only where no liveness is
checked.

The four violations are disagreements between the code and what its comments or
its README say; `PROJECT.json` lists them under `findings` with both quotations.
They are not repaired in the models: what holds instead is checked beside them.
For instance a fresh bearer may be cleared by a late 401, and still no order is
placed twice and every call returns. In `session_dirty` one goroutine is
refused with a stale bearer and another one authenticates before it has read the
401; that the other one does so because it was refused too is a longer behaviour
of the same kind. In `amounts_budget` the order for 5 USDT asks for 11.666 shares,
the five digits the code keeps, at the last price of 0.60: 6.9996 USDT.

### Fairness

`FairSpec` of `ApiClient`: a goroutine inside a call runs on, and an exchange
ends. `NewAPIClient` gives its `http.Client` a timeout of 30 s, so that an
exchange ends also when the server is silent; a program that passes its own
`HTTPClient` without a timeout and a context without a deadline has no such
guarantee. `CallsReturn` assumes nothing of the server. `ServedSpec` adds that
the server answers, and is used for `HealsItself` only, where nothing else goes
wrong. `FairTxSpec`: a goroutine runs on, a context that has a deadline ends, and
the node mines what is next. `bind.WaitMined` polls every second and ignores
errors of the poll, so that it sees a receipt that stays.

## The proofs

All for every value of the constants that satisfies the named assumptions.

- `ApiClientProofs`: `CallInv` is inductive and adds three facts to the checked
  properties: a caller inside `CreateLimitOrder` owns its order alone and the
  order's outcome is pending (`OwnOrder`); an order is in the book while its call
  runs only if the reply on the wire says so or cannot be read
  (`PlacedByAnswer`); an order adrift has the outcome "unknown" and was not placed
  (`AdriftUnknown`). Without them neither `AtMostOnce` nor `HonestOutcome` is
  inductive: the retry is safe only because the first post was answered with a
  refusal, and no second caller can submit the same order. Even the type
  invariant needs `OwnOrder`, since giving up adds the caller's order to `adrift`.
  From it follow the safety properties, and step by step the refinement of
  `OrderPlacement`.
- `TransactionsProofs`: `TxInv` holds whatever the node does. When it drops
  nothing, a nonce for which a transaction was sent stays spent: used up, or held
  in the pool by one that is paid at least as well (`Spent`). So nobody can send a
  transaction again that another call waits for or has reported (`SpentInv`),
  which is what `OneSuccessEach` needs: by itself it is not inductive, since a
  second caller could be waiting for a transaction already claimed.
  `SuccessesAreDistinct` and `WaitingIsJustified` assume that nothing is dropped.
- `OrderBuilderTxProofs`: every behaviour is one of `Transactions`
  (`BuilderUsesSendTx`), so that its invariant is reused; `SetApprovals` is
  covered by the invariant that, while every result was good, the approvals
  before position `op` are held; that the ten operations are what each kind of
  market needs is a lemma by cases (`OpsAreEnough`).
- `DecimalNumbersProofs`: the functions of `DecimalNumbers` are recursive, so it
  is a lemma first that their definitions define them. Both that and what they
  compute go by least counterexample: a set of natural numbers that is not empty
  has a least element (`LeastNatural`, from the well-foundedness of `<`), so a set
  that has 0 and with each number the next has them all (`InductionOnSet`).
  `RecursionDefines` and `RecursionOnInterval` build a function up from its
  values on an initial segment. From these follow `TenToOfSum` (10^(a+b)), the
  bounds of a number by its length (`DecimalLengthBounds`) and by its binary
  logarithm (`BinaryLogBounds`), and how the number
  that digits spell grows with each further digit (`PrefixesGrow`,
  `PrefixesBounded`). The facts about products that every module needs are here
  too. No fact about powers is assumed.
- `WeiMathProofs`: quotients and `RetainSignificantDigits`: it keeps
  exactly the first digits (`KeptHasDigits`), never adds (`RetainedIsNat`), and
  takes less than one part in 10^(d-1) (`KeptLosesLittle`), from which follows
  what a limit order can gain (`LimitIsLess`: nothing) and lose
  (`LimitLosesLittle`).
- `OrderAmountsProofs`: in a sorted book the last price bounds what was paid so
  far (`LastIsWorst`), which the next level preserves because its price is no
  better; with the lemmas on products and quotients that gives `Fillable`, for
  every book, quantity and slippage. The two properties of limit orders follow
  from `WeiMathProofs`, since only one action prices them (`LimitOnly`). The other
  two properties are about whole loops and need loop invariants: `WalkSoFar`, that
  the levels before the current one gave all they have or all that is wanted, at
  their cost; and `ValueSoFar`, that the value pays for the shares found so far
  but for less than one wei for each level. `TheWalkTakesTheBook` is the first at
  the end of the walk. For `MinOutIsWithinValue` the two loops meet: the shares
  found by value are rounded down before they are walked, so the walk costs no
  more (`CostMonotone`), and the shares of whole tiers and a fraction cost what
  the first loop has charged, up to rounding (`WithinTheWanted`,
  `BeyondTheWanted`).
- `DecimalTextProofs`: what `parseUnits` makes of a text, whatever its length. One
  without an exponent is read as the number that is written, cut off towards zero.
  One with an exponent goes through two floats: `Doublings` finds the least scale
  (`DoublingsLeast`), so that the rounded integer has `FloatBits` bits and the float
  is off by at most one part in 2^`FloatBits` (`FloatIsNear`,
  `FloatRoundsLittle`); twice that stays below one unit as long as the scaled
  number has fewer bits than the float (`Short`; `TwiceIsNear`). So what is read is
  what is written, or one unit less in magnitude (`MagnitudeRoundsDown`,
  `ReadsAsWritten`), and never more. Both cases happen, also on the instance of
  `signing`. What cannot be read becomes 0
  (`IllegibleIsNothing`); a character that cannot be read may be among those cut
  off, and then no more is read than what stands before it. `ReadsAsWritten` is
  about at most one sign; of two the code takes both, so that `--5` is 5.
- `OrderSigningProofs`: the invariant adds to the types that a signed order is
  what `SignTypedDataOrder` makes of the typed data it was made from, that whoever
  holds a builder for a Predict account owns it unless the builder is stale, and
  that an order has the parties and the expiry of the builder that made it.
  `TheMakerSigns` rests on `Acceptable`: without a Predict account `BuildOrder`
  writes the maker of the input and the signer of the input into the order, and
  that they are one is what line 411 has checked. `SignaturesStand` then is a
  comparison of two hashes: the one signed, over the typed data, and the one the
  exchange computes from the order (`TupleOfSigned`); they agree because
  `messageToOrder` undoes `orderToMessage` in every form the property admits. A
  third part of the invariant (`PricedFrom`) remembers which texts a signed order
  was priced from; `LimitOrderPaysAsWritten` then joins `DecimalTextProofs` and
  `WeiMathProofs`: no step from text to amount rounds up, not even those through a
  float that is `Short`, and a sign more or less only makes the amount negative or
  not. It is stated under `Unit = TenTo[Decimals]`: `ParseEther` reads 18 decimals
  and the precision of a builder is 10^18 unless its options say otherwise.

The named assumptions give the constants their types and say that units, minima
and numbers of digits are positive; TLC evaluates them in every run.

Model-checked only: liveness (`CallsReturn`, `HealsItself`, `SendTxReturns`),
which is out of the proof system's reach under fairness. Every invariant and
action property of the passing runs is the conclusion of a theorem. The loop
invariants were model-checked on the instance of `amounts` before they were proved.

### What the code does that a caller should know

Besides the findings. The first two are at odds with what the code says of
itself; the properties are stated around all of them.

- With a Predict account, "the maker and signer are ignored" according to the
  warning at `order_builder.go:395`. They have no part in the order then, but line
  411 compares them all the same: an input whose maker is another text than its
  signer, or than the address of the key if it names none, is
  `ErrMakerSignerMismatch`, also when that maker is the Predict account or differs
  only in letter case.
- Prices and quantities "cannot lose precision" according to the comment of
  `ParseEther` (`utils.go:44`). In scientific notation they can lose one unit:
  `5.4e-1` is read as 539999999999999999, and of a price three digits are kept, so
  that a limit order is signed for 0.539. No order pays more for it
  (`PaysAtMostAsWritten`).
- Typed data decoded with `json.Number` is signed for chain 0, and a side written
  in hexadecimal becomes a BUY, both without an error (`SignatureStands` leaves
  them out).
- An order whose token or salt is written in hexadecimal can be signed and
  posted, but `orderToTuple` cannot read it: it cannot be cancelled on chain
  (`Cancellable` leaves it out).
- Of a price or quantity with two signs both count: `--5` is read and paid as 5.
- `SetCTFExchangeAllowance` sends `approve(maxAmount)` only when the allowance is
  below the `minAmount` it is given, and `maxAmount` may be lower than that: it can
  lower an allowance, but not an unlimited one.
- A read that is refused with a 401 leaves the bearer as it is; only
  `CreateLimitOrder` recovers.

## Not modelled

- Pagination and the contents of answers: a cursor is passed through, and no
  state of the client depends on an answer other than a token.
- Bindings, struct types, addresses, errors, logger and proxy, which have no
  state; the layout of calldata (`EncodeExecutionCalldata`, `ConcatHex`); the
  dial of the RPC; the cryptography.
- A builder whose `Precision` is not 18: amounts and `ParseEther` disagree then.
- Reorganisations of the chain, to which no code reacts.

What could come next: with a node that drops transactions, how many successes one
transaction can earn; the composition of approvals with the orders that need
them.
