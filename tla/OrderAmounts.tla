---------------------------- MODULE OrderAmounts ----------------------------
(***************************************************************************)
(* The arithmetic of OrderBuilder: what a limit or market order offers      *)
(* (makerAmount) and asks for (takerAmount).                                *)
(*                                                                          *)
(* A run computes the amounts of one request over one side of the order     *)
(* book: the asks for a BUY, the bids for a SELL.  Each step is one         *)
(* iteration of a loop of the code.  Every amount is a natural number:      *)
(* negative inputs end like those below the minimum.                        *)
(***************************************************************************)
EXTENDS WeiMath

CONSTANTS
  MinValue,        \* 10^18
  Bps,             \* 10000
  Requests,        \* the calls of GetLimitOrderAmounts, GetMarketOrderAmounts
  Books            \* the sides of an order book they find

Level == [price : Nat, quantity : Nat]
Request == [kind : {"limit", "quantity", "value"}, side : {"BUY", "SELL"},
            amount : Nat, price : Nat, slippage : Nat, isMinAmountOut : BOOLEAN]

ASSUME AmountsAssumption ==
  /\ MinValue \in Nat
  /\ Bps \in Nat \ {0}
  /\ Requests \subseteq Request
  /\ \A b \in Books : b \in Seq(Level)

VARIABLES
  request,    \* the arguments of the call
  book,       \* the side of the book it uses
  stage,      \* where the call is
  level,      \* position in the book of the loop that runs
  shares,     \* numberOfShares
  spent,      \* totalPrice
  wanted,     \* qty: the quantity asked for, rounded
  remaining,  \* what processBook still looks for
  quantity,   \* ProcessedBookAmounts.QuantityWei
  cost,       \* ProcessedBookAmounts.PriceWei, in wei * Unit
  last,       \* ProcessedBookAmounts.LastPriceWei
  maker,      \* OrderAmounts.MakerAmount
  taker       \* OrderAmounts.TakerAmount

spendVars == <<shares, spent>>
walkVars == <<wanted, remaining, quantity, cost, last>>
amounts == <<maker, taker>>
vars == <<request, book, stage, level, spendVars, walkVars, amounts>>

TypeOK ==
  /\ request \in Requests
  /\ book \in Books
  /\ stage \in {"start", "spend", "count", "walk", "done", "ErrInvalidQuantity"}
  /\ level \in 1..(Len(book) + 1)
  /\ shares \in Nat
  /\ spent \in Nat
  /\ wanted \in Nat
  /\ remaining \in Nat
  /\ quantity \in Nat
  /\ cost \in Nat
  /\ last \in Nat
  /\ maker \in Nat
  /\ taker \in Nat

Init ==
  /\ request \in Requests
  /\ book \in Books
  /\ stage = "start"
  /\ level = 1
  /\ shares = 0
  /\ spent = 0
  /\ wanted = 0
  /\ remaining = 0
  /\ quantity = 0
  /\ cost = 0
  /\ last = 0
  /\ maker = 0
  /\ taker = 0

-----------------------------------------------------------------------------
Done(m, t) ==
  /\ stage' = "done"
  /\ maker' = m
  /\ taker' = t

Go(s) ==
  /\ stage' = s
  /\ level' = 1

ByValue == request.kind = "value" /\ request.side = "BUY"

(* GetLimitOrderAmounts. *)
GetLimitOrderAmounts ==
  /\ stage = "start"
  /\ request.kind = "limit"
  /\ request.amount >= MinQuantity
  /\ LET qty == LimitQuantity(request.amount)
         value == LimitValue(request.price, request.amount)
     IN  IF request.side = "BUY" THEN Done(value, qty) ELSE Done(qty, value)
  /\ UNCHANGED <<request, book, level, spendVars, walkVars>>

(* GetMarketOrderAmounts.  A SELL by value is a SELL of as many shares. *)
GetMarketOrderAmounts ==
  /\ stage = "start"
  /\ request.kind # "limit"
  /\ IF ByValue
       THEN /\ request.amount >= MinValue
            /\ Go("spend")
            /\ UNCHANGED shares
       ELSE /\ Go("count")
            /\ shares' = request.amount
  /\ UNCHANGED <<request, book, spent, walkVars, amounts>>

(* The amount is below the minimum. *)
RefuseAmount ==
  /\ stage = "start"
  /\ \/ request.kind = "limit" /\ request.amount < MinQuantity
     \/ ByValue /\ request.amount < MinValue
  /\ stage' = "ErrInvalidQuantity"
  /\ UNCHANGED <<request, book, level, spendVars, walkVars, amounts>>

(***************************************************************************)
(* getMarketOrderAmountsByValue: how many shares the value buys.            *)
(***************************************************************************)
remainingSpend == request.amount - spent
tierTotalPrice == (book[level].price * book[level].quantity) \div Unit

Spending == stage = "spend" /\ level <= Len(book) /\ remainingSpend > 0

BuyTier ==
  /\ Spending
  /\ tierTotalPrice <= remainingSpend
  /\ shares' = shares + book[level].quantity
  /\ spent' = spent + tierTotalPrice
  /\ level' = level + 1
  /\ UNCHANGED <<request, book, stage, walkVars, amounts>>

(* Mutation: the fraction is bought with the whole value. *)
FractionOfWhole ==
  /\ Spending
  /\ tierTotalPrice > remainingSpend
  /\ LET fraction == (request.amount * Unit) \div book[level].price
     IN  /\ shares' = shares + fraction
         /\ spent' = spent + (book[level].price * fraction) \div Unit
  /\ Go("count")
  /\ UNCHANGED <<request, book, walkVars, amounts>>

(* A tier that costs anything has a positive price. *)
BuyFraction ==
  /\ Spending
  /\ tierTotalPrice > remainingSpend
  /\ LET fraction == (remainingSpend * Unit) \div book[level].price
     IN  /\ shares' = shares + fraction
         /\ spent' = spent + (book[level].price * fraction) \div Unit
  /\ Go("count")
  /\ UNCHANGED <<request, book, walkVars, amounts>>

EndSpending ==
  /\ stage = "spend"
  /\ ~Spending
  /\ Go("count")
  /\ UNCHANGED <<request, book, spendVars, walkVars, amounts>>

(***************************************************************************)
(* getMarketOrderAmountsByQuantity and processBook.                         *)
(***************************************************************************)
RoundShares ==
  /\ stage = "count"
  /\ LET qty == RetainSignificantDigits(shares, QuantityDigits)
     IN  IF qty < MinQuantity
           THEN /\ stage' = "ErrInvalidQuantity"
                /\ UNCHANGED <<level, wanted, remaining>>
           ELSE /\ Go("walk")
                /\ wanted' = qty
                /\ remaining' = qty
  /\ UNCHANGED <<request, book, spendVars, quantity, cost, last, amounts>>

Walking == stage = "walk" /\ level <= Len(book) /\ remaining > 0

(* Mutation: the first price is kept instead of the last one. *)
KeepFirstPrice ==
  /\ Walking
  /\ LET taken == Min(remaining, book[level].quantity)
     IN  /\ quantity' = quantity + taken
         /\ cost' = cost + book[level].price * taken
         /\ remaining' = remaining - taken
  /\ last' = IF last = 0 THEN book[level].price ELSE last
  /\ level' = level + 1
  /\ UNCHANGED <<request, book, stage, spendVars, wanted, amounts>>

(* Mutation: the last level is always taken whole. *)
TakeWholeLevel ==
  /\ Walking
  /\ LET taken == book[level].quantity
     IN  /\ quantity' = quantity + taken
         /\ cost' = cost + book[level].price * taken
         /\ remaining' = Max(remaining - taken, 0)
  /\ last' = book[level].price
  /\ level' = level + 1
  /\ UNCHANGED <<request, book, stage, spendVars, wanted, amounts>>

(* A level that holds more than is looked for is the last one. *)
TakeLevel ==
  /\ Walking
  /\ LET taken == Min(remaining, book[level].quantity)
     IN  /\ quantity' = quantity + taken
         /\ cost' = cost + book[level].price * taken
         /\ remaining' = remaining - taken
  /\ last' = book[level].price
  /\ level' = level + 1
  /\ UNCHANGED <<request, book, stage, spendVars, wanted, amounts>>

(* Mutation: the discount may exceed the amount. *)
LessUnclamped(n) ==
  IF request.slippage > 0
    THEN (n * (Bps - request.slippage)) \div Bps
    ELSE n

Less(n) ==
  IF request.slippage > 0
    THEN Max((n * (Bps - request.slippage)) \div Bps, 0)
    ELSE n

More(n) ==
  IF request.slippage > 0
    THEN Min((n * (Bps + request.slippage)) \div Bps, quantity)
    ELSE n

base == (last * quantity) \div Unit
signedShares == IF last > 0 THEN cost \div last ELSE 0

(* The amounts of a market order, from what the walk has found. *)
Settle ==
  /\ stage = "walk"
  /\ ~Walking
  /\ IF request.side = "SELL"
       THEN Done(quantity, Less(base))
       ELSE IF request.isMinAmountOut
              THEN Done(cost \div Unit, Less(signedShares))
              ELSE Done(More(base), quantity)
  /\ UNCHANGED <<request, book, level, spendVars, walkVars>>

Next ==
  \/ GetLimitOrderAmounts
  \/ GetMarketOrderAmounts
  \/ RefuseAmount
  \/ BuyTier
  \/ BuyFraction
  \/ EndSpending
  \/ RoundShares
  \/ TakeLevel
  \/ Settle

Spec == Init /\ [][Next]_vars

-----------------------------------------------------------------------------
(***************************************************************************)
(* Properties.                                                              *)
(***************************************************************************)
Priced == stage = "done" /\ request.kind # "limit"

(* The best price comes first, and no share costs more than one USDT. *)
Sorted ==
  /\ \A i \in 1..Len(book) : book[i].price <= Unit
  /\ \A i \in 1..(Len(book) - 1) :
       IF request.side = "BUY" THEN book[i].price <= book[i + 1].price
                               ELSE book[i].price >= book[i + 1].price

(* A market order can be filled by the very orders it was computed from:     *)
(* the maker amount pays for them, and they give the taker amount, although  *)
(* quotients are rounded at every step, slippage is added or taken off, and  *)
(* the inflated maker amount is capped.                                     *)
Fillable ==
  Priced /\ Sorted =>
    IF request.side = "BUY"
      THEN cost \div Unit <= maker /\ taker <= quantity
      ELSE quantity <= maker /\ taker <= cost \div Unit

(* The sums of the first i terms, for every i. *)
RunningSum(terms) ==
  LET sum[i \in 0..Len(terms)] ==
        IF i = 0 THEN 0 ELSE sum[i - 1] + terms[i]
  IN  sum

(* The depth of the first n levels of the book. *)
Depth(n) == RunningSum([i \in 1..Len(book) |-> book[i].quantity])[n]

(* What the first n levels charge for up to q shares. *)
CostOf(q, n) ==
  RunningSum([i \in 1..Len(book) |->
                book[i].price
                  * Min(book[i].quantity, Max(q - Depth(i - 1), 0))])[n]

(* The walk takes exactly what is wanted, or all there is, level by level:   *)
(* no share twice and none left out.                                        *)
WalkTakesTheBook ==
  Priced =>
    /\ quantity = Min(wanted, Depth(Len(book)))
    /\ cost = CostOf(wanted, Len(book))

(* A BUY by value with IsMinAmountOut offers no more than the value, up to   *)
(* one wei for each level: rounding down tier by tier does not add up to     *)
(* more, and processBook finds the tiers again that the value paid for.      *)
MinOutWithinValue ==
  Priced /\ ByValue /\ request.isMinAmountOut =>
    maker <= request.amount + Len(book)

(* A limit order never trades more shares than asked for, and never pays     *)
(* more for them, or asks for more, than price times quantity.              *)
LimitNeverMore ==
  stage = "done" /\ request.kind = "limit" =>
    LET exact == request.price * request.amount
    IN  IF request.side = "BUY"
          THEN maker * Unit <= exact /\ taker <= request.amount
          ELSE taker * Unit <= exact /\ maker <= request.amount

(* Rounding price and quantity of a limit order down loses no more than one  *)
(* unit of the last digit that is kept of each.                             *)
LimitWithinRounding ==
  stage = "done" /\ request.kind = "limit" =>
    LET exact == request.price * request.amount
        value == IF request.side = "BUY" THEN maker ELSE taker
        keep == TenTo[PriceDigits + QuantityDigits - 2]
        loss == TenTo[PriceDigits - 1] + TenTo[QuantityDigits - 1]
    IN  exact * (keep - loss) <= keep * (value + 1) * Unit

(* "For BUY-by-USDT-budget, use MarketHelperValueInput with ValueWei."       *)
(* (README.md): the order spends no more than the budget.                   *)
BudgetRespected == Priced /\ ByValue => maker <= request.amount
=============================================================================
