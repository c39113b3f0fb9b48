------------------------- MODULE OrderAmountsProofs -------------------------
(***************************************************************************)
(* Proofs about OrderAmounts, for every book and request: amounts are       *)
(* natural numbers, a market order can be filled by the orders it was       *)
(* computed from, the walk takes the book level by level, and a BUY by      *)
(* value offers no more than the value.                                     *)
(***************************************************************************)
EXTENDS OrderAmounts, WeiMathProofs

-----------------------------------------------------------------------------
(***************************************************************************)
(* The inductive invariant.  Fillable compares the amounts with the cost of *)
(* the walk, so it rests on a comparison of that cost with the last price,  *)
(* which a next level of the same book only strengthens.                    *)
(***************************************************************************)

(* Nothing is taken before the walk. *)
NothingTaken == quantity = 0 /\ cost = 0 /\ last = 0

FreshWalk ==
  /\ stage \notin {"walk", "done"} => NothingTaken
  /\ stage = "walk" =>
       IF level = 1 THEN NothingTaken ELSE last = book[level - 1].price

(* In a sorted book the last price is the worst that was paid. *)
LastIsWorst ==
  Sorted =>
    /\ last <= Unit
    /\ IF request.side = "BUY" THEN cost <= last * quantity
                               ELSE last * quantity <= cost

Inv == TypeOK /\ FreshWalk /\ LastIsWorst /\ Fillable

(* The arguments and the book have the types of their fields. *)
LEMMA Inputs ==
  ASSUME TypeOK
  PROVE  /\ request \in Request
         /\ book \in Seq(Level)
         /\ Len(book) \in Nat
         /\ \A i \in 1..Len(book) : book[i] \in Level
BY AmountsAssumption, MathAssumption DEF TypeOK

(* The invariant holds at the start of a call. *)
LEMMA InitInv == Init => Inv
<1> SUFFICES ASSUME Init PROVE Inv
  OBVIOUS
<1>1. TypeOK
  <2>1. Len(book) \in Nat
    BY AmountsAssumption, MathAssumption DEF Init
  <2> QED
    BY <2>1 DEF Init, TypeOK
<1>2. FreshWalk /\ LastIsWorst /\ Fillable
  BY AmountsAssumption, MathAssumption DEF Init, FreshWalk, NothingTaken, LastIsWorst, Fillable, Priced
<1> QED
  BY <1>1, <1>2 DEF Inv

(* A step that leaves the walk alone and does not price a market order       *)
(* keeps the rest of the invariant.                                         *)
LEMMA BesideTheWalk ==
  ASSUME Inv, UNCHANGED <<request, book, quantity, cost, last>>,
         stage \in {"start", "spend", "count"},
         \/ stage' \in {"start", "spend", "count", "ErrInvalidQuantity"}
         \/ stage' = "walk" /\ level' = 1
         \/ stage' = "done" /\ request.kind = "limit"
  PROVE  FreshWalk' /\ LastIsWorst' /\ Fillable'
<1>1. FreshWalk'
  BY DEF Inv, FreshWalk, NothingTaken
<1>2. LastIsWorst'
  BY DEF Inv, LastIsWorst, Sorted
<1>3. Fillable'
  BY DEF Fillable, Priced
<1> QED
  BY <1>1, <1>2, <1>3

(* GetLimitOrderAmounts keeps the invariant. *)
LEMMA LimitInv == Inv /\ GetLimitOrderAmounts => Inv'
<1> SUFFICES ASSUME Inv, GetLimitOrderAmounts PROVE Inv'
  OBVIOUS
<1> DEFINE price == RetainSignificantDigits(request.price, PriceDigits)
           qty == RetainSignificantDigits(request.amount, QuantityDigits)
           value == (price * qty) \div Unit
<1>1. request.price \in Nat /\ request.amount \in Nat
  BY Inputs DEF Inv, Request
<1>2. price \in Nat /\ qty \in Nat
  BY <1>1, RetainedIsNat, AmountsAssumption, MathAssumption
<1>3. IF request.side = "BUY" THEN Done(value, qty) ELSE Done(qty, value)
  BY DEF GetLimitOrderAmounts, LimitValue, LimitPrice, LimitQuantity
<1> HIDE DEF price, qty
<1>4. value \in Nat
  BY <1>2, ProductIsNat, QuotientIsNat, AmountsAssumption, MathAssumption
<1> HIDE DEF value
<1>5. stage' = "done" /\ maker' \in Nat /\ taker' \in Nat
  BY <1>2, <1>3, <1>4 DEF Done
<1>6. TypeOK'
  BY <1>5 DEF Inv, TypeOK, GetLimitOrderAmounts, spendVars, walkVars
<1>7. FreshWalk' /\ LastIsWorst' /\ Fillable'
  BY <1>5, BesideTheWalk DEF GetLimitOrderAmounts, walkVars
<1> QED
  BY <1>6, <1>7 DEF Inv

(* GetMarketOrderAmounts, up to its first loop, keeps the invariant. *)
LEMMA MarketInv == Inv /\ GetMarketOrderAmounts => Inv'
<1> SUFFICES ASSUME Inv, GetMarketOrderAmounts PROVE Inv'
  OBVIOUS
<1>1. request.amount \in Nat /\ Len(book) \in Nat
  BY Inputs DEF Inv, Request
<1>2. stage' \in {"spend", "count"} /\ level' = 1 /\ shares' \in Nat
  BY <1>1 DEF GetMarketOrderAmounts, Go, Inv, TypeOK
<1>3. TypeOK'
  BY <1>1, <1>2 DEF Inv, TypeOK, GetMarketOrderAmounts, walkVars, amounts
<1>4. FreshWalk' /\ LastIsWorst' /\ Fillable'
  BY <1>2, BesideTheWalk DEF GetMarketOrderAmounts, walkVars
<1> QED
  BY <1>3, <1>4 DEF Inv

(* A refusal keeps the invariant. *)
LEMMA RefuseInv == Inv /\ RefuseAmount => Inv'
<1> SUFFICES ASSUME Inv, RefuseAmount PROVE Inv'
  OBVIOUS
<1>1. TypeOK'
  BY DEF Inv, TypeOK, RefuseAmount, spendVars, walkVars, amounts
<1>2. FreshWalk' /\ LastIsWorst' /\ Fillable'
  BY BesideTheWalk DEF RefuseAmount, walkVars
<1> QED
  BY <1>1, <1>2 DEF Inv

(* The level the loop is at, when there is one. *)
LEMMA ThisLevel ==
  ASSUME TypeOK, level <= Len(book)
  PROVE  /\ level \in 1..Len(book)
         /\ level + 1 \in 1..(Len(book) + 1)
         /\ book[level].price \in Nat
         /\ book[level].quantity \in Nat
BY Inputs DEF TypeOK, Level

(* A whole tier bought keeps the invariant. *)
LEMMA TierInv == Inv /\ BuyTier => Inv'
<1> SUFFICES ASSUME Inv, BuyTier PROVE Inv'
  OBVIOUS
<1>1. /\ level + 1 \in 1..(Len(book) + 1)
      /\ book[level].price \in Nat
      /\ book[level].quantity \in Nat
  BY ThisLevel DEF Inv, BuyTier, Spending
<1>2. tierTotalPrice \in Nat
  BY <1>1, ProductIsNat, QuotientIsNat, AmountsAssumption, MathAssumption DEF tierTotalPrice
<1>3. shares' \in Nat /\ spent' \in Nat /\ level' \in 1..(Len(book) + 1)
  BY <1>1, <1>2 DEF BuyTier, Inv, TypeOK
<1>4. TypeOK'
  BY <1>3 DEF Inv, TypeOK, BuyTier, walkVars, amounts
<1>5. FreshWalk' /\ LastIsWorst' /\ Fillable'
  BY BesideTheWalk DEF BuyTier, Spending, walkVars
<1> QED
  BY <1>4, <1>5 DEF Inv

(* A fraction of a tier bought keeps the invariant: its price is not zero. *)
LEMMA FractionInv == Inv /\ BuyFraction => Inv'
<1> SUFFICES ASSUME Inv, BuyFraction PROVE Inv'
  OBVIOUS
<1> DEFINE p == book[level].price
           fraction == (remainingSpend * Unit) \div p
<1>1. p \in Nat /\ book[level].quantity \in Nat /\ Len(book) \in Nat
  BY ThisLevel, Inputs DEF Inv, BuyFraction, Spending
<1>2. remainingSpend \in Nat /\ remainingSpend > 0
  BY Inputs DEF remainingSpend, Inv, TypeOK, Request, BuyFraction, Spending
<1>3. p # 0
  <2> SUFFICES ASSUME p = 0 PROVE FALSE
    OBVIOUS
  <2>1. p * book[level].quantity = 0
    BY <1>1
  <2>2. tierTotalPrice = 0
    BY <2>1, AmountsAssumption, MathAssumption DEF tierTotalPrice
  <2> QED
    BY <1>2, <2>2 DEF BuyFraction
<1>4. fraction \in Nat
  BY <1>1, <1>2, <1>3, ProductIsNat, QuotientIsNat, AmountsAssumption, MathAssumption
<1>5. shares' = shares + fraction /\ spent' = spent + (p * fraction) \div Unit
  BY DEF BuyFraction
<1> HIDE DEF fraction, p
<1>6. (p * fraction) \div Unit \in Nat
  BY <1>1, <1>4, ProductIsNat, QuotientIsNat, AmountsAssumption, MathAssumption
<1>7. shares' \in Nat /\ spent' \in Nat
  BY <1>4, <1>5, <1>6 DEF Inv, TypeOK
<1>8. stage' = "count" /\ level' \in 1..(Len(book) + 1)
  BY <1>1 DEF BuyFraction, Go
<1>9. TypeOK'
  BY <1>7, <1>8 DEF Inv, TypeOK, BuyFraction, walkVars, amounts
<1>10. FreshWalk' /\ LastIsWorst' /\ Fillable'
  BY <1>8, BesideTheWalk DEF BuyFraction, Spending, walkVars
<1> QED
  BY <1>9, <1>10 DEF Inv

(* The end of the loop over the tiers keeps the invariant. *)
LEMMA EndSpendingInv == Inv /\ EndSpending => Inv'
<1> SUFFICES ASSUME Inv, EndSpending PROVE Inv'
  OBVIOUS
<1>1. stage' = "count" /\ level' \in 1..(Len(book) + 1)
  BY Inputs DEF EndSpending, Go, Inv
<1>2. TypeOK'
  BY <1>1 DEF Inv, TypeOK, EndSpending, spendVars, walkVars, amounts
<1>3. FreshWalk' /\ LastIsWorst' /\ Fillable'
  BY <1>1, BesideTheWalk DEF EndSpending, walkVars
<1> QED
  BY <1>2, <1>3 DEF Inv

(* Rounding the number of shares keeps the invariant. *)
LEMMA RoundInv == Inv /\ RoundShares => Inv'
<1> SUFFICES ASSUME Inv, RoundShares PROVE Inv'
  OBVIOUS
<1> DEFINE qty == RetainSignificantDigits(shares, QuantityDigits)
<1>1. qty \in Nat
  BY RetainedIsNat, AmountsAssumption, MathAssumption DEF Inv, TypeOK
<1>2. \/ /\ stage' = "ErrInvalidQuantity"
         /\ UNCHANGED <<level, wanted, remaining>>
      \/ /\ stage' = "walk" /\ level' = 1
         /\ wanted' = qty /\ remaining' = qty
  BY DEF RoundShares, Go
<1> HIDE DEF qty
<1>3. Len(book) \in Nat
  BY Inputs DEF Inv
<1>4. TypeOK'
  BY <1>1, <1>2, <1>3 DEF Inv, TypeOK, RoundShares, spendVars, amounts
<1>5. FreshWalk' /\ LastIsWorst' /\ Fillable'
  BY <1>2, BesideTheWalk DEF RoundShares
<1> QED
  BY <1>4, <1>5 DEF Inv

(* One level of the walk keeps the invariant.  What the levels before it     *)
(* cost is compared with its price first, then its own cost is added.       *)
LEMMA TakeInv == Inv /\ TakeLevel => Inv'
<1> SUFFICES ASSUME Inv, TakeLevel PROVE Inv'
  OBVIOUS
<1> DEFINE p == book[level].price
           taken == Min(remaining, book[level].quantity)
<1>1. /\ level \in 1..Len(book) /\ level + 1 \in 1..(Len(book) + 1)
      /\ p \in Nat /\ book[level].quantity \in Nat
  BY ThisLevel DEF Inv, TakeLevel, Walking
<1>2. taken \in Nat /\ remaining - taken \in Nat
  BY <1>1 DEF Min, Inv, TypeOK
<1>3. /\ quantity' = quantity + taken
      /\ cost' = cost + p * taken
      /\ remaining' = remaining - taken
      /\ last' = p
      /\ level' = level + 1
      /\ UNCHANGED <<request, book, stage>>
      /\ stage = "walk"
  BY DEF TakeLevel, Walking
<1>4. quantity \in Nat /\ cost \in Nat /\ last \in Nat
  BY DEF Inv, TypeOK
<1> HIDE DEF taken
<1>5. p * taken \in Nat
  BY <1>1, <1>2, ProductIsNat
<1>6. TypeOK'
  <2>1. quantity' \in Nat /\ cost' \in Nat /\ remaining' \in Nat /\ last' \in Nat
    BY <1>1, <1>2, <1>3, <1>4, <1>5
  <2> QED
    BY <1>1, <1>3, <2>1 DEF Inv, TypeOK, TakeLevel, spendVars, amounts
<1>7. FreshWalk'
  BY <1>1, <1>3 DEF FreshWalk
<1>8. LastIsWorst'
  <2> SUFFICES ASSUME Sorted
               PROVE  /\ p <= Unit
                      /\ IF request.side = "BUY"
                           THEN cost + p * taken <= p * (quantity + taken)
                           ELSE p * (quantity + taken) <= cost + p * taken
    BY <1>3 DEF LastIsWorst, Sorted
  <2>1. p <= Unit
    BY <1>1 DEF Sorted
  <2>2. p * (quantity + taken) = p * quantity + p * taken
    BY <1>1, <1>2, <1>4, ProductOfSum
  <2>3. /\ p * quantity \in Nat /\ last * quantity \in Nat
    BY <1>1, <1>4, ProductIsNat
  <2>4. CASE level = 1
    <3>1. quantity = 0 /\ cost = 0
      BY <1>3, <2>4 DEF Inv, FreshWalk, NothingTaken
    <3> QED
      BY <1>1, <1>2, <1>5, <2>1, <3>1
  <2>5. CASE level # 1
    <3>1. last = book[level - 1].price
      BY <1>3, <2>5 DEF Inv, FreshWalk
    <3>2. level - 1 \in 1..(Len(book) - 1) /\ (level - 1) + 1 = level
      BY <1>1, <2>5, Inputs DEF Inv
    <3>3. IF request.side = "BUY" THEN last <= p ELSE p <= last
      BY <3>1, <3>2, <1>1, <1>4 DEF Sorted
    <3>4. IF request.side = "BUY" THEN last * quantity <= p * quantity
                                  ELSE p * quantity <= last * quantity
      BY <1>1, <1>4, <3>3, ProductMonotone
    <3>5. IF request.side = "BUY" THEN cost <= last * quantity
                                  ELSE last * quantity <= cost
      BY DEF Inv, LastIsWorst
    <3> HIDE DEF p
    <3>6. IF request.side = "BUY" THEN cost <= p * quantity
                                  ELSE p * quantity <= cost
      BY <1>4, <2>3, <3>4, <3>5
    <3> QED
      BY <1>4, <1>5, <2>1, <2>2, <2>3, <3>6
  <2> QED
    BY <2>4, <2>5
<1>9. Fillable'
  BY <1>3 DEF Fillable, Priced
<1> QED
  BY <1>6, <1>7, <1>8, <1>9 DEF Inv

(* A discounted amount is a natural number and no larger, ... *)
LEMMA LessIsLess ==
  ASSUME request \in Request, NEW n \in Nat
  PROVE  Less(n) \in Nat /\ Less(n) <= n
<1> DEFINE s == request.slippage
           product == n * (Bps - s)
           discounted == product \div Bps
<1>1. s \in Nat /\ Bps \in Nat \ {0}
  BY AmountsAssumption, MathAssumption DEF Request
<1>2. Less(n) = IF s > 0 THEN Max(discounted, 0) ELSE n
  BY DEF Less
<1> HIDE DEF s
<1>3. product \in Int /\ product <= Bps * n
  BY <1>1, SMT
<1> HIDE DEF product
<1>4. discounted \in Int /\ discounted <= n
  BY <1>1, <1>3, QuotientAtMost
<1> HIDE DEF discounted
<1> QED
  BY <1>2, <1>4 DEF Max

(* ... an inflated one is no smaller than what the quantity allows. *)
LEMMA MoreIsMore ==
  ASSUME request \in Request, quantity \in Nat, NEW n \in Nat
  PROVE  /\ More(n) \in Nat
         /\ n <= quantity => n <= More(n)
<1> DEFINE s == request.slippage
           product == n * (Bps + s)
           inflated == product \div Bps
<1>1. s \in Nat /\ Bps \in Nat \ {0}
  BY AmountsAssumption, MathAssumption DEF Request
<1>2. More(n) = IF s > 0 THEN Min(inflated, quantity) ELSE n
  BY DEF More
<1> HIDE DEF s
<1>3. product \in Nat /\ Bps * n <= product
  BY <1>1, SMT
<1> HIDE DEF product
<1>4. inflated \in Nat /\ n <= inflated
  BY <1>1, <1>3, QuotientIsNat, QuotientAtLeast
<1> HIDE DEF inflated
<1> QED
  BY <1>2, <1>4 DEF Min

(* Pricing a market order keeps the invariant and makes it fillable. *)
LEMMA SettleInv == Inv /\ Settle => Inv'
<1> SUFFICES ASSUME Inv, Settle PROVE Inv'
  OBVIOUS
<1>1. /\ request \in Request
      /\ quantity \in Nat /\ cost \in Nat /\ last \in Nat
      /\ Unit \in Nat \ {0}
      /\ UNCHANGED <<request, book, level, spendVars, walkVars>>
  BY Inputs, AmountsAssumption, MathAssumption DEF Inv, TypeOK, Settle
<1>2. last * quantity \in Nat
  BY <1>1, ProductIsNat
<1>3. base \in Nat /\ cost \div Unit \in Nat
  BY <1>1, <1>2, QuotientIsNat DEF base
<1>4. signedShares \in Nat
  BY <1>1, QuotientIsNat DEF signedShares
<1>5. stage' = "done" /\ maker' \in Nat /\ taker' \in Nat
  BY <1>1, <1>3, <1>4, LessIsLess, MoreIsMore DEF Settle, Done
<1>6. TypeOK'
  BY <1>1, <1>5 DEF Inv, TypeOK, spendVars, walkVars
<1>7. FreshWalk' /\ LastIsWorst'
  BY <1>1, <1>5 DEF Inv, FreshWalk, LastIsWorst, Sorted, walkVars
<1>8. Fillable'
  <2> SUFFICES ASSUME Sorted
               PROVE  IF request.side = "BUY"
                        THEN cost \div Unit <= maker' /\ taker' <= quantity
                        ELSE quantity <= maker' /\ taker' <= cost \div Unit
    BY <1>1 DEF Fillable, Sorted, walkVars
  <2>1. last <= Unit
    BY DEF Inv, LastIsWorst
  <2>2. CASE request.side = "SELL"
    <3>1. maker' = quantity /\ taker' = Less(base)
      BY <2>2 DEF Settle, Done
    <3>2. last * quantity <= cost
      BY <2>2 DEF Inv, LastIsWorst
    <3>3. base <= cost \div Unit
      BY <1>1, <1>2, <3>2, QuotientMonotone DEF base
    <3>4. Less(base) \in Nat /\ Less(base) <= base
      BY <1>1, <1>3, LessIsLess
    <3> QED
      BY <1>1, <1>3, <2>2, <3>1, <3>3, <3>4
  <2>3. CASE request.side = "BUY"
    <3>1. cost <= last * quantity
      BY <2>3 DEF Inv, LastIsWorst
    <3>2. CASE request.isMinAmountOut
      <4>1. maker' = cost \div Unit /\ taker' = Less(signedShares)
        BY <2>3, <3>2 DEF Settle, Done
      <4>2. signedShares <= quantity
        BY <1>1, <3>1, QuotientAtMost DEF signedShares
      <4>3. Less(signedShares) \in Nat /\ Less(signedShares) <= signedShares
        BY <1>1, <1>4, LessIsLess
      <4> QED
        BY <1>1, <1>3, <1>4, <2>3, <4>1, <4>2, <4>3
    <3>3. CASE ~request.isMinAmountOut
      <4>1. maker' = More(base) /\ taker' = quantity
        BY <2>3, <3>3 DEF Settle, Done
      <4>2. cost \div Unit <= base
        BY <1>1, <1>2, <3>1, QuotientMonotone DEF base
      <4>3. base <= quantity
        <5>1. last * quantity <= Unit * quantity
          BY <1>1, <2>1, ProductMonotone
        <5> QED
          BY <1>1, <1>2, <5>1, QuotientAtMost DEF base
      <4>4. More(base) \in Nat /\ base <= More(base)
        BY <1>1, <1>3, <4>3, MoreIsMore
      <4> QED
        BY <1>1, <1>3, <2>3, <4>1, <4>2, <4>4
    <3> QED
      BY <3>2, <3>3
  <2> QED
    BY <1>1, <2>2, <2>3 DEF Request
<1> QED
  BY <1>6, <1>7, <1>8 DEF Inv

(* Every step of a call keeps the invariant. *)
LEMMA NextInv == Inv /\ [Next]_vars => Inv'
<1> SUFFICES ASSUME Inv, [Next]_vars PROVE Inv'
  OBVIOUS
<1>1. CASE Next
  BY <1>1, LimitInv, MarketInv, RefuseInv, TierInv, FractionInv, EndSpendingInv,
     RoundInv, TakeInv, SettleInv DEF Next
<1>2. CASE UNCHANGED vars
  BY <1>2 DEF vars, spendVars, walkVars, amounts, Inv, TypeOK, FreshWalk,
     NothingTaken, LastIsWorst, Fillable, Priced, Sorted
<1> QED
  BY <1>1, <1>2

(* The invariant holds in every reachable state. *)
THEOREM Invariance == Spec => []Inv
BY InitInv, NextInv, PTL DEF Spec

(* Amounts, loop positions and sums are natural numbers throughout, for      *)
(* every slippage: also one of more than 100 %.                             *)
THEOREM TypeCorrect == Spec => []TypeOK
<1>1. Inv => TypeOK
  BY DEF Inv
<1> QED
  BY <1>1, Invariance, PTL

(* Every market order can be filled by the orders it was computed from, for  *)
(* every sorted book, quantity, value and slippage.                         *)
THEOREM MarketOrderIsFillable == Spec => []Fillable
<1>1. Inv => Fillable
  BY DEF Inv
<1> QED
  BY <1>1, Invariance, PTL

-----------------------------------------------------------------------------
(* Only GetLimitOrderAmounts prices a limit order. *)
LimitOnly ==
  /\ stage \in {"spend", "count", "walk"} => request.kind # "limit"
  /\ LimitNeverMore
  /\ LimitWithinRounding

(* A limit order pays at most price times quantity for at most the quantity. *)
LEMMA LimitAmounts ==
  ASSUME TypeOK, GetLimitOrderAmounts
  PROVE  LimitNeverMore'
<1> DEFINE qty == LimitQuantity(request.amount)
           value == LimitValue(request.price, request.amount)
           exact == request.price * request.amount
<1>1. request.price \in Nat /\ request.amount \in Nat
  BY Inputs DEF Request
<1>2. value * Unit <= exact
  BY <1>1, LimitIsLess
<1>3. qty <= request.amount
  BY <1>1, RetainedIsNat, MathAssumption DEF LimitQuantity
<1>4. IF request.side = "BUY" THEN Done(value, qty) ELSE Done(qty, value)
  BY DEF GetLimitOrderAmounts
<1>5. UNCHANGED request
  BY DEF GetLimitOrderAmounts
<1> HIDE DEF value, qty, exact
<1>6. IF request.side = "BUY"
        THEN maker' * Unit <= exact /\ taker' <= request.amount
        ELSE taker' * Unit <= exact /\ maker' <= request.amount
  BY <1>2, <1>3, <1>4 DEF Done
<1> QED
  BY <1>5, <1>6 DEF LimitNeverMore, exact

(* Of its exact value is lost what the rounding of price and quantity takes. *)
LEMMA LimitLoss ==
  ASSUME TypeOK, GetLimitOrderAmounts
  PROVE  LimitWithinRounding'
<1> DEFINE qty == LimitQuantity(request.amount)
           value == LimitValue(request.price, request.amount)
           exact == request.price * request.amount
           keep == TenTo[PriceDigits + QuantityDigits - 2]
           loss == TenTo[PriceDigits - 1] + TenTo[QuantityDigits - 1]
<1>1. request.price \in Nat /\ request.amount \in Nat
  BY Inputs DEF Request
<1>2. exact * (keep - loss) <= keep * (value + 1) * Unit
  BY <1>1, LimitLosesLittle
<1>3. IF request.side = "BUY" THEN Done(value, qty) ELSE Done(qty, value)
  BY DEF GetLimitOrderAmounts
<1>4. UNCHANGED request
  BY DEF GetLimitOrderAmounts
<1> HIDE DEF value, qty, exact, keep, loss
<1>5. value = IF request.side = "BUY" THEN maker' ELSE taker'
  BY <1>3 DEF Done
<1> QED
  BY <1>2, <1>4, <1>5 DEF LimitWithinRounding, exact, keep, loss

(* Every step keeps it. *)
LEMMA NextLimit == TypeOK /\ LimitOnly /\ [Next]_vars => LimitOnly'
<1> SUFFICES ASSUME TypeOK, LimitOnly, [Next]_vars PROVE LimitOnly'
  OBVIOUS
<1>1. CASE GetLimitOrderAmounts
  <2>1. stage' = "done"
    BY <1>1 DEF GetLimitOrderAmounts, Done
  <2> QED
    BY <1>1, <2>1, LimitAmounts, LimitLoss DEF LimitOnly
<1>2. CASE GetMarketOrderAmounts \/ RefuseAmount
  BY <1>2 DEF GetMarketOrderAmounts, RefuseAmount, Go, LimitOnly, LimitNeverMore,
              LimitWithinRounding
<1>3. CASE BuyTier \/ BuyFraction \/ EndSpending
  BY <1>3 DEF BuyTier, BuyFraction, EndSpending, Spending, Go, LimitOnly,
              LimitNeverMore, LimitWithinRounding
<1>4. CASE RoundShares
  BY <1>4 DEF RoundShares, Go, LimitOnly, LimitNeverMore,
              LimitWithinRounding
<1>5. CASE TakeLevel \/ Settle
  BY <1>5 DEF TakeLevel, Walking, Settle, Done, LimitOnly, LimitNeverMore,
              LimitWithinRounding
<1>6. CASE UNCHANGED vars
  BY <1>6 DEF vars, amounts, LimitOnly, LimitNeverMore,
              LimitWithinRounding
<1> QED
  BY <1>1, <1>2, <1>3, <1>4, <1>5, <1>6 DEF Next

(* A limit order never trades more than asked for, nor at a worse price.     *)
THEOREM LimitOrderNeverMore == Spec => []LimitNeverMore
<1>1. Init => LimitOnly
  BY DEF Init, LimitOnly, LimitNeverMore, LimitWithinRounding
<1>2. LimitOnly => LimitNeverMore
  BY DEF LimitOnly
<1> QED
  BY <1>1, <1>2, TypeCorrect, NextLimit, PTL DEF Spec

(* A limit order loses no more than one unit of the last digit that is kept  *)
(* of its price and of its quantity, and less than one wei.                 *)
THEOREM LimitOrderWithinRounding == Spec => []LimitWithinRounding
<1>1. Init => LimitOnly
  BY DEF Init, LimitOnly, LimitNeverMore, LimitWithinRounding
<1>2. LimitOnly => LimitWithinRounding
  BY DEF LimitOnly
<1> QED
  BY <1>1, <1>2, TypeCorrect, NextLimit, PTL DEF Spec

-----------------------------------------------------------------------------
(***************************************************************************)
(* The sums over the book.                                                  *)
(***************************************************************************)

(* RunningSum is defined: each sum is the one before and one term more. *)
LEMMA RunningSumDefined ==
  ASSUME NEW n \in Nat, NEW terms \in [1..n -> Nat]
  PROVE  /\ RunningSum(terms) \in [0..n -> Nat]
         /\ RunningSum(terms)[0] = 0
         /\ \A i \in 1..n :
              RunningSum(terms)[i] = RunningSum(terms)[i - 1] + terms[i]
<1> DEFINE step == [i \in 1..n |-> [v \in Nat |-> v + terms[i]]]
           S == RunningSum(terms)
<1>1. Len(terms) = n
  OBVIOUS
<1>2. step \in [1..n -> [Nat -> Nat]]
  OBVIOUS
<1> HIDE DEF step
<1>3. PICK f \in [0..n -> Nat] :
        \A i \in 0..n : f[i] = IF i = 0 THEN 0 ELSE step[i][f[i - 1]]
  BY <1>2, RecursionOnInterval
<1>4. ASSUME NEW i \in 1..n, NEW v \in Nat PROVE step[i][v] = v + terms[i]
  BY DEF step
<1>5. f = [i \in 0..n |-> IF i = 0 THEN 0 ELSE f[i - 1] + terms[i]]
  <2>1. ASSUME NEW i \in 0..n
        PROVE  f[i] = IF i = 0 THEN 0 ELSE f[i - 1] + terms[i]
    <3>1. i # 0 => i \in 1..n /\ f[i - 1] \in Nat
      OBVIOUS
    <3> QED
      BY <1>3, <1>4, <3>1
  <2> QED
    BY <2>1
<1>6. S = [i \in 0..n |-> IF i = 0 THEN 0 ELSE S[i - 1] + terms[i]]
  BY <1>1, <1>5 DEF RunningSum
<1> HIDE DEF S
<1>7. S[0] = 0 /\ \A i \in 1..n : S[i] = S[i - 1] + terms[i]
  BY <1>6
<1> DEFINE typed == {i \in 0..n : S[i] \in Nat}
<1>8. 0 \in typed
  BY <1>7
<1>9. ASSUME NEW i \in 1..n, i - 1 \in typed PROVE i \in typed
  BY <1>7, <1>9
<1> HIDE DEF typed
<1>10. 0..n \subseteq typed
  BY <1>8, <1>9, InductionOnInterval
<1>11. S \in [0..n -> Nat]
  BY <1>6, <1>10 DEF typed
<1> QED
  BY <1>7, <1>11 DEF S

(* A level of a book. *)
LEMMA LevelOfBook ==
  ASSUME book \in Seq(Level), NEW i \in 1..Len(book)
  PROVE  book[i].price \in Nat /\ book[i].quantity \in Nat
<1>1. book[i] \in Level
  OBVIOUS
<1> QED
  BY <1>1 DEF Level

(* The depth of the book, level by level. *)
LEMMA DepthDefined ==
  ASSUME book \in Seq(Level)
  PROVE  /\ \A i \in 0..Len(book) : Depth(i) \in Nat
         /\ Depth(0) = 0
         /\ \A i \in 1..Len(book) : Depth(i) = Depth(i - 1) + book[i].quantity
<1> DEFINE n == Len(book)
           terms == [i \in 1..n |-> book[i].quantity]
<1>1. n \in Nat /\ terms \in [1..n -> Nat]
  BY LevelOfBook
<1>2. \A i : Depth(i) = RunningSum(terms)[i]
  BY DEF Depth
<1>3. \A i \in 1..n : terms[i] = book[i].quantity
  OBVIOUS
<1> HIDE DEF n, terms
<1> QED
  BY <1>1, <1>2, <1>3, RunningSumDefined DEF n

(* What a level gives of up to q shares, those before it having been taken.  *)
Share(q, i) == Min(book[i].quantity, Max(q - Depth(i - 1), 0))

(* The cost of up to q shares, level by level. *)
LEMMA CostDefined ==
  ASSUME book \in Seq(Level), NEW q \in Nat
  PROVE  /\ \A i \in 0..Len(book) : CostOf(q, i) \in Nat
         /\ CostOf(q, 0) = 0
         /\ \A i \in 1..Len(book) :
              /\ book[i].price \in Nat /\ Share(q, i) \in Nat
              /\ CostOf(q, i) = CostOf(q, i - 1) + book[i].price * Share(q, i)
<1> DEFINE n == Len(book)
           terms == [i \in 1..n |-> book[i].price * Share(q, i)]
<1>1. ASSUME NEW i \in 1..n
      PROVE  book[i].price \in Nat /\ Share(q, i) \in Nat
  <2>1. book[i].price \in Nat /\ book[i].quantity \in Nat /\ Depth(i - 1) \in Nat
    BY LevelOfBook, DepthDefined
  <2> QED
    BY <2>1 DEF Share, Min, Max
<1>2. n \in Nat
  OBVIOUS
<1>3. terms \in [1..n -> Nat]
  BY <1>1, ProductIsNat
<1>4. \A i : CostOf(q, i) = RunningSum(terms)[i]
  BY DEF CostOf, Share
<1>5. \A i \in 1..n : terms[i] = book[i].price * Share(q, i)
  OBVIOUS
<1> HIDE DEF n, terms
<1>6. /\ \A i \in 0..n : RunningSum(terms)[i] \in Nat
      /\ RunningSum(terms)[0] = 0
      /\ \A i \in 1..n :
           RunningSum(terms)[i] = RunningSum(terms)[i - 1] + terms[i]
  BY <1>2, <1>3, RunningSumDefined
<1> QED
  BY <1>1, <1>4, <1>5, <1>6 DEF n

(* Further levels neither give nor charge anything for what those before      *)
(* have given, ...                                                          *)
LEMMA BeyondTheWanted ==
  ASSUME book \in Seq(Level), NEW q \in Nat, NEW m \in 0..Len(book),
         q <= Depth(m)
  PROVE  q <= Depth(Len(book)) /\ CostOf(q, Len(book)) = CostOf(q, m)
<1> DEFINE n == Len(book)
           same == {i \in 0..n : i >= m => q <= Depth(i) /\ CostOf(q, i) = CostOf(q, m)}
<1>1. n \in Nat /\ m \in Nat /\ m <= n
  OBVIOUS
<1>2. 0 \in same
  BY <1>1
<1>3. ASSUME NEW i \in 1..n, i - 1 \in same PROVE i \in same
  <2> SUFFICES ASSUME i > m PROVE q <= Depth(i) /\ CostOf(q, i) = CostOf(q, m)
    BY <1>1
  <2>1. i - 1 >= m /\ i - 1 \in 0..n
    BY <1>1
  <2>2. q <= Depth(i - 1) /\ CostOf(q, i - 1) = CostOf(q, m)
    BY <1>3, <2>1
  <2>3. Depth(i) \in Nat /\ Depth(i - 1) \in Nat /\ book[i].quantity \in Nat
        /\ Depth(i) = Depth(i - 1) + book[i].quantity
    BY <1>1, <2>1, LevelOfBook, DepthDefined
  <2>4. Share(q, i) = 0
    <3>1. Max(q - Depth(i - 1), 0) = 0
      BY <2>2, <2>3 DEF Max
    <3> QED
      BY <2>3, <3>1 DEF Share, Min
  <2>5. CostOf(q, i) = CostOf(q, i - 1) + book[i].price * Share(q, i)
        /\ book[i].price \in Nat /\ CostOf(q, i - 1) \in Nat
    BY <2>1, CostDefined
  <2> QED
    BY <2>2, <2>3, <2>4, <2>5
<1> HIDE DEF same
<1>4. 0..n \subseteq same
  BY <1>1, <1>2, <1>3, InductionOnInterval
<1>5. n \in same
  BY <1>1, <1>4
<1> QED
  BY <1>1, <1>5 DEF same

(* ... levels that are taken whole charge the same for all that is wanted,   *)
(* ...                                                                      *)
LEMMA WithinTheWanted ==
  ASSUME book \in Seq(Level), NEW q \in Nat, NEW r \in Nat,
         NEW m \in 0..Len(book), Depth(m) <= q, Depth(m) <= r
  PROVE  CostOf(q, m) = CostOf(r, m)
<1> DEFINE n == Len(book)
           more == {k \in 0..m : Depth(m - k) <= Depth(m)}
           same == {i \in 0..m : CostOf(q, i) = CostOf(r, i)}
<1>1. n \in Nat /\ m \in Nat /\ m <= n
  OBVIOUS
<1>2. 0..m \subseteq more
  <2>1. 0 \in more
    BY <1>1, DepthDefined
  <2>2. ASSUME NEW k \in 1..m, k - 1 \in more PROVE k \in more
    <3>1. m - (k - 1) \in 1..n /\ (m - (k - 1)) - 1 = m - k /\ m - k \in 0..n
      BY <1>1
    <3>2. Depth(m - (k - 1)) = Depth(m - k) + book[m - (k - 1)].quantity
      BY <3>1, DepthDefined
    <3>3. book[m - (k - 1)].quantity \in Nat
      BY <3>1, LevelOfBook
    <3>4. Depth(m - k) \in Nat /\ Depth(m) \in Nat
      BY <3>1, <1>1, DepthDefined
    <3>5. Depth(m - (k - 1)) <= Depth(m)
      BY <2>2
    <3> QED
      BY <3>2, <3>3, <3>4, <3>5
  <2> HIDE DEF more
  <2> QED
    BY <1>1, <2>1, <2>2, InductionOnInterval
<1>3. ASSUME NEW i \in 0..m PROVE Depth(i) <= Depth(m)
  <2>1. m - i \in 0..m /\ m - (m - i) = i
    BY <1>1
  <2>2. Depth(m - (m - i)) <= Depth(m)
    BY <1>2, <2>1
  <2> QED
    BY <2>1, <2>2
<1>4. 0 \in same
  BY <1>1, CostDefined
<1>5. ASSUME NEW i \in 1..m, i - 1 \in same PROVE i \in same
  <2>1. i \in 1..n /\ i - 1 \in 0..n /\ i \in 0..n /\ i \in 0..m
    BY <1>1
  <2>2. Depth(i) \in Nat /\ Depth(i - 1) \in Nat /\ Depth(m) \in Nat
        /\ book[i].quantity \in Nat
        /\ Depth(i) = Depth(i - 1) + book[i].quantity
    BY <1>1, <2>1, LevelOfBook, DepthDefined
  <2>3. Depth(i) <= Depth(m)
    BY <1>3, <2>1
  <2>4. Share(q, i) = book[i].quantity /\ Share(r, i) = book[i].quantity
    <3>1. /\ Max(q - Depth(i - 1), 0) = q - Depth(i - 1)
          /\ Max(r - Depth(i - 1), 0) = r - Depth(i - 1)
      BY <2>2, <2>3 DEF Max
    <3> QED
      BY <2>2, <2>3, <3>1 DEF Share, Min
  <2>5. /\ CostOf(q, i) = CostOf(q, i - 1) + book[i].price * Share(q, i)
        /\ CostOf(r, i) = CostOf(r, i - 1) + book[i].price * Share(r, i)
    BY <2>1, CostDefined
  <2> QED
    BY <1>5, <2>1, <2>4, <2>5
<1> HIDE DEF same
<1>6. 0..m \subseteq same
  BY <1>1, <1>4, <1>5, InductionOnInterval
<1> QED
  BY <1>1, <1>6 DEF same

(* ... and fewer shares cost no more. *)
LEMMA CostMonotone ==
  ASSUME book \in Seq(Level), NEW q \in Nat, NEW r \in Nat, q <= r
  PROVE  CostOf(q, Len(book)) <= CostOf(r, Len(book))
<1> DEFINE n == Len(book)
           less == {i \in 0..n : CostOf(q, i) <= CostOf(r, i)}
<1>1. n \in Nat
  OBVIOUS
<1>2. 0 \in less
  BY <1>1, CostDefined
<1>3. ASSUME NEW i \in 1..n, i - 1 \in less PROVE i \in less
  <2>1. i - 1 \in 0..n /\ i \in 0..n
    BY <1>1
  <2>2. /\ CostOf(q, i) = CostOf(q, i - 1) + book[i].price * Share(q, i)
        /\ CostOf(r, i) = CostOf(r, i - 1) + book[i].price * Share(r, i)
        /\ book[i].price \in Nat /\ Share(q, i) \in Nat /\ Share(r, i) \in Nat
        /\ CostOf(q, i - 1) \in Nat /\ CostOf(r, i - 1) \in Nat
    BY <2>1, CostDefined
  <2>3. Share(q, i) <= Share(r, i)
    <3>1. Depth(i - 1) \in Nat /\ book[i].quantity \in Nat
      BY <2>1, LevelOfBook, DepthDefined
    <3> QED
      BY <3>1 DEF Share, Min, Max
  <2> DEFINE a == book[i].price * Share(q, i)
             b == book[i].price * Share(r, i)
  <2>4. book[i].price <= book[i].price
    BY <2>2
  <2>5. a \in Nat /\ b \in Nat /\ a <= b
    BY <2>2, <2>3, <2>4, ProductsMonotone, ProductIsNat
  <2> HIDE DEF a, b
  <2>6. CostOf(q, i) = CostOf(q, i - 1) + a /\ CostOf(r, i) = CostOf(r, i - 1) + b
    BY <2>2 DEF a, b
  <2>7. CostOf(q, i - 1) <= CostOf(r, i - 1)
    BY <1>3
  <2> QED
    BY <2>1, <2>2, <2>5, <2>6, <2>7
<1> HIDE DEF less
<1>4. 0..n \subseteq less
  BY <1>1, <1>2, <1>3, InductionOnInterval
<1>5. n \in less
  BY <1>1, <1>4
<1> QED
  BY <1>5 DEF less

-----------------------------------------------------------------------------
(***************************************************************************)
(* The inductive invariant of the loops: what each has done so far.         *)
(***************************************************************************)

(* The walk has taken what is wanted of the levels before. *)
WalkSoFar ==
  stage \in {"walk", "done"} /\ request.kind # "limit" =>
    /\ quantity = Min(wanted, Depth(level - 1))
    /\ cost = CostOf(wanted, level - 1)
    /\ remaining = wanted - quantity
    /\ stage = "done" => remaining = 0 \/ level = Len(book) + 1

(* The value pays for the shares found so far, but for less than one wei for *)
(* each level, and for what is wanted of them afterwards.                   *)
Budget == Unit * (request.amount + Len(book))

ValueSoFar ==
  ByValue =>
    /\ stage = "start" => shares = 0 /\ spent = 0
    /\ stage = "spend" =>
         /\ shares = Depth(level - 1)
         /\ spent <= request.amount
         /\ CostOf(shares, level - 1) <= Unit * (spent + (level - 1))
    /\ stage = "count" => CostOf(shares, Len(book)) <= Budget
    /\ stage \in {"walk", "done"} => CostOf(wanted, Len(book)) <= Budget

LoopInv == WalkSoFar /\ ValueSoFar /\ MinOutWithinValue

(* The sums depend on the book alone. *)
LEMMA SumsOfBook ==
  ASSUME UNCHANGED book
  PROVE  \A q, n : Depth(n)' = Depth(n) /\ CostOf(q, n)' = CostOf(q, n)
BY DEF Depth, CostOf

(* When the walk is over, it has taken the book. *)
LEMMA WalkedAll ==
  ASSUME TypeOK,
         quantity = Min(wanted, Depth(level - 1)),
         cost = CostOf(wanted, level - 1),
         remaining = wanted - quantity,
         remaining = 0 \/ level = Len(book) + 1
  PROVE  /\ quantity = Min(wanted, Depth(Len(book)))
         /\ cost = CostOf(wanted, Len(book))
<1>1. /\ book \in Seq(Level) /\ Len(book) \in Nat
      /\ wanted \in Nat /\ quantity \in Nat /\ level - 1 \in 0..Len(book)
  BY Inputs DEF TypeOK
<1>2. CASE level = Len(book) + 1
  <2>1. level - 1 = Len(book)
    BY <1>1, <1>2
  <2> QED
    BY <2>1
<1>3. CASE remaining = 0
  <2>1. Depth(level - 1) \in Nat /\ Depth(Len(book)) \in Nat
    BY <1>1, DepthDefined
  <2>2. quantity = wanted /\ wanted <= Depth(level - 1)
    BY <1>1, <1>3, <2>1 DEF Min
  <2>3. wanted <= Depth(Len(book)) /\ CostOf(wanted, Len(book)) = CostOf(wanted, level - 1)
    BY <1>1, <2>2, BeyondTheWanted
  <2> QED
    BY <1>1, <2>1, <2>2, <2>3 DEF Min
<1> QED
  BY <1>2, <1>3

(* A step up to the walk keeps what is said of it. *)
LEMMA BeforeTheWalk ==
  ASSUME \/ stage' \in {"start", "spend", "count", "ErrInvalidQuantity"}
         \/ stage' = "done" /\ request'.kind = "limit"
  PROVE  WalkSoFar' /\ MinOutWithinValue'
BY DEF WalkSoFar, MinOutWithinValue, Priced

(* A limit order has no value to spend. *)
LEMMA StartLoop ==
  ASSUME Inv, LoopInv,
         GetLimitOrderAmounts \/ GetMarketOrderAmounts \/ RefuseAmount
  PROVE  LoopInv'
<1>1. CASE GetLimitOrderAmounts
  <2>1. stage' = "done" /\ request' = request /\ request.kind = "limit"
    BY <1>1 DEF GetLimitOrderAmounts, Done
  <2> QED
    BY <2>1, BeforeTheWalk DEF LoopInv, ValueSoFar, ByValue
<1>2. CASE RefuseAmount
  <2>1. stage' = "ErrInvalidQuantity"
    BY <1>2 DEF RefuseAmount
  <2> QED
    BY <2>1, BeforeTheWalk DEF LoopInv, ValueSoFar
<1>3. CASE GetMarketOrderAmounts /\ ~ByValue
  <2>1. stage' = "count" /\ request' = request
    BY <1>3 DEF GetMarketOrderAmounts, Go
  <2>2. ~ByValue'
    BY <1>3, <2>1 DEF ByValue
  <2> QED
    BY <2>1, <2>2, BeforeTheWalk DEF LoopInv, ValueSoFar
<1>4. CASE GetMarketOrderAmounts /\ ByValue
  <2>1. stage' = "spend" /\ level' = 1 /\ UNCHANGED <<request, book, shares, spent>>
    BY <1>4 DEF GetMarketOrderAmounts, Go
  <2>2. shares = 0 /\ spent = 0
    BY <1>4 DEF LoopInv, ValueSoFar, GetMarketOrderAmounts
  <2>3. /\ book \in Seq(Level) /\ Len(book) \in Nat /\ request.amount \in Nat
        /\ Unit \in Nat
    BY Inputs, MathAssumption DEF Inv, Request
  <2>4. Depth(0) = 0 /\ CostOf(0, 0) = 0
    BY <2>3, DepthDefined, CostDefined
  <2>5. 1 - 1 = 0 /\ CostOf(0, 0) <= Unit * (0 + 0)
    BY <2>3, <2>4
  <2>6. ValueSoFar'
    BY <2>1, <2>2, <2>3, <2>4, <2>5, SumsOfBook DEF ValueSoFar
  <2> QED
    BY <2>1, <2>6, BeforeTheWalk DEF LoopInv
<1> QED
  BY <1>1, <1>2, <1>3, <1>4

(* A whole tier costs its price times its quantity, less than one wei more    *)
(* than is counted for it.                                                  *)
LEMMA BuyTierLoop ==
  ASSUME Inv, LoopInv, BuyTier
  PROVE  LoopInv'
<1> DEFINE p == book[level].price
           n == book[level].quantity
           before == level - 1
           full == p * n
           counted == CostOf(shares, before)
<1>1. /\ book \in Seq(Level) /\ level \in 1..Len(book) /\ level \in 0..Len(book)
      /\ before \in Nat /\ before \in 0..Len(book) /\ level = before + 1
      /\ p \in Nat /\ n \in Nat /\ shares \in Nat /\ spent \in Nat
      /\ request.amount \in Nat /\ Unit \in Nat \ {0}
  BY ThisLevel, Inputs, MathAssumption DEF Inv, BuyTier, Spending, TypeOK, Request
<1>2. /\ stage = "spend" /\ stage' = "spend" /\ UNCHANGED <<request, book>>
      /\ shares' = shares + n /\ spent' = spent + tierTotalPrice
      /\ level' = level + 1 /\ tierTotalPrice <= request.amount - spent
      /\ tierTotalPrice = full \div Unit
  BY DEF BuyTier, Spending, remainingSpend, tierTotalPrice
<1>3. WalkSoFar' /\ MinOutWithinValue'
  BY <1>2, BeforeTheWalk
<1>4. CASE ~ByValue
  BY <1>2, <1>3, <1>4 DEF LoopInv, ValueSoFar, ByValue
<1>5. CASE ByValue
  <2>1. shares = Depth(before) /\ counted <= Unit * (spent + before)
    BY <1>2, <1>5 DEF LoopInv, ValueSoFar
  <2>2. Depth(level) = shares + n
    BY <1>1, <2>1, DepthDefined
  <2> DEFINE all == shares + n
  <2>3. all \in Nat /\ Depth(before) <= all /\ Depth(before) <= shares
    BY <1>1, <2>1
  <2>4. CostOf(all, before) = counted
    BY <1>1, <2>3, WithinTheWanted
  <2>5. Share(all, level) = n
    <3>1. Share(all, level) = Min(n, Max(all - shares, 0))
      BY <1>1, <2>1 DEF Share
    <3> QED
      BY <1>1, <3>1 DEF Min, Max
  <2>6. CostOf(all, level) = counted + full /\ counted \in Nat
    BY <1>1, <2>3, <2>4, <2>5, CostDefined
  <2> HIDE DEF full, counted, before
  <2>7. full \in Nat
    BY <1>1, ProductIsNat DEF full
  <2>8. tierTotalPrice \in Nat /\ full <= Unit * (tierTotalPrice + 1)
    BY <1>1, <1>2, <2>7, QuotientIsNat, QuotientLosesLittle
  <2>9. Unit * (spent + before) + Unit * (tierTotalPrice + 1)
          = Unit * ((spent + tierTotalPrice) + level)
    BY <1>1, <2>8
  <2>10. /\ Unit * (spent + before) \in Nat /\ Unit * (tierTotalPrice + 1) \in Nat
    BY <1>1, <2>8, ProductIsNat
  <2>11. CostOf(all, level) <= Unit * ((spent + tierTotalPrice) + level)
    BY <2>1, <2>6, <2>7, <2>8, <2>9, <2>10
  <2>12. (level + 1) - 1 = level /\ spent + tierTotalPrice <= request.amount
    BY <1>1, <1>2, <2>8
  <2>13. ValueSoFar'
    BY <1>2, <2>2, <2>11, <2>12, SumsOfBook DEF ValueSoFar
  <2> QED
    BY <1>3, <2>13 DEF LoopInv
<1> QED
  BY <1>4, <1>5

(* What is bought of a tier that is too dear costs no more than is left.      *)
LEMMA BuyFractionLoop ==
  ASSUME Inv, LoopInv, BuyFraction
  PROVE  LoopInv'
<1> DEFINE p == book[level].price
           n == book[level].quantity
           before == level - 1
           left == request.amount - spent
           fraction == (left * Unit) \div p
           counted == CostOf(shares, before)
           all == shares + fraction
<1>1. /\ book \in Seq(Level) /\ level \in 1..Len(book) /\ level \in 0..Len(book)
      /\ before \in Nat /\ before \in 0..Len(book) /\ level = before + 1
      /\ Len(book) \in Nat
      /\ p \in Nat /\ n \in Nat /\ shares \in Nat /\ spent \in Nat
      /\ request.amount \in Nat /\ Unit \in Nat \ {0}
  BY ThisLevel, Inputs, MathAssumption DEF Inv, BuyFraction, Spending, TypeOK, Request
<1>2. /\ stage = "spend" /\ stage' = "count" /\ UNCHANGED <<request, book>>
      /\ shares' = all /\ left > 0 /\ (p * n) \div Unit > left
  BY DEF BuyFraction, Spending, remainingSpend, tierTotalPrice, Go
<1>3. WalkSoFar' /\ MinOutWithinValue'
  BY <1>2, BeforeTheWalk
<1>4. CASE ~ByValue
  BY <1>2, <1>3, <1>4 DEF LoopInv, ValueSoFar, ByValue
<1>5. CASE ByValue
  <2>1. shares = Depth(before) /\ counted <= Unit * (spent + before)
    BY <1>2, <1>5 DEF LoopInv, ValueSoFar
  <2>2. left \in Nat
    BY <1>1, <1>2
  <2> HIDE DEF before, left, p, n
  <2>3. left * Unit <= p * n /\ p # 0
    BY <1>1, <1>2, <2>2, DearTier
  <2>4. left * Unit \in Nat
    BY <1>1, <2>2, ProductIsNat
  <2>5. fraction \in Nat /\ fraction <= n /\ fraction * p <= left * Unit
    <3> DEFINE money == left * Unit
    <3>1. money \in Nat /\ money <= p * n /\ p \in Nat \ {0} /\ n \in Nat
      BY <1>1, <2>3, <2>4 DEF p, n
    <3> HIDE DEF money
    <3>2. money \div p \in Nat /\ (money \div p) * p <= money
      BY <3>1, QuotientIsNat, MultipleIsLess
    <3>3. money \div p <= n
      BY <3>1, QuotientAtMost
    <3> QED
      BY <3>2, <3>3 DEF money
  <2> HIDE DEF fraction
  <2>6. all \in Nat /\ Depth(before) <= all /\ Depth(before) <= shares
    BY <1>1, <2>1, <2>5
  <2>7. CostOf(all, before) = counted
    BY <1>1, <2>6, WithinTheWanted
  <2>8. Share(all, level) = fraction
    <3>1. Share(all, level) = Min(n, Max(all - shares, 0))
      BY <1>1, <2>1 DEF Share, n, before
    <3> QED
      BY <1>1, <2>5, <3>1 DEF Min, Max
  <2>9. CostOf(all, level) = counted + p * fraction /\ counted \in Nat
    BY <1>1, <2>6, <2>7, <2>8, CostDefined DEF p, before
  <2>10. all <= Depth(level)
    <3>1. Depth(level) = shares + n
      BY <1>1, <2>1, DepthDefined DEF n, before
    <3> QED
      BY <1>1, <2>5, <3>1
  <2>11. CostOf(all, Len(book)) = CostOf(all, level)
    BY <1>1, <2>6, <2>10, BeyondTheWanted
  <2> HIDE DEF all, counted
  <2> DEFINE part == p * fraction
  <2>12. part \in Nat /\ part <= left * Unit
    BY <1>1, <2>5, ProductIsNat
  <2> HIDE DEF part
  <2>13. Unit * (spent + before) + left * Unit = Unit * (request.amount + before)
    BY <1>1, <2>2 DEF left
  <2>14. Unit * (request.amount + before) <= Budget
    <3>1. before <= Len(book) /\ request.amount + before \in Nat
          /\ request.amount + Len(book) \in Nat
          /\ request.amount + before <= request.amount + Len(book)
      BY <1>1
    <3>2. Unit <= Unit
      BY <1>1
    <3> QED
      BY <1>1, <3>1, <3>2, ProductsMonotone DEF Budget
  <2>15. /\ Unit * (spent + before) \in Nat /\ Unit * (request.amount + before) \in Nat
         /\ Budget \in Nat
    BY <1>1, ProductIsNat DEF Budget
  <2>16. CostOf(all, Len(book)) = counted + part
    BY <2>9, <2>11 DEF part
  <2>17. CostOf(all, Len(book)) <= Budget
    BY <2>1, <2>4, <2>9, <2>12, <2>13, <2>14, <2>15, <2>16
  <2>18. ValueSoFar'
    BY <1>2, <2>17, SumsOfBook DEF ValueSoFar, Budget
  <2> QED
    BY <1>3, <2>18 DEF LoopInv
<1> QED
  BY <1>4, <1>5

(* The book or the value is used up. *)
LEMMA EndSpendingLoop ==
  ASSUME Inv, LoopInv, EndSpending
  PROVE  LoopInv'
<1> DEFINE before == level - 1
<1>1. /\ book \in Seq(Level) /\ Len(book) \in Nat /\ before \in 0..Len(book)
      /\ before \in Nat /\ shares \in Nat /\ spent \in Nat
      /\ request.amount \in Nat /\ Unit \in Nat \ {0}
  BY Inputs, MathAssumption DEF Inv, TypeOK, Request
<1>2. /\ stage = "spend" /\ stage' = "count" /\ UNCHANGED <<request, book, shares>>
  BY DEF EndSpending, Go, spendVars
<1>3. WalkSoFar' /\ MinOutWithinValue'
  BY <1>2, BeforeTheWalk
<1>4. CASE ~ByValue
  BY <1>2, <1>3, <1>4 DEF LoopInv, ValueSoFar, ByValue
<1>5. CASE ByValue
  <2>1. /\ shares = Depth(before) /\ spent <= request.amount
        /\ CostOf(shares, before) <= Unit * (spent + before)
    BY <1>2, <1>5 DEF LoopInv, ValueSoFar
  <2> HIDE DEF before
  <2>2. shares <= Depth(before)
    BY <1>1, <2>1
  <2>3. CostOf(shares, Len(book)) = CostOf(shares, before)
        /\ CostOf(shares, before) \in Nat
    BY <1>1, <2>2, BeyondTheWanted, CostDefined
  <2>4. Unit * (spent + before) <= Budget
    <3>1. /\ spent + before \in Nat /\ request.amount + Len(book) \in Nat
          /\ spent + before <= request.amount + Len(book) /\ Unit <= Unit
      BY <1>1, <2>1
    <3> QED
      BY <1>1, <3>1, ProductsMonotone DEF Budget
  <2>5. Unit * (spent + before) \in Nat /\ Budget \in Nat
    BY <1>1, ProductIsNat DEF Budget
  <2>6. CostOf(shares, Len(book)) <= Budget
    BY <2>1, <2>3, <2>4, <2>5
  <2>7. ValueSoFar'
    BY <1>2, <2>6, SumsOfBook DEF ValueSoFar, Budget
  <2> QED
    BY <1>3, <2>7 DEF LoopInv
<1> QED
  BY <1>4, <1>5

(* Rounding the shares down does not make them cost more. *)
LEMMA RoundLoop ==
  ASSUME Inv, LoopInv, RoundShares
  PROVE  LoopInv'
<1> DEFINE qty == RetainSignificantDigits(shares, QuantityDigits)
<1>1. /\ book \in Seq(Level) /\ Len(book) \in Nat /\ shares \in Nat
      /\ request.amount \in Nat /\ Unit \in Nat \ {0} /\ QuantityDigits \in Nat
  BY Inputs, MathAssumption DEF Inv, TypeOK, Request
<1>2. qty \in Nat /\ qty <= shares
  BY <1>1, RetainedIsNat
<1>3. stage = "count" /\ UNCHANGED <<request, book, shares, quantity, cost>>
  BY DEF RoundShares, spendVars
<1>4. \/ stage' = "ErrInvalidQuantity"
      \/ stage' = "walk" /\ level' = 1 /\ wanted' = qty /\ remaining' = qty
  BY DEF RoundShares, Go
<1> HIDE DEF qty
<1>5. CASE stage' = "ErrInvalidQuantity"
  BY <1>3, <1>5, BeforeTheWalk DEF LoopInv, ValueSoFar
<1>6. CASE stage' = "walk" /\ level' = 1 /\ wanted' = qty /\ remaining' = qty
  <2>1. quantity = 0 /\ cost = 0
    BY <1>3 DEF Inv, FreshWalk, NothingTaken
  <2>2. Depth(0) = 0 /\ CostOf(qty, 0) = 0
    BY <1>1, <1>2, DepthDefined, CostDefined
  <2>3. Min(qty, 0) = 0 /\ qty = qty - 0 /\ 1 - 1 = 0
    BY <1>2 DEF Min
  <2>4. WalkSoFar' /\ MinOutWithinValue'
    BY <1>3, <1>6, <2>1, <2>2, <2>3, SumsOfBook
       DEF WalkSoFar, MinOutWithinValue, Priced
  <2>5. ByValue => CostOf(qty, Len(book)) <= Budget
    <3>1. ByValue => CostOf(shares, Len(book)) <= Budget
      BY <1>3 DEF LoopInv, ValueSoFar
    <3>2. CostOf(qty, Len(book)) <= CostOf(shares, Len(book))
      BY <1>1, <1>2, CostMonotone
    <3>3. /\ CostOf(qty, Len(book)) \in Nat /\ CostOf(shares, Len(book)) \in Nat
          /\ Budget \in Nat
      <4>1. Len(book) \in 0..Len(book)
        BY <1>1
      <4>2. request.amount + Len(book) \in Nat
        BY <1>1
      <4>3. Budget \in Nat
        BY <1>1, <4>2, ProductIsNat DEF Budget
      <4>4. \A q \in Nat : CostOf(q, Len(book)) \in Nat
        BY <1>1, <4>1, CostDefined
      <4> QED
        BY <1>1, <1>2, <4>3, <4>4
    <3> QED
      BY <3>1, <3>2, <3>3
  <2>6. ValueSoFar'
    BY <1>3, <1>6, <2>5, SumsOfBook DEF ValueSoFar, Budget, ByValue
  <2> QED
    BY <2>4, <2>6 DEF LoopInv
<1> QED
  BY <1>4, <1>5, <1>6

(* A level of the walk gives what is still wanted of it. *)
LEMMA TakeLoop ==
  ASSUME Inv, LoopInv, TakeLevel
  PROVE  LoopInv'
<1> DEFINE p == book[level].price
           n == book[level].quantity
           before == level - 1
           taken == Min(remaining, n)
<1>1. /\ book \in Seq(Level) /\ level \in 1..Len(book) /\ level \in 0..Len(book)
      /\ before \in 0..Len(book) /\ level = before + 1 /\ (level + 1) - 1 = level
      /\ p \in Nat /\ n \in Nat /\ wanted \in Nat /\ remaining \in Nat
  BY ThisLevel, Inputs DEF Inv, TakeLevel, Walking, TypeOK
<1>2. /\ stage = "walk" /\ stage' = "walk" /\ remaining > 0
      /\ UNCHANGED <<request, book, wanted>>
      /\ quantity' = quantity + taken /\ cost' = cost + p * taken
      /\ remaining' = remaining - taken /\ level' = level + 1
  BY DEF TakeLevel, Walking
<1>3. CASE request.kind = "limit"
  BY <1>2, <1>3 DEF LoopInv, WalkSoFar, ValueSoFar, ByValue, MinOutWithinValue, Priced
<1>4. CASE request.kind # "limit"
  <2>1. /\ quantity = Min(wanted, Depth(before)) /\ cost = CostOf(wanted, before)
        /\ remaining = wanted - quantity
    BY <1>2, <1>4 DEF LoopInv, WalkSoFar
  <2>2. Depth(before) \in Nat /\ Depth(level) = Depth(before) + n
    BY <1>1, DepthDefined
  <2>3. quantity = Depth(before) /\ remaining = Max(wanted - Depth(before), 0)
    BY <1>1, <1>2, <2>1, <2>2 DEF Min, Max
  <2>4. taken = Share(wanted, level)
    BY <1>1, <1>2, <2>3 DEF Share, Min
  <2>5. cost' = CostOf(wanted, level)
    BY <1>1, <1>2, <2>1, <2>4, CostDefined
  <2>6. quantity' = Min(wanted, Depth(level)) /\ remaining' = wanted - quantity'
    <3>1. /\ quantity' = quantity + taken /\ remaining' = remaining - taken
          /\ remaining \in Nat /\ remaining = wanted - quantity
          /\ quantity = Depth(before)
      BY <1>1, <1>2, <2>1, <2>3
    <3>2. quantity' = Min(wanted, quantity + n)
      BY <1>1, <2>2, <3>1 DEF Min
    <3>3. remaining' = wanted - quantity'
      <4> HIDE DEF taken
      <4>1. taken \in Nat
        BY <1>1, <3>1 DEF taken, Min
      <4> QED
        BY <1>1, <2>2, <3>1, <4>1
    <3> QED
      BY <2>2, <3>1, <3>2, <3>3
  <2>7. WalkSoFar'
    BY <1>1, <1>2, <2>5, <2>6, SumsOfBook DEF WalkSoFar
  <2>8. ValueSoFar' /\ MinOutWithinValue'
    BY <1>2, SumsOfBook DEF LoopInv, ValueSoFar, ByValue, Budget,
       MinOutWithinValue, Priced
  <2> QED
    BY <2>7, <2>8 DEF LoopInv
<1> QED
  BY <1>3, <1>4

(* The order is priced once all that is wanted, or the whole book, is taken. *)
LEMMA SettleLoop ==
  ASSUME Inv, LoopInv, Settle, request.kind # "limit"
  PROVE  LoopInv' /\ TypeOK'
<1>1. /\ stage = "walk" /\ stage' = "done"
      /\ UNCHANGED <<request, book, level, wanted, remaining, quantity, cost>>
      /\ ~(level <= Len(book) /\ remaining > 0)
  BY DEF Settle, Walking, Done, walkVars
<1>2. /\ level \in 1..(Len(book) + 1) /\ remaining \in Nat /\ Len(book) \in Nat
      /\ request.amount \in Nat /\ Unit \in Nat \ {0} /\ cost \in Nat
  BY Inputs, MathAssumption DEF Inv, TypeOK, Request
<1>3. remaining = 0 \/ level = Len(book) + 1
  BY <1>1, <1>2
<1>4. WalkSoFar'
  BY <1>1, <1>3, SumsOfBook DEF LoopInv, WalkSoFar
<1>5. ValueSoFar'
  BY <1>1, SumsOfBook DEF LoopInv, ValueSoFar, ByValue, Budget
<1>6. TypeOK'
  BY SettleInv DEF Inv
<1>7. MinOutWithinValue'
  <2> SUFFICES ASSUME ByValue, request.isMinAmountOut
               PROVE  maker' <= request.amount + Len(book)
    BY <1>1 DEF MinOutWithinValue, ByValue
  <2>1. maker' = cost \div Unit
    BY DEF Settle, Done, ByValue
  <2>2. cost = CostOf(wanted, Len(book))
    BY <1>1, <1>3, WalkedAll DEF Inv, LoopInv, WalkSoFar
  <2>3. cost <= Unit * (request.amount + Len(book))
    BY <1>1, <2>2 DEF LoopInv, ValueSoFar, Budget
  <2> DEFINE limit == request.amount + Len(book)
  <2>4. /\ limit \in Int /\ cost \in Int /\ Unit \in Nat \ {0}
        /\ cost <= Unit * limit
    BY <1>2, <2>3
  <2> HIDE DEF limit
  <2>5. cost \div Unit <= limit
    BY <2>4, QuotientAtMost
  <2> QED
    BY <2>1, <2>5 DEF limit
<1> QED
  BY <1>4, <1>5, <1>6, <1>7 DEF LoopInv

(* Every step keeps the loop invariant. *)
LEMMA NextLoop == Inv /\ LimitOnly /\ LoopInv /\ [Next]_vars => LoopInv'
<1> SUFFICES ASSUME Inv, LimitOnly, LoopInv, [Next]_vars PROVE LoopInv'
  OBVIOUS
<1>1. CASE Settle
  <2>1. request.kind # "limit"
    BY <1>1 DEF Settle, LimitOnly
  <2> QED
    BY <1>1, <2>1, SettleLoop
<1>2. CASE UNCHANGED vars
  BY <1>2, SumsOfBook DEF vars, spendVars, walkVars, amounts, LoopInv, WalkSoFar,
     ValueSoFar, MinOutWithinValue, ByValue, Budget, Priced
<1> QED
  BY <1>1, <1>2, StartLoop, BuyTierLoop, BuyFractionLoop, EndSpendingLoop,
     RoundLoop, TakeLoop DEF Next

THEOREM LoopInvariance == Spec => [](Inv /\ LimitOnly /\ LoopInv)
<1>1. Init => LimitOnly
  BY DEF Init, LimitOnly, LimitNeverMore, LimitWithinRounding
<1>2. Init => LoopInv
  BY DEF Init, LoopInv, WalkSoFar, ValueSoFar, MinOutWithinValue, Priced
<1>3. Inv => TypeOK
  BY DEF Inv
<1> QED
  BY <1>1, <1>2, <1>3, InitInv, NextInv, NextLimit, NextLoop, PTL DEF Spec

(* The walk takes exactly what is wanted of the book, or all there is, for    *)
(* every book and quantity, and charges for each share once.                *)
THEOREM TheWalkTakesTheBook == Spec => []WalkTakesTheBook
<1>1. Inv /\ LoopInv => WalkTakesTheBook
  BY WalkedAll DEF Inv, LoopInv, WalkSoFar, WalkTakesTheBook, Priced
<1> QED
  BY <1>1, LoopInvariance, PTL

(* With IsMinAmountOut a BUY by value never offers more than the value and    *)
(* one wei for each level of the book, for every book and value.            *)
THEOREM MinOutIsWithinValue == Spec => []MinOutWithinValue
<1>1. LoopInv => MinOutWithinValue
  BY DEF LoopInv
<1> QED
  BY <1>1, LoopInvariance, PTL
=============================================================================
