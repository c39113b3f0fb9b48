------------------------------- MODULE WeiMath -------------------------------
(***************************************************************************)
(* The helpers of OrderBuilder's arithmetic, and the amounts of a limit     *)
(* order.  Amounts and prices are integers in wei; a price is in wei of     *)
(* USDT per share of Unit wei.                                              *)
(***************************************************************************)
EXTENDS DecimalNumbers

CONSTANTS
  Unit,            \* ob.precision, 10^18 by default
  MinQuantity,     \* 10^16
  PriceDigits,     \* 3
  QuantityDigits   \* 5

ASSUME MathAssumption ==
  /\ Unit \in Nat \ {0}
  /\ MinQuantity \in Nat \ {0}
  /\ PriceDigits \in Nat \ {0}
  /\ QuantityDigits \in Nat \ {0}

Min(a, b) == IF a < b THEN a ELSE b
Max(a, b) == IF a > b THEN a ELSE b

(* How many digits of a natural number n follow the first d. *)
Excess(n, d) == Max(DecimalLength[n] - d, 0)

(* The first d digits of a natural number, the others set to zero. *)
Kept(n, d) ==
  LET divisor == TenTo[Excess(n, d)]
  IN  (n \div divisor) * divisor

(* Mutation: the excess digits are rounded up. *)
RoundUp(n, d) ==
  LET divisor == TenTo[Excess(n, d)]
  IN  ((n + divisor - 1) \div divisor) * divisor

(* Mutation: one digit too few is kept. *)
OneTooFew(n, d) ==
  IF n < 0 THEN 0 - Kept(0 - n, d - 1) ELSE Kept(n, d - 1)

(* A negative number keeps the digits of its absolute value. *)
RetainSignificantDigits(n, d) ==
  IF n < 0 THEN 0 - Kept(0 - n, d) ELSE Kept(n, d)

(* The price, the quantity and their product, of a limit order. *)
LimitPrice(price) == RetainSignificantDigits(price, PriceDigits)
LimitQuantity(qty) == RetainSignificantDigits(qty, QuantityDigits)
LimitValue(price, qty) == (LimitPrice(price) * LimitQuantity(qty)) \div Unit
=============================================================================
