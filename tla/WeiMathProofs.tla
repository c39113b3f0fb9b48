---------------------------- MODULE WeiMathProofs ----------------------------
(***************************************************************************)
(* Lemmas about WeiMath and the integer arithmetic it is built from, for    *)
(* every number of digits and every precision.                              *)
(***************************************************************************)
EXTENDS WeiMath, DecimalNumbersProofs

(* Arithmetic: products and quotients of natural numbers. *)

(* A quotient of natural numbers is one. *)
LEMMA QuotientIsNat ==
  ASSUME NEW a \in Nat, NEW d \in Nat \ {0}
  PROVE  a \div d \in Nat
BY SMT

(* Multiplication distributes over addition. *)
LEMMA ProductOfSum ==
  ASSUME NEW a \in Nat, NEW b \in Nat, NEW n \in Nat
  PROVE  n * (a + b) = n * a + n * b
BY SMT

(* Division is monotone. *)
LEMMA QuotientMonotone ==
  ASSUME NEW a \in Int, NEW b \in Int, NEW d \in Nat \ {0}, a <= b
  PROVE  a \div d <= b \div d
BY SMT

(* A quotient is at most what the dividend is a multiple of, ... *)
LEMMA QuotientAtMost ==
  ASSUME NEW a \in Int, NEW n \in Int, NEW d \in Nat \ {0}, a <= d * n
  PROVE  a \div d <= n
BY SMT

(* ... and at least. *)
LEMMA QuotientAtLeast ==
  ASSUME NEW a \in Int, NEW n \in Int, NEW d \in Nat \ {0}, d * n <= a
  PROVE  n <= a \div d
BY SMT

(* Rounding down to a multiple does not add. *)
LEMMA MultipleIsLess ==
  ASSUME NEW n \in Nat, NEW d \in Nat \ {0}
  PROVE  (n \div d) * d <= n
BY SMT

(* What a quotient loses is less than one. *)
LEMMA QuotientLosesLittle ==
  ASSUME NEW a \in Nat, NEW d \in Nat \ {0}
  PROVE  a <= d * (a \div d + 1)
BY SMT

(* A tier that costs more than n has at least n to sell, and a price. *)
LEMMA DearTier ==
  ASSUME NEW p \in Nat, NEW q \in Nat, NEW n \in Nat, NEW d \in Nat \ {0},
         (p * q) \div d > n
  PROVE  n * d <= p * q /\ p # 0
<1> DEFINE product == p * q
<1>1. product \in Nat /\ (p = 0 => product = 0)
  BY ProductIsNat
<1> HIDE DEF product
<1>2. product \div d > n
  BY DEF product
<1>3. n * d <= product /\ product # 0
  BY <1>1, <1>2, SMT
<1> QED
  BY <1>1, <1>3 DEF product

-----------------------------------------------------------------------------
(* RetainSignificantDigits and what GetLimitOrderAmounts makes of it. *)

(* What is cut off are the digits after the first d. *)
LEMMA DivisorIsPower ==
  ASSUME NEW n \in Nat, NEW d \in Nat
  PROVE  /\ Excess(n, d) \in Nat
         /\ TenTo[Excess(n, d)] \in Nat \ {0}
<1>1. DecimalLength[n] \in Nat
  BY DecimalLengthDefined
<1>2. Excess(n, d) \in Nat
  BY <1>1 DEF Excess, Max
<1> QED
  BY <1>2, TenToIsNat

(* Keeping the first digits of a natural number gives one that is no larger. *)
LEMMA KeptIsLess ==
  ASSUME NEW n \in Nat, NEW d \in Nat
  PROVE  Kept(n, d) \in Nat /\ Kept(n, d) <= n
<1> DEFINE divisor == TenTo[Excess(n, d)]
<1>1. divisor \in Nat \ {0}
  BY DivisorIsPower
<1>2. Kept(n, d) = (n \div divisor) * divisor
  BY DEF Kept
<1> HIDE DEF divisor
<1>3. n \div divisor \in Nat
  BY <1>1, QuotientIsNat
<1> QED
  BY <1>1, <1>2, <1>3, ProductIsNat, MultipleIsLess

(* What RetainSignificantDigits keeps of a number is its first d digits, the  *)
(* first of them not zero, followed by zeros in the place of those that are *)
(* cut off; a number of no more than d digits is kept as it is.             *)
THEOREM KeptHasDigits ==
  ASSUME NEW n \in Nat, NEW d \in Nat \ {0}
  PROVE  LET excess == Excess(n, d)
             part == n \div TenTo[excess]
         IN  /\ Kept(n, d) = part * TenTo[excess]
             /\ n < Kept(n, d) + TenTo[excess]
             /\ part < TenTo[d]
             /\ excess > 0 => TenTo[d - 1] <= part
             /\ excess = 0 => Kept(n, d) = n
<1> DEFINE excess == Excess(n, d)
           divisor == TenTo[excess]
           part == n \div divisor
           length == DecimalLength[n]
<1>1. excess \in Nat /\ divisor \in Nat \ {0}
  BY DivisorIsPower
<1>2. length \in Nat \ {0} /\ excess = IF length - d > 0 THEN length - d ELSE 0
  BY DecimalLengthDefined DEF Excess, Max
<1>3. n < TenTo[length] /\ (n # 0 => TenTo[length - 1] <= n)
  BY DecimalLengthBounds
<1>4. Kept(n, d) = part * divisor
  BY DEF Kept
<1> HIDE DEF divisor, length
<1>5. part \in Nat /\ part * divisor <= n /\ n < part * divisor + divisor
  BY <1>1
<1> HIDE DEF part, excess
<1>6. part < TenTo[d] /\ (excess > 0 => TenTo[d - 1] <= part)
  <2>1. CASE excess = 0
    <3>1. divisor = 1
      BY <2>1, TenToDefined DEF divisor
    <3>2. part = n
      BY <1>1, <3>1 DEF part
    <3>3. length <= d /\ d - length \in Nat /\ d = length + (d - length)
      BY <1>2, <2>1
    <3>4. TenTo[d] = TenTo[length] * TenTo[d - length]
      BY <1>2, <3>3, TenToOfSum
    <3>5. TenTo[length] \in Nat /\ TenTo[d - length] \in Nat \ {0}
      BY <1>2, <3>3, TenToIsNat
    <3>6. TenTo[length] <= TenTo[length] * TenTo[d - length]
      BY <3>5, SMT
    <3> QED
      BY <1>3, <2>1, <3>2, <3>4, <3>5, <3>6, ProductIsNat
  <2>2. CASE excess > 0
    <3>1. length = excess + d /\ length - 1 = excess + (d - 1) /\ d - 1 \in Nat
      BY <1>1, <1>2, <2>2
    <3>2. TenTo[length] = divisor * TenTo[d] /\ TenTo[length - 1] = divisor * TenTo[d - 1]
      BY <1>1, <3>1, TenToOfSum DEF divisor
    <3>3. TenTo[d] \in Nat \ {0} /\ TenTo[d - 1] \in Nat \ {0}
      BY <3>1, TenToIsNat
    <3>4. n # 0
      <4>1. TenTo[1] = 10
        <5>1. TenTo[0 + 1] = 10 * TenTo[0]
          BY TenToDefined
        <5> QED
          BY <5>1, TenToDefined
      <4>2. ASSUME n = 0 PROVE FALSE
        <5>1. length = 1
          BY <4>2, DecimalLengthDefined DEF length
        <5> QED
          BY <1>1, <2>2, <3>1, <5>1
      <4> QED
        BY <4>2
    <3> DEFINE T == TenTo[d]
               U == TenTo[d - 1]
    <3>5. T \in Nat /\ U \in Nat /\ n < divisor * T /\ divisor * U <= n
      BY <1>3, <3>2, <3>3, <3>4
    <3> HIDE DEF T, U
    <3>6. part = n \div divisor
      BY DEF part
    <3>7. part < T
      BY <1>1, <1>5, <3>5, SMT
    <3>8. U <= part
      BY <1>1, <3>5, <3>6, QuotientAtLeast
    <3> QED
      BY <3>7, <3>8 DEF T, U
  <2> QED
    BY <1>1, <2>1, <2>2
<1>7. excess = 0 => Kept(n, d) = n
  <2> SUFFICES ASSUME excess = 0 PROVE Kept(n, d) = n
    OBVIOUS
  <2>1. divisor = 1
    BY TenToDefined DEF divisor
  <2> QED
    BY <1>4, <2>1 DEF part
<1> QED
  BY <1>4, <1>5, <1>6, <1>7 DEF part, divisor, excess

(* RetainSignificantDigits never adds, ...                                    *)
LEMMA RetainedIsNat ==
  ASSUME NEW n \in Nat, NEW d \in Nat
  PROVE  /\ RetainSignificantDigits(n, d) \in Nat
         /\ RetainSignificantDigits(n, d) <= n
BY KeptIsLess DEF RetainSignificantDigits

(* ... which makes an integer of a negative number. *)
LEMMA RetainedIsInt ==
  ASSUME NEW n \in Int, NEW d \in Nat
  PROVE  RetainSignificantDigits(n, d) \in Int
<1>1. CASE n < 0
  BY <1>1, KeptIsLess DEF RetainSignificantDigits
<1>2. CASE ~(n < 0)
  BY <1>2, KeptIsLess DEF RetainSignificantDigits
<1> QED
  BY <1>1, <1>2

(* The value of a limit order is no more than price times quantity. *)
LEMMA LimitIsLess ==
  ASSUME NEW price \in Nat, NEW qty \in Nat
  PROVE  /\ LimitQuantity(qty) \in Nat
         /\ LimitValue(price, qty) \in Nat
         /\ LimitValue(price, qty) * Unit <= price * qty
<1> DEFINE p == LimitPrice(price)
           q == LimitQuantity(qty)
           product == p * q
           value == LimitValue(price, qty)
<1>1. p \in Nat /\ p <= price /\ q \in Nat /\ q <= qty
  BY RetainedIsNat, MathAssumption DEF LimitPrice, LimitQuantity
<1> HIDE DEF p, q
<1>2. product \in Nat /\ product <= price * qty
  BY <1>1, ProductIsNat, ProductsMonotone
<1>3. Unit \in Nat \ {0}
  BY MathAssumption
<1>4. value = product \div Unit
  BY DEF LimitValue, p, q
<1> HIDE DEF product
<1>5. value \in Nat /\ value * Unit <= product
  BY <1>2, <1>3, <1>4, QuotientIsNat, MultipleIsLess
<1>6. value * Unit \in Nat /\ price * qty \in Nat
  BY <1>3, <1>5, ProductIsNat
<1> HIDE DEF value
<1>7. value * Unit <= price * qty
  BY <1>2, <1>5, <1>6
<1> QED
  BY <1>1, <1>5, <1>7 DEF q, value

(* An order at a price that is not positive has no positive value. *)
LEMMA NoPriceNoValue ==
  ASSUME NEW price \in Int, price <= 0, NEW qty \in Nat
  PROVE  LimitValue(price, qty) <= 0
<1> DEFINE p == LimitPrice(price)
           q == LimitQuantity(qty)
           product == p * q
<1>1. p \in Int /\ p <= 0
  <2>1. PriceDigits \in Nat
    BY MathAssumption
  <2>2. CASE price < 0
    <3>1. Kept(0 - price, PriceDigits) \in Nat /\ p = 0 - Kept(0 - price, PriceDigits)
      BY <2>1, <2>2, KeptIsLess DEF LimitPrice, RetainSignificantDigits
    <3> HIDE DEF p
    <3> QED
      BY <3>1
  <2>3. CASE price = 0
    <3>1. /\ Kept(price, PriceDigits) \in Nat /\ Kept(price, PriceDigits) <= 0
          /\ p = Kept(price, PriceDigits)
      BY <2>1, <2>3, KeptIsLess DEF LimitPrice, RetainSignificantDigits
    <3> HIDE DEF p
    <3> QED
      BY <3>1
  <2> QED
    BY <2>2, <2>3
<1>2. q \in Nat /\ Unit \in Nat \ {0}
  BY RetainedIsNat, MathAssumption DEF LimitQuantity
<1>3. LimitValue(price, qty) = product \div Unit
  BY DEF LimitValue
<1> HIDE DEF p, q
<1>4. product \in Int /\ product <= Unit * 0
  BY <1>1, <1>2, SMT
<1> HIDE DEF product
<1>5. product \div Unit <= 0
  BY <1>2, <1>4, QuotientAtMost
<1> QED
  BY <1>3, <1>5

(* Cutting off the digits after the first d takes less than one part in the  *)
(* power of ten before the d-th.                                            *)
LEMMA KeptLosesLittle ==
  ASSUME NEW n \in Nat, NEW d \in Nat \ {0}
  PROVE  n * (TenTo[d - 1] - 1) <= Kept(n, d) * TenTo[d - 1]
<1> DEFINE D == TenTo[d - 1]
           excess == Excess(n, d)
           divisor == TenTo[excess]
           part == n \div divisor
           kept == Kept(n, d)
<1>1. D \in Nat \ {0}
  <2>1. d - 1 \in Nat
    OBVIOUS
  <2> QED
    BY <2>1, TenToIsNat
<1>2. excess \in Nat /\ divisor \in Nat \ {0} /\ kept \in Nat
  BY DivisorIsPower, KeptIsLess
<1>3. /\ kept = part * divisor
      /\ n < kept + divisor
      /\ excess > 0 => D <= part
      /\ excess = 0 => kept = n
  BY KeptHasDigits
<1>4. part \in Nat
  BY <1>2, QuotientIsNat
<1> HIDE DEF D, excess, divisor, part, kept
<1>5. CASE excess = 0
  BY <1>1, <1>3, <1>5 DEF D, kept
<1>6. CASE excess > 0
  <2> DEFINE rest == n - kept
  <2>1. rest \in Int /\ rest < divisor /\ n = kept + rest
    BY <1>2, <1>3
  <2> HIDE DEF rest
  <2>2. divisor * D <= divisor * part /\ divisor * part = kept
    <3>1. D * divisor <= part * divisor
      BY <1>1, <1>2, <1>3, <1>4, <1>6, ProductMonotone
    <3>2. D * divisor = divisor * D /\ part * divisor = divisor * part
      BY <1>1, <1>2, <1>4
    <3> QED
      BY <1>3, <3>1, <3>2
  <2>3. divisor * D <= n
    BY <1>1, <1>2, <2>2, KeptIsLess DEF kept
  <2>4. rest * D <= divisor * D
    BY <1>1, <1>2, <2>1
  <2> DEFINE lost == rest * D
             whole == kept * D
  <2>5. n * (D - 1) = whole + lost - n
    BY <1>1, <1>2, <2>1
  <2>6. lost \in Int /\ whole \in Int /\ divisor * D \in Int
    BY <1>1, <1>2, <2>1
  <2>7. lost <= n
    BY <2>3, <2>4, <2>6
  <2> HIDE DEF lost, whole
  <2>8. n * (D - 1) <= whole
    BY <2>5, <2>6, <2>7
  <2> QED
    BY <2>8 DEF D, kept, whole
<1> QED
  BY <1>2, <1>5, <1>6

(* Of the exact value of a limit order is lost what the cuts of its price    *)
(* and of its quantity take, and less than one wei.                         *)
LEMMA LimitLosesLittle ==
  ASSUME NEW price \in Nat, NEW qty \in Nat
  PROVE  LET keep == TenTo[PriceDigits + QuantityDigits - 2]
             loss == TenTo[PriceDigits - 1] + TenTo[QuantityDigits - 1]
         IN  (price * qty) * (keep - loss)
               <= keep * (LimitValue(price, qty) + 1) * Unit
<1> DEFINE A == TenTo[PriceDigits - 1]
           B == TenTo[QuantityDigits - 1]
           keep == TenTo[PriceDigits + QuantityDigits - 2]
           p == LimitPrice(price)
           q == LimitQuantity(qty)
           value == LimitValue(price, qty)
           exact == price * qty
<1>1. A \in Nat \ {0} /\ B \in Nat \ {0} /\ keep = A * B
  <2>1. /\ PriceDigits - 1 \in Nat /\ QuantityDigits - 1 \in Nat
        /\ PriceDigits + QuantityDigits - 2 = (PriceDigits - 1) + (QuantityDigits - 1)
    BY MathAssumption
  <2> QED
    BY <2>1, TenToIsNat, TenToOfSum
<1>2. p \in Nat /\ p = Kept(price, PriceDigits)
  BY KeptIsLess, MathAssumption DEF LimitPrice, RetainSignificantDigits
<1>3. q \in Nat /\ q = Kept(qty, QuantityDigits)
  BY KeptIsLess, MathAssumption DEF LimitQuantity, RetainSignificantDigits
<1>4. price * (A - 1) <= p * A
  BY <1>2, KeptLosesLittle, MathAssumption
<1>5. qty * (B - 1) <= q * B
  BY <1>3, KeptLosesLittle, MathAssumption
<1>6. value = (p * q) \div Unit /\ Unit \in Nat \ {0} /\ value \in Nat
  BY LimitIsLess, MathAssumption DEF LimitValue
<1> HIDE DEF A, B, keep, p, q, value
<1> DEFINE product == p * q
<1>7. product \in Nat /\ A * B \in Nat /\ exact \in Nat
  BY <1>1, <1>2, <1>3, ProductIsNat
<1>8. product <= (value + 1) * Unit /\ (value + 1) * Unit \in Nat
  <2> HIDE DEF product
  <2> QED
    BY <1>6, <1>7 DEF product
<1>9. (price * (A - 1)) * (qty * (B - 1)) <= (p * A) * (q * B)
  <2>1. A - 1 \in Nat /\ B - 1 \in Nat
    BY <1>1
  <2>2. /\ price * (A - 1) \in Nat /\ qty * (B - 1) \in Nat
        /\ p * A \in Nat /\ q * B \in Nat
    BY <1>1, <1>2, <1>3, <2>1, ProductIsNat
  <2> QED
    BY <1>4, <1>5, <2>2, ProductsMonotone
<1>10. exact * ((A - 1) * (B - 1)) <= (A * B) * product
  <2>1. exact * ((A - 1) * (B - 1)) = (price * (A - 1)) * (qty * (B - 1))
    BY <1>1
  <2>2. (A * B) * product = (p * A) * (q * B)
    BY <1>1, <1>2, <1>3
  <2> QED
    BY <1>9, <2>1, <2>2
<1>11. exact * (A * B - (A + B)) <= exact * ((A - 1) * (B - 1))
  <2>1. (A - 1) * (B - 1) = A * B - (A + B) + 1
    BY <1>1
  <2> DEFINE c == A * B - (A + B)
  <2>2. c \in Int
    BY <1>1, <1>7
  <2> HIDE DEF exact, c
  <2>3. exact * (c + 1) = exact * c + exact
    BY <1>7, <2>2
  <2>4. exact * c <= exact * (c + 1)
    BY <1>7, <2>2, <2>3
  <2> QED
    BY <2>1, <2>4 DEF c
<1>12. (A * B) * product <= (A * B) * ((value + 1) * Unit)
  <2> DEFINE over == (value + 1) * Unit
             both == A * B
  <2> HIDE DEF product, over, both
  <2>1. product * both <= over * both
    BY <1>7, <1>8, ProductMonotone DEF over, both
  <2>2. product * both = both * product /\ over * both = both * over
    BY <1>7, <1>8 DEF over, both
  <2> QED
    BY <2>1, <2>2 DEF over, both
<1>13. exact * (keep - (A + B)) <= keep * ((value + 1) * Unit)
  BY <1>1, <1>7, <1>8, <1>10, <1>11, <1>12
<1>14. keep * ((value + 1) * Unit) = keep * (value + 1) * Unit
  BY <1>1, <1>6
<1> QED
  BY <1>13, <1>14 DEF A, B, keep, value
=============================================================================
