----------------------------- MODULE DecimalText -----------------------------
(***************************************************************************)
(* How parseUnits reads a decimal text: the prices and quantities of        *)
(* CreateLimitOrder and of the levels of a book.                            *)
(*                                                                          *)
(* A text is signs, digits, a point and digits, and perhaps an exponent;    *)
(* Other stands for a character that is none of these, in a place of its    *)
(* own among the digits.  White space around it is trimmed before.          *)
(***************************************************************************)
EXTENDS DecimalNumbers

CONSTANTS
  NoExponent,    \* the text has no "e"
  FloatBits      \* precision of a big.Float, in bits: 256

ASSUME TextAssumption == FloatBits \in Nat \ {0}

Other == 10
Character == 0..9 \cup {Other}

Text == [signs : Seq({1, -1}), whole : Seq(Character), frac : Seq(Character),
         exponent : Int \cup {NoExponent}]

Readable(digits) == \A i \in 1..Len(digits) : digits[i] # Other

SignOf(t) == IF Len(t.signs) > 0 /\ t.signs[1] = -1 THEN -1 ELSE 1

(* The fraction, cut off after "decimals" characters or filled with zeros. *)
Fraction(t, decimals) ==
  [i \in 1..decimals |-> IF i <= Len(t.frac) THEN t.frac[i] ELSE 0]

(* What a text means but for its signs: Numerator(t) / Denominator(t).      *)
Numerator(t) ==
  LET e == IF t.exponent = NoExponent THEN 0 ELSE t.exponent
  IN  Number(t.whole \o t.frac) * IF e > 0 THEN TenTo[e] ELSE 1

Denominator(t) ==
  LET e == IF t.exponent = NoExponent THEN 0 ELSE t.exponent
  IN  TenTo[Len(t.frac)] * IF e < 0 THEN TenTo[0 - e] ELSE 1

(***************************************************************************)
(* A big.Float, as a fraction: the integer of FloatBits bits nearest to      *)
(* n / d times a power of two, the even one of two, over that power.         *)
(***************************************************************************)
(* The least k such that a * 2^k is at least b.                             *)
Doublings(a, b) == BinaryLog[(b + a - 1) \div a]

NearestEven(a, b) ==
  LET q == a \div b
      r == a % b
  IN  IF 2 * r > b \/ (2 * r = b /\ q % 2 = 1) THEN q + 1 ELSE q

Float(n, d) ==
  LET up == TwoTo[Doublings(n, TwoTo[FloatBits - 1] * d)]
      down == TwoTo[Doublings(TwoTo[FloatBits] * d, n + 1)]
  IN  IF n = 0 THEN [num |-> 0, den |-> 1]
      ELSE [num |-> NearestEven(n * up, d * down) * down, den |-> up]

(* Scientific notation: rounded when it is read and again when it is scaled, *)
(* then truncated.  10^decimals has no more than FloatBits bits.             *)
parseUnitsFloat(t, decimals) ==
  LET digits == t.whole \o t.frac
      f == Float(Numerator(t), Denominator(t))
      scaled == Float(f.num * TenTo[decimals], f.den)
  IN  IF Len(t.signs) > 1 \/ digits = << >> \/ ~Readable(digits) THEN 0
      ELSE SignOf(t) * (scaled.num \div scaled.den)

(* Mutation: extra digits of the fraction are kept. *)
parseUnitsUncut(t, decimals) ==
  LET digits == t.whole \o IF Len(t.frac) > decimals THEN t.frac
                           ELSE Fraction(t, decimals)
  IN  IF ~Readable(digits) THEN 0 ELSE SignOf(t) * Number(digits)

(* Otherwise the sign in front is taken off and the digits are read as one   *)
(* integer.  big.Int.SetString takes one more sign, and nothing else.        *)
parseUnits(t, decimals) ==
  LET digits == t.whole \o Fraction(t, decimals)
      inner == IF Len(t.signs) = 2 THEN t.signs[2] ELSE 1
  IN  IF t.exponent # NoExponent THEN parseUnitsFloat(t, decimals)
      ELSE IF Len(t.signs) > 2 \/ ~Readable(digits) THEN 0
      ELSE SignOf(t) * inner * Number(digits)

-----------------------------------------------------------------------------
(***************************************************************************)
(* The reference: what a text means to its writer.                          *)
(***************************************************************************)
(* The number in units of 10^-decimals, what is beyond them cut off.        *)
Exactly(t, decimals) ==
  SignOf(t) * ((Numerator(t) * TenTo[decimals]) \div Denominator(t))

(* No exponent, or so few digits that rounding a float twice does not reach  *)
(* the next unit.                                                           *)
Short(t, decimals) ==
  \/ t.exponent = NoExponent
  \/ Numerator(t) * TenTo[decimals] < TwoTo[FloatBits - 1]

(* What parseUnits keeps of it can be read. *)
Legible(t, decimals) ==
  \A i \in 1..Len(t.whole \o t.frac) :
    (t.whole \o t.frac)[i] = Other => i > Len(t.whole) + decimals
=============================================================================
