-------------------------- MODULE DecimalTextProofs --------------------------
(***************************************************************************)
(* Proofs about DecimalText: that parseUnits reads what is written, rounded *)
(* down, whatever the number of digits and of decimals.                     *)
(***************************************************************************)
EXTENDS DecimalText, DecimalNumbersProofs, SequenceTheorems

(* The parts of a text. *)
LEMMA TextParts ==
  ASSUME NEW t \in Text
  PROVE  /\ t.whole \in Seq(Nat) /\ t.whole \in Seq(Character)
         /\ t.frac \in Seq(Nat) /\ t.frac \in Seq(Character)
         /\ t.whole \o t.frac \in Seq(Nat)
         /\ SignOf(t) \in {1, -1}
         /\ t.exponent # NoExponent => t.exponent \in Int
<1>1. t.whole \in Seq(Character) /\ t.frac \in Seq(Character)
  BY DEF Text
<1>2. t.whole \in Seq(Nat) /\ t.frac \in Seq(Nat)
  <2>1. Character \subseteq Nat
    BY DEF Character, Other
  <2> QED
    BY <1>1, <2>1, SeqMonotonic
<1>3. t.exponent # NoExponent => t.exponent \in Int
  BY DEF Text
<1>4. SignOf(t) \in {1, -1}
  BY DEF SignOf
<1>5. t.whole \o t.frac \in Seq(Nat)
  BY <1>2, ConcatProperties
<1> QED
  BY <1>1, <1>2, <1>3, <1>4, <1>5

(* What parseUnits reads without an exponent: the whole part and as many      *)
(* digits of the fraction as there are decimals.                            *)
LEMMA CutDigits ==
  ASSUME NEW t \in Text, NEW d \in Nat
  PROVE  LET cut == t.whole \o Fraction(t, d)
             all == t.whole \o t.frac
             w == Len(t.whole)
             f == Len(t.frac)
         IN  /\ cut \in Seq(Nat)
             /\ w \in Nat /\ f \in Nat
             /\ Len(cut) = w + d /\ Len(all) = w + f
             /\ \A i \in 1..(w + d) :
                  cut[i] = IF i <= w + f THEN all[i] ELSE 0
<1> DEFINE F == Fraction(t, d)
           W == t.whole
           G == t.frac
<1>1. W \in Seq(Nat) /\ G \in Seq(Nat)
  BY TextParts
<1>2. F = [i \in 1..d |-> IF i <= Len(G) THEN G[i] ELSE 0]
  BY DEF Fraction
<1> HIDE DEF F, W, G
<1>3. F \in Seq(Nat) /\ Len(F) = d
  <2>1. ASSUME NEW i \in 1..d PROVE (IF i <= Len(G) THEN G[i] ELSE 0) \in Nat
    BY <1>1
  <2>2. F \in [1..d -> Nat]
    BY <1>2, <2>1
  <2> QED
    BY <1>2, <2>2
<1>4. Len(W) \in Nat /\ Len(G) \in Nat
  BY <1>1, LenProperties
<1>5. /\ W \o F \in Seq(Nat) /\ Len(W \o F) = Len(W) + d
      /\ \A i \in 1..(Len(W) + d) :
           (W \o F)[i] = IF i <= Len(W) THEN W[i] ELSE F[i - Len(W)]
  BY <1>1, <1>3, ConcatProperties
<1>6. /\ Len(W \o G) = Len(W) + Len(G)
      /\ \A i \in 1..(Len(W) + Len(G)) :
           (W \o G)[i] = IF i <= Len(W) THEN W[i] ELSE G[i - Len(W)]
  BY <1>1, ConcatProperties
<1>7. ASSUME NEW i \in 1..(Len(W) + d)
      PROVE  (W \o F)[i] = IF i <= Len(W) + Len(G) THEN (W \o G)[i] ELSE 0
  <2>1. CASE i <= Len(W)
    BY <1>4, <1>5, <1>6, <2>1
  <2>2. CASE i > Len(W)
    <3> DEFINE j == i - Len(W)
    <3>1. j \in 1..d /\ (j <= Len(G) <=> i <= Len(W) + Len(G))
      BY <1>4, <2>2
    <3>2. (W \o F)[i] = F[j]
      BY <1>4, <1>5, <2>2
    <3>3. j <= Len(G) => (W \o G)[i] = G[j]
      BY <1>4, <1>6, <2>2, <3>1
    <3>4. F[j] = IF j <= Len(G) THEN G[j] ELSE 0
      BY <1>2, <3>1
    <3> QED
      BY <3>1, <3>2, <3>3, <3>4
  <2>3. i <= Len(W) \/ i > Len(W)
    BY <1>4
  <2> QED
    BY <2>1, <2>2, <2>3
<1> QED
  BY <1>4, <1>5, <1>6, <1>7 DEF F, W, G

(* Arithmetic: a number scaled from b decimals to a, rounded down, ...        *)
LEMMA ScaledNoMore ==
  ASSUME NEW n \in Nat, NEW r \in Nat, NEW a \in Nat, NEW b \in Nat,
         a >= b => r = n * TenTo[a - b],
         a < b => r * TenTo[b - a] <= n
  PROVE  r * TenTo[b] <= n * TenTo[a]
<1>1. CASE a >= b
  <2> DEFINE S == TenTo[a - b]
             T == TenTo[b]
  <2>1. a - b \in Nat /\ b + (a - b) = a
    BY <1>1
  <2>2. TenTo[a] = T * S /\ S \in Nat /\ T \in Nat
    BY <2>1, TenToOfSum, TenToIsNat
  <2>3. r = n * S
    BY <1>1
  <2> HIDE DEF S, T
  <2>4. (n * S) * T = n * (T * S) /\ n * (T * S) \in Nat
    BY <2>2, SMT
  <2> QED
    BY <2>2, <2>3, <2>4 DEF T
<1>2. CASE a < b
  <2> DEFINE S == TenTo[b - a]
             T == TenTo[a]
             m == r * S
  <2>1. b - a \in Nat /\ (b - a) + a = b
    BY <1>2
  <2>2. TenTo[b] = S * T /\ S \in Nat /\ T \in Nat
    BY <2>1, TenToOfSum, TenToIsNat
  <2>3. m <= n
    BY <1>2
  <2> HIDE DEF S, T
  <2>4. r * (S * T) = m * T /\ m \in Nat
    BY <2>2, SMT
  <2> HIDE DEF m
  <2>5. m * T <= n * T
    BY <2>2, <2>3, <2>4, SMT
  <2> QED
    BY <2>2, <2>4, <2>5 DEF T
<1> QED
  BY <1>1, <1>2

(* ... and by less than one, ... *)
LEMMA ScaledLosesLittle ==
  ASSUME NEW n \in Nat, NEW r \in Nat, NEW a \in Nat, NEW b \in Nat,
         a >= b => r = n * TenTo[a - b],
         a < b => n < (r + 1) * TenTo[b - a]
  PROVE  n * TenTo[a] < (r + 1) * TenTo[b]
<1>1. CASE a >= b
  <2> DEFINE S == TenTo[a - b]
             T == TenTo[b]
  <2>1. a - b \in Nat /\ b + (a - b) = a
    BY <1>1
  <2>2. TenTo[a] = T * S /\ S \in Nat /\ T \in Nat \ {0}
    BY <2>1, TenToOfSum, TenToIsNat
  <2>3. r = n * S
    BY <1>1
  <2> HIDE DEF S, T
  <2>4. n * (T * S) = (n * S) * T /\ (r + 1) * T = r * T + T /\ r * T \in Nat
    BY <2>2, SMT
  <2>5. n * TenTo[a] = r * T
    BY <2>2, <2>3, <2>4
  <2>6. n * TenTo[a] < (r + 1) * T
    BY <2>2, <2>4, <2>5
  <2> QED
    BY <2>6 DEF T
<1>2. CASE a < b
  <2> DEFINE S == TenTo[b - a]
             T == TenTo[a]
             m == (r + 1) * S
  <2>1. b - a \in Nat /\ (b - a) + a = b
    BY <1>2
  <2>2. TenTo[b] = S * T /\ S \in Nat /\ T \in Nat \ {0}
    BY <2>1, TenToOfSum, TenToIsNat
  <2>3. n < m
    BY <1>2
  <2> HIDE DEF S, T
  <2>4. (r + 1) * (S * T) = m * T /\ m \in Nat
    BY <2>2, SMT
  <2> HIDE DEF m
  <2>5. n * T < m * T
    BY <2>2, <2>3, <2>4, SMT
  <2> QED
    BY <2>2, <2>4, <2>5 DEF T
<1> QED
  BY <1>1, <1>2

(* ... by a division. *)
LEMMA DivisionRoundsDown ==
  ASSUME NEW n \in Nat, NEW d \in Nat \ {0}
  PROVE  /\ n \div d \in Nat
         /\ (n \div d) * d <= n
         /\ n < (n \div d + 1) * d
BY SMT

(* If all digits can be read, so can those that are left. *)
LEMMA CutIsReadable ==
  ASSUME NEW t \in Text, NEW d \in Nat, Readable(t.whole \o t.frac)
  PROVE  /\ Readable(t.whole \o Fraction(t, d))
         /\ \A i \in 1..Len(t.whole \o t.frac) : (t.whole \o t.frac)[i] <= 9
<1> DEFINE cut == t.whole \o Fraction(t, d)
           all == t.whole \o t.frac
           w == Len(t.whole)
           f == Len(t.frac)
<1>1. /\ w \in Nat /\ f \in Nat /\ Len(cut) = w + d /\ Len(all) = w + f
      /\ \A i \in 1..(w + d) : cut[i] = IF i <= w + f THEN all[i] ELSE 0
  BY CutDigits
<1>2. all \in Seq(Character)
  BY TextParts, ConcatProperties
<1>3. \A i \in 1..Len(all) : all[i] # Other
  BY DEF Readable
<1> HIDE DEF cut, all, w, f
<1>4. ASSUME NEW i \in 1..Len(cut) PROVE cut[i] # Other
  BY <1>1, <1>3 DEF Other
<1>5. ASSUME NEW i \in 1..Len(all) PROVE all[i] <= 9
  <2>1. all[i] \in 0..9
    BY <1>2, <1>3 DEF Character
  <2> QED
    BY <2>1
<1> QED
  BY <1>4, <1>5 DEF Readable, cut, all

(* The digits that are left of a fraction are no more than all of them, and   *)
(* less than one of the last of them short.                                 *)
LEMMA CutRoundsDown ==
  ASSUME NEW t \in Text, NEW d \in Nat
  PROVE  LET cut == t.whole \o Fraction(t, d)
             all == t.whole \o t.frac
         IN  /\ Number(cut) \in Nat /\ Number(all) \in Nat
             /\ Number(cut) * TenTo[Len(t.frac)] <= Number(all) * TenTo[d]
             /\ Readable(all) =>
                  Number(all) * TenTo[d] < (Number(cut) + 1) * TenTo[Len(t.frac)]
<1> DEFINE cut == t.whole \o Fraction(t, d)
           all == t.whole \o t.frac
           w == Len(t.whole)
           f == Len(t.frac)
<1>1. /\ cut \in Seq(Nat) /\ all \in Seq(Nat) /\ w \in Nat /\ f \in Nat
      /\ Len(cut) = w + d /\ Len(all) = w + f
      /\ \A i \in 1..(w + d) : cut[i] = IF i <= w + f THEN all[i] ELSE 0
  BY CutDigits, TextParts
<1>2. Readable(all) => \A i \in 1..Len(all) : all[i] <= 9
  BY CutIsReadable
<1> HIDE DEF cut, all, w, f
<1>3. Number(cut) \in Nat /\ Number(all) \in Nat
  BY <1>1, NumberIsNat
<1>4. Number(cut) = Prefixes(cut)[w + d] /\ Number(all) = Prefixes(all)[w + f]
  BY <1>1 DEF Number
<1>5. CASE d >= f
  <2>1. w + f \in Nat /\ w + f <= w + d /\ d - f \in Nat /\ w + f \in 0..Len(cut)
        /\ (w + f) + (d - f) = w + d
    BY <1>1, <1>5
  <2>2. \A i \in 1..(w + f) : cut[i] = all[i]
    BY <1>1, <2>1
  <2>3. Prefixes(cut)[w + f] = Prefixes(all)[w + f]
    BY <1>1, <2>1, <2>2, PrefixesAgree
  <2>4. \A j \in (w + f + 1)..(w + d) : cut[j] = 0
    BY <1>1, <2>1
  <2>5. Prefixes(cut)[w + f] * TenTo[d - f] = Prefixes(cut)[w + d]
    BY <1>1, <2>1, <2>4, PrefixesGrow
  <2>6. Number(cut) = Number(all) * TenTo[d - f]
    BY <1>4, <2>3, <2>5
  <2>7. Number(cut) * TenTo[f] <= Number(all) * TenTo[d]
    BY <1>1, <1>3, <1>5, <2>6, ScaledNoMore
  <2>8. Number(all) * TenTo[d] < (Number(cut) + 1) * TenTo[f]
    BY <1>1, <1>3, <1>5, <2>6, ScaledLosesLittle
  <2> QED
    BY <1>3, <2>7, <2>8 DEF cut, all, f
<1>6. CASE d < f
  <2>1. w + d \in Nat /\ w + d <= w + f /\ f - d \in Nat /\ w + d \in 0..Len(all)
        /\ (w + d) + (f - d) = w + f
    BY <1>1, <1>6
  <2>2. \A i \in 1..(w + d) : cut[i] = all[i]
    BY <1>1, <2>1
  <2>3. Prefixes(cut)[w + d] = Prefixes(all)[w + d]
    BY <1>1, <2>1, <2>2, PrefixesAgree
  <2>4. Prefixes(all)[w + d] * TenTo[f - d] <= Prefixes(all)[w + f]
    BY <1>1, <2>1, PrefixesGrow
  <2>5. Number(cut) * TenTo[f - d] <= Number(all)
    BY <1>4, <2>3, <2>4
  <2>6. d >= f => Number(cut) = Number(all) * TenTo[d - f]
    BY <1>1, <1>6
  <2>7. Number(cut) * TenTo[f] <= Number(all) * TenTo[d]
    BY <1>1, <1>3, <2>5, <2>6, ScaledNoMore
  <2>8. ASSUME Readable(all)
        PROVE  Number(all) * TenTo[d] < (Number(cut) + 1) * TenTo[f]
    <3> DEFINE i == w + d
               k == f - d
    <3>1. i \in 0..Len(all) /\ k \in Nat /\ i + k <= Len(all)
      BY <1>1, <2>1
    <3>2. \A j \in (i + 1)..(i + k) : all[j] <= 9
      BY <1>1, <1>2, <2>1, <2>8
    <3> HIDE DEF i, k
    <3>3. Prefixes(all)[i + k] < (Prefixes(all)[i] + 1) * TenTo[k]
      BY <1>1, <3>1, <3>2, PrefixesBounded
    <3> USE DEF i, k
    <3>4. Prefixes(all)[w + f] < (Prefixes(all)[w + d] + 1) * TenTo[f - d]
      BY <2>1, <3>3
    <3>5. Number(all) < (Number(cut) + 1) * TenTo[f - d]
      BY <1>4, <2>3, <3>4
    <3> QED
      BY <1>1, <1>3, <2>6, <3>5, ScaledLosesLittle
  <2> QED
    BY <1>3, <2>7, <2>8 DEF cut, all, f
<1> QED
  BY <1>1, <1>5, <1>6

-----------------------------------------------------------------------------
(* Doublings is the least exponent that makes a as large as b. *)
LEMMA DoublingsLeast ==
  ASSUME NEW a \in Nat \ {0}, NEW b \in Nat
  PROVE  LET k == Doublings(a, b)
         IN  /\ k \in Nat /\ b <= a * TwoTo[k]
             /\ k # 0 => k - 1 \in Nat /\ a * TwoTo[k - 1] < b
<1> DEFINE c == (b + a - 1) \div a
           k == BinaryLog[c]
<1>1. c \in Nat /\ b <= c * a /\ (c # 0 => (c - 1) * a < b)
  BY SMT
<1>2. k \in Nat /\ c <= TwoTo[k] /\ (k # 0 => TwoTo[k - 1] < c)
  BY <1>1, BinaryLogBounds, BinaryLogDefined
<1>3. Doublings(a, b) = k
  BY DEF Doublings
<1> HIDE DEF c, k
<1>4. TwoTo[k] \in Nat
  BY <1>2, TwoToDefined
<1>5. c * a <= TwoTo[k] * a
  BY <1>1, <1>2, <1>4, ProductMonotone
<1>6. TwoTo[k] * a = a * TwoTo[k] /\ TwoTo[k] * a \in Nat /\ c * a \in Nat
  BY <1>1, <1>4, SMT
<1>7. ASSUME k # 0 PROVE k - 1 \in Nat /\ a * TwoTo[k - 1] < b
  <2> DEFINE h == TwoTo[k - 1]
  <2>1. k - 1 \in Nat
    BY <1>2, <1>7
  <2>2. h \in Nat /\ h < c
    BY <1>2, <1>7, <2>1, TwoToDefined
  <2> HIDE DEF h
  <2>3. c - 1 \in Nat /\ h <= c - 1 /\ c # 0
    BY <1>1, <2>2
  <2>4. h * a <= (c - 1) * a /\ h * a = a * h
    BY <2>2, <2>3, ProductMonotone, SMT
  <2>5. h * a \in Nat /\ (c - 1) * a \in Nat
    BY <2>2, <2>3, ProductIsNat
  <2> QED
    BY <1>1, <2>1, <2>3, <2>4, <2>5 DEF h
<1> QED
  BY <1>1, <1>2, <1>3, <1>5, <1>6, <1>7

(* Rounding to an integer moves a number by half a unit at most. *)
LEMMA NearestIsNear ==
  ASSUME NEW a \in Nat, NEW b \in Nat \ {0}
  PROVE  LET q == NearestEven(a, b)
         IN  /\ q \in Nat
             /\ 2 * (q * b) <= 2 * a + b
             /\ 2 * a <= 2 * (q * b) + b
<1> DEFINE q == a \div b
           r == a % b
           x == q * b
<1>1. q \in Nat /\ r \in Nat /\ r < b /\ a = x + r
  BY SMT
<1>2. (q + 1) * b = x + b /\ x \in Nat
  BY <1>1, SMT
<1>3. \/ NearestEven(a, b) = q /\ 2 * r <= b
      \/ NearestEven(a, b) = q + 1 /\ 2 * r >= b
  BY <1>1 DEF NearestEven
<1> HIDE DEF q, r, x
<1>4. CASE NearestEven(a, b) = q /\ 2 * r <= b
  BY <1>1, <1>2, <1>4 DEF x
<1>5. CASE NearestEven(a, b) = q + 1 /\ 2 * r >= b
  <2>1. 2 * (x + b) <= 2 * a + b /\ 2 * a <= 2 * (x + b) + b
    BY <1>1, <1>2, <1>5
  <2> QED
    BY <1>1, <1>2, <1>5, <2>1
<1> QED
  BY <1>3, <1>4, <1>5

(* A float has FloatBits significant bits: it differs from the number it      *)
(* stands for by one part in 2^FloatBits at most.                           *)
LEMMA FloatIsNear ==
  ASSUME NEW n \in Nat, NEW d \in Nat \ {0}
  PROVE  LET f == Float(n, d)
             p == TwoTo[FloatBits]
         IN  /\ f.num \in Nat /\ f.den \in Nat \ {0}
             /\ (f.num * d) * p <= (n * f.den) * (p + 1)
             /\ (n * f.den) * (p - 1) <= (f.num * d) * p
<1> DEFINE p == TwoTo[FloatBits]
           half == TwoTo[FloatBits - 1]
           ku == Doublings(n, half * d)
           kd == Doublings(p * d, n + 1)
           up == TwoTo[ku]
           down == TwoTo[kd]
           N == n * up
           D == d * down
           q == NearestEven(N, D)
           x == q * D
           f == Float(n, d)
<1>1. half \in Nat \ {0} /\ p \in Nat \ {0} /\ p = 2 * half
  <2>1. FloatBits - 1 \in Nat /\ FloatBits = (FloatBits - 1) + 1
    BY TextAssumption
  <2> QED
    BY <2>1, TwoToDefined
<1>2. CASE n = 0
  <2>1. f = [num |-> 0, den |-> 1]
    BY <1>2 DEF Float
  <2> HIDE DEF p
  <2>2. (0 * d) * p = 0 /\ (0 * 1) * (p + 1) = 0 /\ (0 * 1) * (p - 1) = 0
    BY <1>1
  <2> QED
    BY <1>2, <2>1, <2>2 DEF p
<1>3. CASE n # 0
  <2>1. f = [num |-> q * down, den |-> up]
    BY <1>3 DEF Float
  <2> HIDE DEF f, q, p, half, ku, kd
  <2>2. half * d \in Nat /\ p * d \in Nat \ {0} /\ n + 1 \in Nat
    BY <1>1, SMT
  <2>3. ku \in Nat /\ half * d <= n * up
    BY <1>3, <2>2, DoublingsLeast DEF ku
  <2>4. kd \in Nat /\ (kd # 0 => kd - 1 \in Nat /\ (p * d) * TwoTo[kd - 1] < n + 1)
    BY <2>2, DoublingsLeast DEF kd
  <2>5. up \in Nat \ {0} /\ down \in Nat \ {0}
    BY <2>3, <2>4, TwoToDefined
  <2>6. half * D <= N
    <3>1. CASE kd = 0
      <4>1. D = d
        BY <3>1, TwoToDefined
      <4> QED
        BY <2>3, <4>1
    <3>2. CASE kd # 0
      <4> DEFINE h == TwoTo[kd - 1]
      <4>1. kd - 1 \in Nat /\ (kd - 1) + 1 = kd
        BY <2>4, <3>2
      <4>2. down = 2 * h /\ h \in Nat /\ (p * d) * h < n + 1
        BY <2>4, <3>2, <4>1, TwoToDefined
      <4> HIDE DEF h, up, down
      <4>3. (p * d) * h = half * (d * down) /\ (p * d) * h \in Nat
        BY <1>1, <4>2, SMT
      <4>4. n <= N
        <5>1. 1 * n <= up * n /\ up * n = n * up
          BY <2>5, ProductMonotone, SMT
        <5> QED
          BY <5>1
      <4>5. N \in Nat
        BY <2>5, ProductIsNat
      <4> HIDE DEF N
      <4> QED
        BY <4>2, <4>3, <4>4, <4>5
    <3> QED
      BY <3>1, <3>2
  <2> HIDE DEF up, down
  <2>7. N \in Nat /\ D \in Nat \ {0}
    BY <2>5, SMT
  <2>8. q \in Nat /\ 2 * x <= 2 * N + D /\ 2 * N <= 2 * x + D
    <3> HIDE DEF N, D
    <3> QED
      BY <2>7, NearestIsNear DEF q
  <2>9. f.num * d = x /\ n * f.den = N /\ f.num \in Nat /\ f.den \in Nat \ {0}
    <3>1. (q * down) * d = q * (d * down) /\ q * down \in Nat
      BY <2>5, <2>8, SMT
    <3> QED
      BY <2>1, <2>5, <3>1
  <2>10. x \in Nat
    BY <2>7, <2>8, ProductIsNat
  <2> HIDE DEF N, D, x
  <2> DEFINE hd == half * D
             hn == half * N
             hx == half * x
  <2>11. hd \in Nat /\ hn \in Nat /\ hx \in Nat
    BY <1>1, <2>7, <2>10, ProductIsNat
  <2>12. 2 * hx <= 2 * hn + hd /\ 2 * hn <= 2 * hx + hd
    <3>1. (2 * x) * half <= (2 * N + D) * half /\ (2 * N) * half <= (2 * x + D) * half
      BY <1>1, <2>7, <2>8, <2>10, ProductMonotone
    <3>2. (2 * x) * half = 2 * hx /\ (2 * N + D) * half = 2 * hn + hd
          /\ (2 * N) * half = 2 * hn /\ (2 * x + D) * half = 2 * hx + hd
      BY <1>1, <2>7, <2>10, SMT
    <3> QED
      BY <3>1, <3>2
  <2>13. x * p = 2 * hx /\ N * (p + 1) = 2 * hn + N /\ N * (p - 1) = 2 * hn - N
    BY <1>1, <2>7, <2>10, SMT
  <2>14. hd <= N
    BY <2>6
  <2> HIDE DEF hd, hn, hx
  <2>15. x * p <= N * (p + 1) /\ N * (p - 1) <= x * p
    BY <2>7, <2>11, <2>12, <2>13, <2>14
  <2> QED
    BY <2>9, <2>15 DEF f, p
<1> QED
  BY <1>2, <1>3

(* Arithmetic: two approximations in a row, from above ...                    *)
LEMMA TwiceAbove ==
  ASSUME NEW n \in Nat, NEW d \in Nat, NEW t \in Nat, NEW r \in Nat,
         NEW fn \in Nat, NEW u \in Nat \ {0}, NEW gn \in Nat, NEW v \in Nat \ {0},
         NEW p \in Nat, NEW c \in Nat,
         (fn * d) * p <= (n * u) * c, (gn * u) * p <= ((fn * t) * v) * c,
         r * v <= gn
  PROVE  (r * d) * (p * p) <= (n * t) * (c * c)
<1> DEFINE x1 == (fn * d) * p
           y1 == (n * u) * c
           x2 == (gn * u) * p
           y2 == ((fn * t) * v) * c
           dp == d * p
           tvc == (t * v) * c
           L == (r * d) * (p * p)
           R == (n * t) * (c * c)
           uv == u * v
           rv == r * v
           up == u * p
<1>1. /\ x1 \in Nat /\ y1 \in Nat /\ x2 \in Nat /\ y2 \in Nat /\ dp \in Nat
      /\ tvc \in Nat /\ L \in Nat /\ R \in Nat /\ rv \in Nat /\ up \in Nat
  BY ProductIsNat
<1>2. uv \in Nat \ {0}
  BY SMT
<1>3. L * uv = (rv * up) * dp /\ (gn * up) * dp = x2 * dp
  BY SMT
<1>4. y2 * dp = x1 * tvc
  BY SMT
<1>5. y1 * tvc = R * uv
  BY SMT
<1>6. x1 <= y1 /\ x2 <= y2 /\ rv <= gn
  OBVIOUS
<1> HIDE DEF x1, y1, x2, y2, dp, tvc, L, R, uv, rv, up
<1>7. rv * up <= gn * up /\ rv * up \in Nat /\ gn * up \in Nat
  BY <1>1, <1>6, ProductMonotone, ProductIsNat
<1>8. (rv * up) * dp <= (gn * up) * dp
  BY <1>1, <1>7, ProductMonotone
<1>9. x2 * dp <= y2 * dp /\ x1 * tvc <= y1 * tvc
  BY <1>1, <1>6, ProductMonotone
<1>10. L * uv \in Nat /\ x2 * dp \in Nat /\ x1 * tvc \in Nat /\ R * uv \in Nat
  BY <1>1, <1>2, ProductIsNat
<1>11. L * uv <= R * uv
  BY <1>3, <1>4, <1>5, <1>8, <1>9, <1>10
<1> QED
  BY <1>1, <1>2, <1>11, ProductCancels DEF L, R

(* ... and from below. *)
LEMMA TwiceBelow ==
  ASSUME NEW n \in Nat, NEW d \in Nat, NEW t \in Nat, NEW s \in Nat,
         NEW fn \in Nat, NEW u \in Nat \ {0}, NEW gn \in Nat, NEW v \in Nat \ {0},
         NEW p \in Nat, NEW c \in Nat,
         (n * u) * c <= (fn * d) * p, ((fn * t) * v) * c <= (gn * u) * p,
         gn <= s * v
  PROVE  (n * t) * (c * c) <= (s * d) * (p * p)
<1> DEFINE x1 == (fn * d) * p
           y1 == (n * u) * c
           x2 == (gn * u) * p
           y2 == ((fn * t) * v) * c
           dp == d * p
           tvc == (t * v) * c
           L == (s * d) * (p * p)
           R == (n * t) * (c * c)
           uv == u * v
           sv == s * v
           up == u * p
<1>1. /\ x1 \in Nat /\ y1 \in Nat /\ x2 \in Nat /\ y2 \in Nat /\ dp \in Nat
      /\ tvc \in Nat /\ L \in Nat /\ R \in Nat /\ sv \in Nat /\ up \in Nat
  BY ProductIsNat
<1>2. uv \in Nat \ {0}
  BY SMT
<1>3. L * uv = (sv * up) * dp /\ (gn * up) * dp = x2 * dp
  BY SMT
<1>4. y2 * dp = x1 * tvc
  BY SMT
<1>5. y1 * tvc = R * uv
  BY SMT
<1>6. y1 <= x1 /\ y2 <= x2 /\ gn <= sv
  OBVIOUS
<1> HIDE DEF x1, y1, x2, y2, dp, tvc, L, R, uv, sv, up
<1>7. gn * up <= sv * up /\ sv * up \in Nat /\ gn * up \in Nat
  BY <1>1, <1>6, ProductMonotone, ProductIsNat
<1>8. (gn * up) * dp <= (sv * up) * dp
  BY <1>1, <1>7, ProductMonotone
<1>9. y2 * dp <= x2 * dp /\ y1 * tvc <= x1 * tvc
  BY <1>1, <1>6, ProductMonotone
<1>10. L * uv \in Nat /\ x2 * dp \in Nat /\ x1 * tvc \in Nat /\ R * uv \in Nat
  BY <1>1, <1>2, ProductIsNat
<1>11. R * uv <= L * uv
  BY <1>3, <1>4, <1>5, <1>8, <1>9, <1>10
<1> QED
  BY <1>1, <1>2, <1>11, ProductCancels DEF L, R

(* A number of few digits is still known to the unit after two roundings.   *)
LEMMA TwiceIsNear ==
  ASSUME NEW a \in Nat, NEW x \in Nat, NEW y \in Nat,
         NEW p \in Nat \ {0}, 2 * a < p,
         x * (p * p) <= a * ((p + 1) * (p + 1)),
         a * ((p - 1) * (p - 1)) <= y * (p * p)
  PROVE  x <= a /\ a <= y
<1> DEFINE pp == p * p
           ap == a * p
<1>1. pp \in Nat /\ ap \in Nat /\ p <= pp
  BY SMT
<1>2. a * ((p + 1) * (p + 1)) = a * pp + 2 * ap + a
      /\ a * ((p - 1) * (p - 1)) = a * pp - 2 * ap + a
  BY SMT
<1>3. 2 * ap + p <= pp
  <2>1. (2 * a + 1) * p <= p * p
    BY ProductMonotone
  <2>2. (2 * a + 1) * p = 2 * ap + p
    BY SMT
  <2> QED
    BY <2>1, <2>2
<1> HIDE DEF pp, ap
<1>4. a * pp \in Nat /\ x * pp \in Nat /\ y * pp \in Nat
  BY <1>1, ProductIsNat
<1>5. x * pp <= a * pp + 2 * ap + a /\ a * pp - 2 * ap + a <= y * pp
  BY <1>2 DEF pp
<1>6. ASSUME x > a PROVE FALSE
  <2>1. a + 1 <= x
    BY <1>6
  <2>2. (a + 1) * pp <= x * pp /\ (a + 1) * pp = a * pp + pp
    BY <1>1, <2>1, ProductMonotone, SMT
  <2> QED
    BY <1>1, <1>3, <1>4, <1>5, <2>2
<1>7. ASSUME a > y PROVE FALSE
  <2>1. y + 1 <= a
    BY <1>7
  <2>2. (y + 1) * pp <= a * pp /\ (y + 1) * pp = y * pp + pp
    BY <1>1, <2>1, ProductMonotone, SMT
  <2> QED
    BY <1>1, <1>3, <1>4, <1>5, <2>2
<1> QED
  BY <1>6, <1>7

(* A number of few digits is read by two roundings and a truncation to the    *)
(* unit, or to the one before: 5.4e-1 comes out one short with 256 bits and  *)
(* 18 decimals.                                                             *)
LEMMA FloatRoundsLittle ==
  ASSUME NEW n \in Nat, NEW d \in Nat \ {0}, NEW t \in Nat,
         n * t < TwoTo[FloatBits - 1]
  PROVE  LET f == Float(n, d)
             g == Float(f.num * t, f.den)
             r == g.num \div g.den
         IN  r \in Nat /\ r * d <= n * t /\ n * t < (r + 2) * d
<1> DEFINE f == Float(n, d)
           g == Float(f.num * t, f.den)
           r == g.num \div g.den
           p == TwoTo[FloatBits]
           a == n * t
<1>1. /\ f.num \in Nat /\ f.den \in Nat \ {0}
      /\ (f.num * d) * p <= (n * f.den) * (p + 1)
      /\ (n * f.den) * (p - 1) <= (f.num * d) * p
  BY FloatIsNear
<1> HIDE DEF f
<1>2. f.num * t \in Nat
  BY <1>1, ProductIsNat
<1>3. /\ g.num \in Nat /\ g.den \in Nat \ {0}
      /\ (g.num * f.den) * p <= ((f.num * t) * g.den) * (p + 1)
      /\ ((f.num * t) * g.den) * (p - 1) <= (g.num * f.den) * p
  BY <1>1, <1>2, FloatIsNear
<1> HIDE DEF g
<1>4. r \in Nat /\ r * g.den <= g.num /\ g.num <= (r + 1) * g.den
  <2>1. r \in Nat /\ r * g.den <= g.num /\ g.num < (r + 1) * g.den
    BY <1>3, DivisionRoundsDown
  <2> HIDE DEF r
  <2>2. (r + 1) * g.den \in Nat
    BY <1>3, <2>1, ProductIsNat
  <2> QED
    BY <1>3, <2>1, <2>2
<1>5. p \in Nat \ {0} /\ p + 1 \in Nat /\ p - 1 \in Nat /\ 2 * a < p /\ a \in Nat
  <2>1. FloatBits - 1 \in Nat /\ FloatBits = (FloatBits - 1) + 1
    BY TextAssumption
  <2>2. p = 2 * TwoTo[FloatBits - 1] /\ TwoTo[FloatBits - 1] \in Nat \ {0}
    BY <2>1, TwoToDefined
  <2>3. a \in Nat /\ a < TwoTo[FloatBits - 1]
    BY ProductIsNat
  <2> HIDE DEF a, p
  <2> QED
    BY <2>2, <2>3
<1> HIDE DEF r, p
<1>6. (r * d) * (p * p) <= a * ((p + 1) * (p + 1))
  BY <1>1, <1>3, <1>4, <1>5, TwiceAbove
<1>7. a * ((p - 1) * (p - 1)) <= ((r + 1) * d) * (p * p)
  <2> DEFINE c == p - 1
             next == r + 1
  <2>1. c \in Nat /\ next \in Nat /\ g.num <= next * g.den
    BY <1>4, <1>5
  <2>2. (n * f.den) * c <= (f.num * d) * p
        /\ ((f.num * t) * g.den) * c <= (g.num * f.den) * p
    BY <1>1, <1>3
  <2> HIDE DEF c, next
  <2>3. (n * t) * (c * c) <= (next * d) * (p * p)
    BY <1>1, <1>3, <1>5, <2>1, <2>2, TwiceBelow
  <2> QED
    BY <2>3 DEF c, next
<1> HIDE DEF a
<1>8. r * d \in Nat /\ (r + 1) * d \in Nat /\ (r + 2) * d = (r + 1) * d + d
  BY <1>4, SMT
<1>9. r * d <= a /\ a <= (r + 1) * d
  BY <1>5, <1>6, <1>7, <1>8, TwiceIsNear
<1> QED
  BY <1>4, <1>5, <1>8, <1>9 DEF a, r, f, g

-----------------------------------------------------------------------------
(* What parseUnits makes of a text but for its signs: nothing if what it     *)
(* keeps of the text cannot be read.                                        *)
Magnitude(t, d) ==
  LET cut == t.whole \o Fraction(t, d)
      all == t.whole \o t.frac
      f == Float(Numerator(t), Denominator(t))
      scaled == Float(f.num * TenTo[d], f.den)
  IN  IF t.exponent = NoExponent THEN IF Readable(cut) THEN Number(cut) ELSE 0
      ELSE IF all = << >> \/ ~Readable(all) THEN 0
      ELSE scaled.num \div scaled.den

(* The value of a text is a fraction of natural numbers. *)
LEMMA WrittenValue ==
  ASSUME NEW t \in Text
  PROVE  /\ Numerator(t) \in Nat
         /\ Denominator(t) \in Nat \ {0}
         /\ t.exponent = NoExponent =>
              /\ Numerator(t) = Number(t.whole \o t.frac)
              /\ Denominator(t) = TenTo[Len(t.frac)]
<1> DEFINE n == Number(t.whole \o t.frac)
           s == TenTo[Len(t.frac)]
           e == IF t.exponent = NoExponent THEN 0 ELSE t.exponent
           up == IF e > 0 THEN TenTo[e] ELSE 1
           down == IF e < 0 THEN TenTo[0 - e] ELSE 1
<1>1. n \in Nat /\ s \in Nat \ {0} /\ e \in Int
  <2>1. t.whole \o t.frac \in Seq(Nat) /\ t.frac \in Seq(Nat) /\ e \in Int
    BY TextParts
  <2>2. n \in Nat
    BY <2>1, NumberIsNat
  <2>3. Len(t.frac) \in Nat
    BY <2>1, LenProperties
  <2> HIDE DEF n, e
  <2> QED
    BY <2>1, <2>2, <2>3, TenToIsNat
<1>2. up \in Nat /\ down \in Nat \ {0} /\ (e = 0 => up = 1 /\ down = 1)
  <2> HIDE DEF e
  <2>1. (e > 0 => e \in Nat) /\ (e < 0 => 0 - e \in Nat)
    BY <1>1
  <2> QED
    BY <1>1, <2>1, TenToIsNat
<1>3. Numerator(t) = n * up /\ Denominator(t) = s * down
  BY DEF Numerator, Denominator
<1>4. t.exponent = NoExponent => e = 0
  OBVIOUS
<1> HIDE DEF n, s, e, up, down
<1>5. n * up \in Nat /\ s * down \in Nat \ {0}
  BY <1>1, <1>2, SMT
<1>6. n * 1 = n /\ s * 1 = s
  BY <1>1
<1> QED
  BY <1>2, <1>3, <1>4, <1>5, <1>6 DEF n, s

(* What is read is at most what is written, and less than one unit short if   *)
(* all of it can be read, or two units if it has an exponent, ...            *)
LEMMA MagnitudeRoundsDown ==
  ASSUME NEW t \in Text, NEW d \in Nat, Short(t, d)
  PROVE  LET m == Magnitude(t, d)
             n == Numerator(t) * TenTo[d]
             b == Denominator(t)
         IN  /\ m \in Nat
             /\ m * b <= n
             /\ Readable(t.whole \o t.frac) =>
                  n < (m + IF t.exponent = NoExponent THEN 1 ELSE 2) * b
<1> DEFINE cut == t.whole \o Fraction(t, d)
           all == t.whole \o t.frac
           m == Magnitude(t, d)
           a == Numerator(t)
           b == Denominator(t)
           n == a * TenTo[d]
<1>1. a \in Nat /\ b \in Nat \ {0}
  BY WrittenValue
<1>2. n \in Nat /\ 0 * b = 0
  <2> HIDE DEF a, b
  <2> QED
    BY <1>1, TenToIsNat, ProductIsNat
<1>3. CASE t.exponent = NoExponent
  <2>1. a = Number(all) /\ b = TenTo[Len(t.frac)]
    BY <1>3, WrittenValue
  <2>2. m = IF Readable(cut) THEN Number(cut) ELSE 0
    BY <1>3 DEF Magnitude
  <2>3. /\ Number(cut) \in Nat
        /\ Number(cut) * b <= n
        /\ Readable(all) => n < (Number(cut) + 1) * b
    BY <2>1, CutRoundsDown
  <2>4. Readable(all) => Readable(cut)
    BY CutIsReadable
  <2> HIDE DEF m, n, a, b, cut, all
  <2> QED
    BY <1>2, <1>3, <2>2, <2>3, <2>4 DEF m, n, a, b, all
<1>4. CASE t.exponent # NoExponent
  <2> DEFINE f == Float(a, b)
             g == Float(f.num * TenTo[d], f.den)
             r == g.num \div g.den
  <2>1. m = IF all = << >> \/ ~Readable(all) THEN 0 ELSE r
    BY <1>4 DEF Magnitude
  <2>2. a * TenTo[d] < TwoTo[FloatBits - 1] /\ TenTo[d] \in Nat
    BY <1>4, TenToIsNat DEF Short
  <2> HIDE DEF a, b
  <2>3. r \in Nat /\ r * b <= n /\ n < (r + 2) * b
    BY <1>1, <2>2, FloatRoundsLittle
  <2>4. ASSUME all = << >> PROVE n = 0
    <3>1. Number(all) = 0
      <4>1. Len(all) = 0 /\ all \in Seq(Nat)
        BY <2>4
      <4> QED
        BY <4>1, PrefixesDefined DEF Number
    <3>2. a = 0
      <4> DEFINE up == IF t.exponent > 0 THEN TenTo[t.exponent] ELSE 1
      <4>1. a = Number(all) * up /\ up \in Nat
        BY <1>4, TextParts, TenToIsNat DEF a, Numerator
      <4> HIDE DEF up, all
      <4> QED
        BY <3>1, <4>1
    <3> QED
      BY <2>2, <3>2
  <2> HIDE DEF m, n, r, all
  <2>5. (0 + 2) * b > 0
    BY <1>1
  <2>6. Readable(all) => n < (m + 2) * b
    BY <2>1, <2>3, <2>4, <2>5
  <2> QED
    BY <1>2, <1>4, <2>1, <2>3, <2>6 DEF m, n, a, b, all
<1> QED
  BY <1>3, <1>4

(* ... which is what parseUnits returns but for the sign in front, or the     *)
(* signs if there are two.                                                  *)
LEMMA ParsesMagnitude ==
  ASSUME NEW t \in Text, NEW d \in Nat, Magnitude(t, d) \in Nat
  PROVE  /\ parseUnits(t, d) \in {0, Magnitude(t, d), 0 - Magnitude(t, d)}
         /\ Len(t.signs) <= 1 =>
              parseUnits(t, d) = SignOf(t) * Magnitude(t, d)
<1> DEFINE cut == t.whole \o Fraction(t, d)
           all == t.whole \o t.frac
           m == Magnitude(t, d)
           s == SignOf(t)
           l == Len(t.signs)
           inner == IF l = 2 THEN t.signs[2] ELSE 1
<1>1. l \in Nat /\ s \in {1, -1}
  BY TextParts, LenProperties DEF Text
<1>2. inner \in {1, -1} /\ (l <= 1 => inner = 1)
  BY <1>1, LenProperties, ElementOfSeq DEF Text
<1> HIDE DEF s, inner
<1>3. s * m \in {m, 0 - m} /\ s * 0 = 0 /\ (s * inner) * m \in {m, 0 - m}
      /\ (inner = 1 => (s * inner) * m = s * m)
  <2> HIDE DEF m
  <2>1. m \in Nat
    BY DEF m
  <2> QED
    BY <1>1, <1>2, <2>1
<1>4. CASE t.exponent = NoExponent
  <2>1. parseUnits(t, d) = IF l > 2 \/ ~Readable(cut) THEN 0
                           ELSE s * inner * Number(cut)
    BY <1>4 DEF parseUnits, s, inner
  <2>2. m = IF Readable(cut) THEN Number(cut) ELSE 0
    BY <1>4 DEF Magnitude
  <2> HIDE DEF l, m, cut
  <2> QED
    BY <1>1, <1>2, <1>3, <2>1, <2>2 DEF l, m, s
<1>5. CASE t.exponent # NoExponent
  <2> DEFINE f == Float(Numerator(t), Denominator(t))
             g == Float(f.num * TenTo[d], f.den)
             r == g.num \div g.den
  <2>1. parseUnits(t, d) = IF l > 1 \/ all = << >> \/ ~Readable(all) THEN 0
                           ELSE s * r
    BY <1>5 DEF parseUnits, parseUnitsFloat, s
  <2>2. m = IF all = << >> \/ ~Readable(all) THEN 0 ELSE r
    BY <1>5 DEF Magnitude
  <2> HIDE DEF l, m, all, r
  <2> QED
    BY <1>1, <1>3, <2>1, <2>2 DEF l, m, s
<1> QED
  BY <1>4, <1>5

(* Whatever a text is, it is read as an integer. *)
LEMMA ParseIsInt ==
  ASSUME NEW t \in Text, NEW d \in Nat
  PROVE  Magnitude(t, d) \in Nat /\ parseUnits(t, d) \in Int
<1>1. Magnitude(t, d) \in Nat
  <2> DEFINE f == Float(Numerator(t), Denominator(t))
             g == Float(f.num * TenTo[d], f.den)
             cut == t.whole \o Fraction(t, d)
  <2>1. Number(cut) \in Nat
    BY CutRoundsDown
  <2>2. f.num \in Nat /\ f.den \in Nat \ {0}
    BY WrittenValue, FloatIsNear
  <2> HIDE DEF f
  <2>3. f.num * TenTo[d] \in Nat
    BY <2>2, TenToIsNat, ProductIsNat
  <2>4. g.num \in Nat /\ g.den \in Nat \ {0}
    BY <2>2, <2>3, FloatIsNear
  <2> HIDE DEF g
  <2>5. g.num \div g.den \in Nat
    BY <2>4, DivisionRoundsDown
  <2>6. Magnitude(t, d) \in {0, Number(cut), g.num \div g.den}
    BY DEF Magnitude, f, g
  <2> HIDE DEF cut
  <2> QED
    BY <2>1, <2>5, <2>6
<1>2. parseUnits(t, d) \in {0, Magnitude(t, d), 0 - Magnitude(t, d)}
  BY <1>1, ParsesMagnitude
<1> QED
  BY <1>1, <1>2

(* What cannot be read counts as nothing. *)
LEMMA IllegibleIsNothing ==
  ASSUME NEW t \in Text, NEW d \in Nat, ~Legible(t, d)
  PROVE  parseUnits(t, d) = 0
<1> DEFINE cut == t.whole \o Fraction(t, d)
           all == t.whole \o t.frac
           w == Len(t.whole)
           f == Len(t.frac)
<1>1. /\ w \in Nat /\ f \in Nat /\ Len(cut) = w + d /\ Len(all) = w + f
      /\ \A i \in 1..(w + d) : cut[i] = IF i <= w + f THEN all[i] ELSE 0
  BY CutDigits
<1>2. PICK i \in 1..Len(all) : all[i] = Other /\ ~(i > w + d)
  BY DEF Legible
<1> HIDE DEF cut, all, w, f
<1>3. i \in 1..(w + d) /\ i \in 1..Len(cut) /\ i <= w + f
  BY <1>1, <1>2
<1>4. cut[i] = Other
  BY <1>1, <1>2, <1>3
<1>5. ~Readable(cut) /\ ~Readable(all)
  BY <1>2, <1>3, <1>4 DEF Readable
<1> QED
  BY <1>5 DEF parseUnits, parseUnitsFloat, cut, all

(* Arithmetic: between two multiples of a divisor lies one quotient, or two.  *)
LEMMA QuotientBetween ==
  ASSUME NEW a \in Nat, NEW q \in Nat, NEW b \in Nat \ {0}, q * b <= a
  PROVE  /\ a < (q + 1) * b => a \div b = q
         /\ a < (q + 2) * b => a \div b \in {q, q + 1}
<1> DEFINE r == a \div b
           x == q * b
<1>1. r \in Nat /\ r * b <= a /\ a < (r + 1) * b
  BY DivisionRoundsDown
<1> HIDE DEF r
<1>2. q <= r
  <2> SUFFICES ASSUME r < q PROVE FALSE
    BY <1>1
  <2>1. (r + 1) * b <= q * b /\ (r + 1) * b \in Nat /\ q * b \in Nat
    BY <1>1, ProductMonotone, ProductIsNat
  <2> QED
    BY <1>1, <2>1
<1>3. ASSUME NEW k \in Nat, a < k * b PROVE r < k
  <2> SUFFICES ASSUME k <= r PROVE FALSE
    BY <1>1
  <2>1. k * b <= r * b /\ k * b \in Nat /\ r * b \in Nat
    BY <1>1, ProductMonotone, ProductIsNat
  <2> QED
    BY <1>1, <1>3, <2>1
<1>4. (a < (q + 1) * b => r < q + 1) /\ (a < (q + 2) * b => r < q + 2)
  BY <1>3
<1> QED
  BY <1>1, <1>2, <1>4 DEF r

(* parseUnits reads a decimal number as it is written, in units of 10^-d,     *)
(* with the digits beyond cut off towards zero ("Extra fractional digits      *)
(* beyond 18 are truncated", utils.go:44), whatever the number of digits; in *)
(* scientific notation, and with few enough digits for a float, one unit     *)
(* may be missing.                                                          *)
THEOREM ReadsAsWritten ==
  ASSUME NEW t \in Text, NEW d \in Nat,
         Len(t.signs) <= 1, Readable(t.whole \o t.frac), Short(t, d)
  PROVE  IF t.exponent = NoExponent
           THEN parseUnits(t, d) = Exactly(t, d)
           ELSE parseUnits(t, d) \in {Exactly(t, d), Exactly(t, d) - SignOf(t)}
<1> DEFINE m == Magnitude(t, d)
           b == Denominator(t)
           n == Numerator(t) * TenTo[d]
           s == SignOf(t)
<1>1. /\ m \in Nat /\ m * b <= n
      /\ n < (m + IF t.exponent = NoExponent THEN 1 ELSE 2) * b
  BY MagnitudeRoundsDown
<1>2. n \in Nat /\ b \in Nat \ {0} /\ s \in {1, -1}
  BY WrittenValue, TenToIsNat, ProductIsNat, TextParts
<1>3. parseUnits(t, d) = s * m
  BY <1>1, ParsesMagnitude
<1>4. Exactly(t, d) = s * (n \div b)
  BY DEF Exactly
<1> HIDE DEF m, n, b, s
<1>5. t.exponent = NoExponent => n \div b = m
  BY <1>1, <1>2, QuotientBetween
<1>6. t.exponent # NoExponent => n \div b \in {m, m + 1}
  BY <1>1, <1>2, QuotientBetween
<1>7. s * m = s * (m + 1) - s
  BY <1>1, <1>2
<1> QED
  BY <1>3, <1>4, <1>5, <1>6, <1>7 DEF s
=============================================================================
