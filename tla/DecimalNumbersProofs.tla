------------------------- MODULE DecimalNumbersProofs -------------------------
(***************************************************************************)
(* Induction over the natural numbers, in terms of sets, and from it the    *)
(* functions of DecimalNumbers: that their recursive definitions define     *)
(* them, and what they compute.                                             *)
(***************************************************************************)
EXTENDS DecimalNumbers, WellFoundedInduction, TLAPS

(* Arithmetic: products of natural numbers. *)

(* A product of natural numbers is one. *)
LEMMA ProductIsNat ==
  ASSUME NEW a \in Nat, NEW b \in Nat
  PROVE  a * b \in Nat
BY SMT

(* Multiplication is monotone. *)
LEMMA ProductMonotone ==
  ASSUME NEW a \in Nat, NEW b \in Nat, NEW n \in Nat, a <= b
  PROVE  a * n <= b * n
BY SMT

(* Products of larger numbers are larger. *)
LEMMA ProductsMonotone ==
  ASSUME NEW a \in Nat, NEW b \in Nat, NEW m \in Nat, NEW n \in Nat,
         a <= b, m <= n
  PROVE  a * m <= b * n
<1>1. a * m <= b * m
  BY ProductMonotone
<1>2. m * b <= n * b
  BY ProductMonotone
<1>3. m * b = b * m /\ n * b = b * n
  BY SMT
<1>4. a * m \in Nat /\ b * m \in Nat /\ b * n \in Nat
  BY ProductIsNat
<1> QED
  BY <1>1, <1>2, <1>3, <1>4

(* Four factors in another order. *)
LEMMA FourFactors ==
  ASSUME NEW a \in Nat, NEW b \in Nat, NEW c \in Nat, NEW d \in Nat
  PROVE  (a * b) * (c * d) = (a * c) * (b * d)
BY SMT

(* A common factor can be taken away. *)
LEMMA ProductCancels ==
  ASSUME NEW a \in Nat, NEW b \in Nat, NEW n \in Nat \ {0}, a * n <= b * n
  PROVE  a <= b
<1> SUFFICES ASSUME a > b PROVE FALSE
  OBVIOUS
<1>1. b + 1 <= a /\ b + 1 \in Nat
  OBVIOUS
<1>2. (b + 1) * n <= a * n
  BY <1>1, ProductMonotone
<1>3. (b + 1) * n = b * n + n /\ b * n \in Nat /\ a * n \in Nat
  BY SMT
<1> QED
  BY <1>2, <1>3

-----------------------------------------------------------------------------
(* Every set of natural numbers has a least element. *)
LEMMA LeastNatural ==
  ASSUME NEW S, S \subseteq Nat, S # {}
  PROVE  \E n \in S : \A m \in S : n <= m
<1> DEFINE less == OpToRel(<, Nat)
<1>1. IsWellFoundedOn(less, Nat)
  BY NatLessThanWellFounded
<1>2. \A x, y \in Nat : x < y => <<x, y>> \in less
  BY DEF OpToRel
<1> HIDE DEF less
<1>3. \E n \in S : \A m \in S : <<m, n>> \notin less
  BY <1>1, WFMin
<1>4. PICK n \in S : \A m \in S : <<m, n>> \notin less
  BY <1>3
<1>5. ASSUME NEW m \in S PROVE n <= m
  <2>1. n \in Nat /\ m \in Nat /\ <<m, n>> \notin less
    BY <1>4
  <2>2. ~(m < n)
    BY <1>2, <2>1
  <2> QED
    BY <2>1, <2>2
<1> QED
  BY <1>5

(* A set with zero and all successors has every natural number. *)
LEMMA InductionOnSet ==
  ASSUME NEW S, 0 \in S, \A n \in Nat : n \in S => n + 1 \in S
  PROVE  Nat \subseteq S
<1> SUFFICES ASSUME Nat \ S # {} PROVE FALSE
  OBVIOUS
<1>1. PICK n \in Nat \ S : \A m \in Nat \ S : n <= m
  BY LeastNatural
<1>2. n - 1 \in Nat
  BY <1>1
<1>3. n - 1 \in S
  BY <1>1, <1>2
<1>4. n - 1 + 1 \in S
  BY <1>2, <1>3
<1> QED
  BY <1>1, <1>4

(* A function on numbers S may be defined by recursion: for an n that does   *)
(* not stop it, from its value at a smaller number, down[n].                *)
WellDefined(S, V, stop, base, down, step) ==
  /\ S \subseteq Nat
  /\ base \in [S -> V]
  /\ step \in [S -> [V -> V]]
  /\ \A n \in S \ stop : down[n] \in S /\ down[n] < n

IsRecursion(f, S, V, stop, base, down, step) ==
  /\ f \in [S -> V]
  /\ \A n \in S : f[n] = IF n \in stop THEN base[n] ELSE step[n][f[down[n]]]

LEMMA RecursionDefines ==
  ASSUME NEW S, NEW V, NEW stop, NEW base, NEW down, NEW step,
         WellDefined(S, V, stop, base, down, step)
  PROVE  \E f : IsRecursion(f, S, V, stop, base, down, step)
<1> USE DEF WellDefined
<1> DEFINE Holds(f, m) == f[m] = IF m \in stop THEN base[m]
                                 ELSE step[m][f[down[m]]]
           Solves(f, n) == f \in [S -> V] /\ \A m \in S : m <= n => Holds(f, m)
           Solved == {n \in Nat : \E f : Solves(f, n)}
<1>0. /\ \A n \in S : n \in Nat
      /\ \A n \in S \ stop : down[n] \in Nat /\ down[n] \in S /\ down[n] < n
  OBVIOUS
<1>1. Nat \subseteq Solved
  <2>1. 0 \in Solved
    <3>1. ASSUME NEW m \in S, m <= 0, m \notin stop PROVE FALSE
      <4>1. m \in Nat /\ down[m] \in Nat /\ down[m] < m
        BY <1>0, <3>1
      <4> QED
        BY <3>1, <4>1
    <3>2. Solves(base, 0)
      BY <3>1
    <3> QED
      BY <3>2
  <2>2. ASSUME NEW n \in Nat, n \in Solved PROVE n + 1 \in Solved
    <3>1. PICK f : Solves(f, n)
      BY <2>2
    <3>2. CASE n + 1 \notin S
      <4>1. \A m \in S : m <= n + 1 => m <= n
        BY <3>2
      <4> QED
        BY <3>1, <4>1
    <3>3. CASE n + 1 \in S
      <4> DEFINE v == IF n + 1 \in stop THEN base[n + 1]
                      ELSE step[n + 1][f[down[n + 1]]]
                 g == [f EXCEPT ![n + 1] = v]
      <4>1. v \in V
        <5>1. CASE n + 1 \in stop
          BY <3>3, <5>1
        <5>2. CASE n + 1 \notin stop
          <6>1. down[n + 1] \in S /\ f \in [S -> V]
            BY <1>0, <3>1, <3>3, <5>2
          <6>2. f[down[n + 1]] \in V /\ step[n + 1] \in [V -> V]
            BY <3>3, <6>1
          <6> QED
            BY <5>2, <6>2
        <5> QED
          BY <5>1, <5>2
      <4>2. g \in [S -> V] /\ g[n + 1] = v /\ \A m \in S : m <= n => g[m] = f[m]
        BY <3>1, <3>3, <4>1
      <4>3. ASSUME NEW m \in S \ stop, m <= n + 1
            PROVE  down[m] \in S /\ down[m] <= n
        <5>1. m \in Nat /\ down[m] \in Nat /\ down[m] \in S /\ down[m] < m
          BY <1>0
        <5> QED
          BY <4>3, <5>1
      <4> HIDE DEF g
      <4>4. ASSUME NEW m \in S, m <= n + 1 PROVE Holds(g, m)
        <5>1. m \notin stop => g[down[m]] = f[down[m]]
          BY <4>2, <4>3, <4>4
        <5>2. CASE m = n + 1
          BY <4>2, <5>1, <5>2
        <5>3. CASE m # n + 1
          <6>1. m <= n
            BY <4>4, <5>3
          <6> QED
            BY <3>1, <4>2, <5>1, <6>1
        <5> QED
          BY <5>2, <5>3
      <4> QED
        BY <4>2, <4>4
    <3> QED
      BY <3>2, <3>3
  <2> HIDE DEF Solved
  <2> QED
    BY <2>1, <2>2, InductionOnSet
<1>2. ASSUME NEW f, NEW g, NEW n \in Nat, Solves(f, n), Solves(g, n),
             NEW k \in S, k <= n
      PROVE  f[k] = g[k]
  <2> DEFINE differ == {m \in S : m <= n /\ f[m] # g[m]}
  <2> SUFFICES ASSUME differ # {} PROVE FALSE
    BY <1>2
  <2>1. differ \subseteq Nat
    OBVIOUS
  <2>2. PICK m \in differ : \A i \in differ : m <= i
    <3> HIDE DEF differ
    <3> QED
      BY <2>1, LeastNatural
  <2>3. ASSUME m \notin stop PROVE f[down[m]] = g[down[m]]
    <3>1. m \in S /\ m \in Nat /\ m <= n
      BY <1>0, <2>2
    <3>2. down[m] \in Nat /\ down[m] \in S /\ down[m] < m
      BY <1>0, <2>3, <3>1
    <3>3. down[m] \notin differ
      <4> HIDE DEF differ
      <4> QED
        BY <2>2, <3>1, <3>2
    <3>4. down[m] <= n
      BY <3>1, <3>2
    <3> QED
      BY <3>2, <3>3, <3>4
  <2> QED
    BY <1>2, <2>2, <2>3
<1> DEFINE some(n) == CHOOSE f : Solves(f, n)
           F == [n \in S |-> some(n)[n]]
<1>3. \A n \in S : Solves(some(n), n)
  <2> TAKE n \in S
  <2>1. \E f : Solves(f, n)
    BY <1>1
  <2> HIDE DEF Solves
  <2> QED
    BY <2>1
<1>4. F \in [S -> V]
  BY <1>3
<1>5. ASSUME NEW n \in S PROVE Holds(F, n)
  <2>1. F[n] = some(n)[n] /\ Holds(some(n), n)
    BY <1>3
  <2>2. CASE n \notin stop
    <3>1. down[n] \in S /\ down[n] < n /\ n \in Nat /\ down[n] \in Nat
      BY <1>0, <2>2
    <3>2. Solves(some(n), down[n]) /\ Solves(some(down[n]), down[n])
      <4> DEFINE f == some(n)
      <4>1. Solves(f, n) /\ Solves(some(down[n]), down[n])
        BY <1>3, <3>1
      <4>2. \A m \in S : m <= down[n] => m <= n
        BY <1>0, <3>1
      <4> HIDE DEF f
      <4>3. Solves(f, down[n])
        BY <4>1, <4>2
      <4> QED
        BY <4>1, <4>3 DEF f
    <3> HIDE DEF Solves, some
    <3>3. some(n)[down[n]] = some(down[n])[down[n]]
      BY <1>2, <3>1, <3>2
    <3> QED
      BY <2>1, <2>2, <3>1, <3>3
  <2> QED
    BY <2>1, <2>2
<1> QED
  BY <1>4, <1>5 DEF IsRecursion

-----------------------------------------------------------------------------
(* Powers exist. *)
LEMMA PowersExist ==
  ASSUME NEW b \in Nat \ {0}
  PROVE  \E f : f = [k \in Nat |-> IF k = 0 THEN 1 ELSE b * f[k - 1]]
<1> DEFINE Nats == Nat \ {0}
           stop == {0}
           base == [k \in Nat |-> 1]
           down == [k \in Nat |-> k - 1]
           step == [k \in Nat |-> [v \in Nats |-> b * v]]
<1>1. \A v \in Nats : b * v \in Nats
  BY SMT
<1>2. base \in [Nat -> Nats] /\ step \in [Nat -> [Nats -> Nats]]
  BY <1>1
<1>3. Nat \subseteq Nat /\ \A k \in Nat \ stop : down[k] \in Nat /\ down[k] < k
  OBVIOUS
<1> HIDE DEF Nats, stop, base, down, step
<1>4. WellDefined(Nat, Nats, stop, base, down, step)
  BY <1>2, <1>3 DEF WellDefined
<1>5. PICK f : IsRecursion(f, Nat, Nats, stop, base, down, step)
  BY <1>4, RecursionDefines
<1>6. ASSUME NEW k \in Nat
      PROVE  f[k] = IF k = 0 THEN 1 ELSE b * f[k - 1]
  <2>1. CASE k = 0
    BY <1>5, <2>1 DEF stop, base, IsRecursion
  <2>2. CASE k # 0
    <3>1. k - 1 \in Nat /\ f[k - 1] \in Nats
      BY <1>5, <2>2 DEF IsRecursion
    <3> QED
      BY <1>5, <2>2, <3>1 DEF stop, step, down, IsRecursion
  <2> QED
    BY <2>1, <2>2
<1> QED
  BY <1>5, <1>6 DEF IsRecursion

(* A function that multiplies by b at every step is positive. *)
LEMMA PowersPositive ==
  ASSUME NEW b \in Nat \ {0}, NEW p,
         p = [k \in Nat |-> IF k = 0 THEN 1 ELSE b * p[k - 1]]
  PROVE  /\ p \in [Nat -> Nat \ {0}]
         /\ p[0] = 1
         /\ \A k \in Nat : p[k + 1] = b * p[k]
<1> DEFINE typed == {k \in Nat : p[k] \in Nat \ {0}}
<1>1. p[0] = 1 /\ \A k \in Nat : p[k + 1] = b * p[k]
  <2>1. \A k \in Nat : k + 1 # 0 /\ (k + 1) - 1 = k /\ k + 1 \in Nat
    OBVIOUS
  <2> QED
    BY <2>1, Zenon
<1>2. ASSUME NEW k \in Nat, k \in typed PROVE k + 1 \in typed
  <2>1. b * p[k] \in Nat \ {0}
    BY <1>2, SMT
  <2> QED
    BY <1>1, <2>1
<1>3. Nat \subseteq typed
  <2>1. 0 \in typed
    BY <1>1
  <2> HIDE DEF typed
  <2> QED
    BY <1>2, <2>1, InductionOnSet
<1> QED
  BY <1>1, <1>3

(* TenTo is defined, ... *)
LEMMA TenToDefined ==
  /\ TenTo \in [Nat -> Nat \ {0}]
  /\ TenTo[0] = 1
  /\ \A k \in Nat : TenTo[k + 1] = 10 * TenTo[k]
<1>1. \E f : f = [k \in Nat |-> IF k = 0 THEN 1 ELSE 10 * f[k - 1]]
  BY PowersExist
<1>2. TenTo = [k \in Nat |-> IF k = 0 THEN 1 ELSE 10 * TenTo[k - 1]]
  BY <1>1 DEF TenTo
<1>3. 10 \in Nat \ {0}
  OBVIOUS
<1> QED
  BY <1>2, <1>3, PowersPositive, Zenon

(* ... as is TwoTo, ... *)
LEMMA TwoToDefined ==
  /\ TwoTo \in [Nat -> Nat \ {0}]
  /\ TwoTo[0] = 1
  /\ \A k \in Nat : TwoTo[k + 1] = 2 * TwoTo[k]
<1>1. \E f : f = [k \in Nat |-> IF k = 0 THEN 1 ELSE 2 * f[k - 1]]
  BY PowersExist
<1>2. TwoTo = [k \in Nat |-> IF k = 0 THEN 1 ELSE 2 * TwoTo[k - 1]]
  BY <1>1 DEF TwoTo
<1>3. 2 \in Nat \ {0}
  OBVIOUS
<1> QED
  BY <1>2, <1>3, PowersPositive, Zenon

(* ... positive, ... *)
LEMMA TenToIsNat ==
  ASSUME NEW k \in Nat
  PROVE  TenTo[k] \in Nat \ {0}
BY TenToDefined

(* ... and turns sums into products. *)
LEMMA TenToOfSum ==
  ASSUME NEW j \in Nat, NEW k \in Nat
  PROVE  TenTo[j + k] = TenTo[j] * TenTo[k]
<1> DEFINE sums == {i \in Nat : TenTo[j + i] = TenTo[j] * TenTo[i]}
<1>1. 0 \in sums
  BY TenToDefined
<1>2. ASSUME NEW i \in Nat, i \in sums PROVE i + 1 \in sums
  <2>1. j + (i + 1) = (j + i) + 1 /\ j + i \in Nat
    OBVIOUS
  <2>2. TenTo[j + (i + 1)] = 10 * TenTo[j + i] /\ TenTo[i + 1] = 10 * TenTo[i]
    BY <2>1, TenToDefined
  <2>3. TenTo[j] \in Nat /\ TenTo[i] \in Nat
    BY TenToIsNat
  <2>4. 10 * (TenTo[j] * TenTo[i]) = TenTo[j] * (10 * TenTo[i])
    BY <2>3
  <2> QED
    BY <1>2, <2>2, <2>4
<1> HIDE DEF sums
<1>3. Nat \subseteq sums
  BY <1>1, <1>2, InductionOnSet
<1> QED
  BY <1>3 DEF sums

(* A number with n digits is less than the n-th power of ten, and no less    *)
(* than the one before.                                                     *)
LEMMA DecimalLengthDefined ==
  /\ DecimalLength \in [Nat -> Nat \ {0}]
  /\ \A n \in Nat : DecimalLength[n] = IF n < 10 THEN 1
                                       ELSE 1 + DecimalLength[n \div 10]
<1> DEFINE Nats == Nat \ {0}
           small == {n \in Nat : n < 10}
           base == [n \in Nat |-> 1]
           down == [n \in Nat |-> n \div 10]
           step == [n \in Nat |-> [v \in Nats |-> 1 + v]]
<1>1. base \in [Nat -> Nats] /\ step \in [Nat -> [Nats -> Nats]]
  OBVIOUS
<1>2. Nat \subseteq Nat /\ \A n \in Nat \ small : down[n] \in Nat /\ down[n] < n
  OBVIOUS
<1> HIDE DEF Nats, base, down, step, small
<1>3. WellDefined(Nat, Nats, small, base, down, step)
  BY <1>1, <1>2 DEF WellDefined
<1>4. PICK f : IsRecursion(f, Nat, Nats, small, base, down, step)
  BY <1>3, RecursionDefines
<1>5. ASSUME NEW n \in Nat
      PROVE  f[n] = IF n < 10 THEN 1 ELSE 1 + f[n \div 10]
  <2>1. n \div 10 \in Nat
    OBVIOUS
  <2> QED
    BY <1>4, <2>1 DEF small, base, step, down, IsRecursion
<1>6. f = [n \in Nat |-> IF n < 10 THEN 1 ELSE 1 + f[n \div 10]]
  BY <1>4, <1>5 DEF IsRecursion
<1>7. DecimalLength =
        [n \in Nat |-> IF n < 10 THEN 1 ELSE 1 + DecimalLength[n \div 10]]
  BY <1>6 DEF DecimalLength
<1>8. \A n \in Nat : DecimalLength[n] = f[n]
  <2> DEFINE differ == {n \in Nat : DecimalLength[n] # f[n]}
  <2> SUFFICES ASSUME differ # {} PROVE FALSE
    OBVIOUS
  <2>1. PICK n \in differ : \A m \in differ : n <= m
    <3>1. differ \subseteq Nat
      OBVIOUS
    <3> HIDE DEF differ
    <3> QED
      BY <3>1, LeastNatural
  <2>2. n \in Nat /\ ~(n < 10) /\ n \div 10 \in Nat /\ n \div 10 < n
    BY <1>5, <1>7, <2>1
  <2>3. n \div 10 \notin differ
    BY <2>1, <2>2
  <2> QED
    BY <1>5, <1>7, <2>1, <2>2, <2>3
<1> QED
  BY <1>4, <1>7, <1>8 DEF Nats, IsRecursion

(* A number with n digits is less than the n-th power of ten, and no less    *)
(* than the one before.                                                     *)
LEMMA DecimalLengthBounds ==
  ASSUME NEW n \in Nat
  PROVE  /\ n < TenTo[DecimalLength[n]]
         /\ n # 0 => TenTo[DecimalLength[n] - 1] <= n
<1> DEFINE Bounded(m) == /\ m < TenTo[DecimalLength[m]]
                         /\ m # 0 => TenTo[DecimalLength[m] - 1] <= m
           wrong == {m \in Nat : ~Bounded(m)}
<1> SUFFICES ASSUME wrong # {} PROVE FALSE
  OBVIOUS
<1>1. PICK m \in wrong : \A k \in wrong : m <= k
  <2>1. wrong \subseteq Nat
    OBVIOUS
  <2> HIDE DEF wrong
  <2> QED
    BY <2>1, LeastNatural
<1>2. CASE m < 10
  <2>1. DecimalLength[m] = 1 /\ m \in Nat
    BY <1>1, <1>2, DecimalLengthDefined
  <2>2. TenTo[1] = 10 /\ TenTo[0] = 1
    <3>1. TenTo[0 + 1] = 10 * TenTo[0]
      BY TenToDefined
    <3> QED
      BY <3>1, TenToDefined
  <2> QED
    BY <1>1, <1>2, <2>1, <2>2
<1>3. CASE ~(m < 10)
  <2> DEFINE k == m \div 10
             l == DecimalLength[k]
  <2>1. m \in Nat /\ k \in Nat /\ k < m /\ k # 0 /\ 10 * k <= m /\ m < 10 * (k + 1)
    BY <1>1, <1>3
  <2>2. DecimalLength[m] = 1 + l /\ l \in Nat \ {0}
    BY <1>3, <2>1, DecimalLengthDefined
  <2>3. Bounded(k)
    <3>1. k \notin wrong
      <4> HIDE DEF wrong, k
      <4> QED
        BY <1>1, <2>1
    <3> QED
      BY <2>1, <3>1
  <2> HIDE DEF l, k
  <2>4. k < TenTo[l] /\ TenTo[l - 1] <= k
    BY <2>1, <2>3 DEF l
  <2>5. l - 1 \in Nat /\ (l - 1) + 1 = l /\ 1 + l = l + 1
    BY <2>2
  <2>6. TenTo[l + 1] = 10 * TenTo[l] /\ TenTo[(l - 1) + 1] = 10 * TenTo[l - 1]
    BY <2>2, <2>5, TenToDefined
  <2>7. TenTo[l] \in Nat /\ TenTo[l - 1] \in Nat
    BY <2>2, <2>5, TenToIsNat
  <2>8. m < TenTo[l + 1]
    BY <2>1, <2>4, <2>6, <2>7
  <2>9. TenTo[l] <= m
    BY <2>1, <2>4, <2>5, <2>6, <2>7
  <2>10. DecimalLength[m] = l + 1 /\ (l + 1) - 1 = l
    BY <2>2
  <2> QED
    BY <1>1, <2>8, <2>9, <2>10
<1> QED
  BY <1>2, <1>3

(* BinaryLog is defined, ... *)
LEMMA BinaryLogDefined ==
  /\ BinaryLog \in [Nat -> Nat]
  /\ \A n \in Nat : BinaryLog[n] = IF n <= 1 THEN 0
                                   ELSE 1 + BinaryLog[(n + 1) \div 2]
<1> DEFINE small == {n \in Nat : n <= 1}
           base == [n \in Nat |-> 0]
           down == [n \in Nat |-> (n + 1) \div 2]
           step == [n \in Nat |-> [v \in Nat |-> 1 + v]]
<1>1. base \in [Nat -> Nat] /\ step \in [Nat -> [Nat -> Nat]]
  OBVIOUS
<1>2. Nat \subseteq Nat /\ \A n \in Nat \ small : down[n] \in Nat /\ down[n] < n
  OBVIOUS
<1> HIDE DEF base, down, step, small
<1>3. WellDefined(Nat, Nat, small, base, down, step)
  BY <1>1, <1>2 DEF WellDefined
<1>4. PICK f : IsRecursion(f, Nat, Nat, small, base, down, step)
  BY <1>3, RecursionDefines
<1>5. ASSUME NEW n \in Nat
      PROVE  f[n] = IF n <= 1 THEN 0 ELSE 1 + f[(n + 1) \div 2]
  <2>1. (n + 1) \div 2 \in Nat
    OBVIOUS
  <2> QED
    BY <1>4, <2>1 DEF small, base, step, down, IsRecursion
<1>6. f = [n \in Nat |-> IF n <= 1 THEN 0 ELSE 1 + f[(n + 1) \div 2]]
  BY <1>4, <1>5 DEF IsRecursion
<1>7. BinaryLog =
        [n \in Nat |-> IF n <= 1 THEN 0 ELSE 1 + BinaryLog[(n + 1) \div 2]]
  BY <1>6 DEF BinaryLog
<1>8. \A n \in Nat : BinaryLog[n] = f[n]
  <2> DEFINE differ == {n \in Nat : BinaryLog[n] # f[n]}
  <2> SUFFICES ASSUME differ # {} PROVE FALSE
    OBVIOUS
  <2>1. PICK n \in differ : \A m \in differ : n <= m
    <3>1. differ \subseteq Nat
      OBVIOUS
    <3> HIDE DEF differ
    <3> QED
      BY <3>1, LeastNatural
  <2>2. n \in Nat /\ ~(n <= 1) /\ (n + 1) \div 2 \in Nat /\ (n + 1) \div 2 < n
    BY <1>5, <1>7, <2>1
  <2>3. (n + 1) \div 2 \notin differ
    BY <2>1, <2>2
  <2> QED
    BY <1>5, <1>7, <2>1, <2>2, <2>3
<1> QED
  BY <1>4, <1>7, <1>8 DEF IsRecursion

(* ... and is the least power of two that is at least n. *)
LEMMA BinaryLogBounds ==
  ASSUME NEW n \in Nat
  PROVE  /\ n <= TwoTo[BinaryLog[n]]
         /\ BinaryLog[n] # 0 => TwoTo[BinaryLog[n] - 1] < n
<1> DEFINE Bounded(m) == /\ m <= TwoTo[BinaryLog[m]]
                         /\ BinaryLog[m] # 0 => TwoTo[BinaryLog[m] - 1] < m
           wrong == {m \in Nat : ~Bounded(m)}
<1> SUFFICES ASSUME wrong # {} PROVE FALSE
  OBVIOUS
<1>1. PICK m \in wrong : \A k \in wrong : m <= k
  <2>1. wrong \subseteq Nat
    OBVIOUS
  <2> HIDE DEF wrong
  <2> QED
    BY <2>1, LeastNatural
<1>2. CASE m <= 1
  BY <1>1, <1>2, BinaryLogDefined, TwoToDefined
<1>3. CASE ~(m <= 1)
  <2> DEFINE k == (m + 1) \div 2
             l == BinaryLog[k]
  <2>1. m \in Nat /\ k \in Nat /\ k < m /\ k # 0 /\ m <= 2 * k /\ 2 * k <= m + 1
    BY <1>1, <1>3
  <2>2. BinaryLog[m] = 1 + l /\ l \in Nat
    BY <1>3, <2>1, BinaryLogDefined
  <2>3. Bounded(k)
    <3>1. k \notin wrong
      <4> HIDE DEF wrong, k
      <4> QED
        BY <1>1, <2>1
    <3> QED
      BY <2>1, <3>1
  <2> HIDE DEF l, k
  <2>4. k <= TwoTo[l] /\ (l # 0 => TwoTo[l - 1] < k)
    BY <2>1, <2>3 DEF l
  <2>5. BinaryLog[m] = l + 1 /\ (l + 1) - 1 = l
    BY <2>2
  <2>6. TwoTo[l] \in Nat /\ TwoTo[l + 1] = 2 * TwoTo[l]
    BY <2>2, TwoToDefined
  <2>7. m <= TwoTo[l + 1]
    BY <2>1, <2>4, <2>6
  <2>8. TwoTo[l] < m
    <3>1. CASE l = 0
      BY <1>3, <2>1, <3>1, TwoToDefined
    <3>2. CASE l # 0
      <4>1. l - 1 \in Nat /\ (l - 1) + 1 = l
        BY <2>2, <3>2
      <4>2. TwoTo[l] = 2 * TwoTo[l - 1] /\ TwoTo[l - 1] \in Nat
        BY <4>1, TwoToDefined
      <4> QED
        BY <2>1, <2>4, <3>2, <4>2
    <3> QED
      BY <3>1, <3>2
  <2> QED
    BY <1>1, <2>5, <2>7, <2>8
<1> QED
  BY <1>2, <1>3

-----------------------------------------------------------------------------
(* A function on 0..n may be defined by recursion from the number before.    *)
LEMMA RecursionOnInterval ==
  ASSUME NEW n \in Nat, NEW step \in [1..n -> [Nat -> Nat]]
  PROVE  \E f \in [0..n -> Nat] :
           \A i \in 0..n : f[i] = IF i = 0 THEN 0 ELSE step[i][f[i - 1]]
<1> DEFINE S == 0..n
           stop == {0}
           base == [i \in S |-> 0]
           down == [i \in S |-> i - 1]
           next == [i \in S |-> IF i = 0 THEN [v \in Nat |-> v] ELSE step[i]]
<1>1. S \subseteq Nat /\ base \in [S -> Nat]
  OBVIOUS
<1>2. next \in [S -> [Nat -> Nat]]
  <2> SUFFICES ASSUME NEW i \in S PROVE next[i] \in [Nat -> Nat]
    OBVIOUS
  <2>1. i # 0 => i \in 1..n
    OBVIOUS
  <2> QED
    BY <2>1
<1>3. \A i \in S \ stop : down[i] \in S /\ down[i] < i
  OBVIOUS
<1> HIDE DEF S, stop, base, down, next
<1>4. WellDefined(S, Nat, stop, base, down, next)
  BY <1>1, <1>2, <1>3 DEF WellDefined
<1>5. PICK f : IsRecursion(f, S, Nat, stop, base, down, next)
  BY <1>4, RecursionDefines
<1>6. f \in [0..n -> Nat]
  BY <1>5 DEF IsRecursion, S
<1>7. ASSUME NEW i \in 0..n
      PROVE  f[i] = IF i = 0 THEN 0 ELSE step[i][f[i - 1]]
  <2>1. f[i] = IF i = 0 THEN base[i] ELSE next[i][f[down[i]]]
    BY <1>5 DEF IsRecursion, S, stop
  <2>2. base[i] = 0 /\ down[i] = i - 1 /\ (i # 0 => next[i] = step[i])
    BY DEF base, down, next, S
  <2> QED
    BY <2>1, <2>2
<1> QED
  BY <1>6, <1>7

(* Induction over an interval. *)
LEMMA InductionOnInterval ==
  ASSUME NEW n \in Nat, NEW S, 0 \in S,
         \A i \in 1..n : i - 1 \in S => i \in S
  PROVE  0..n \subseteq S
<1> DEFINE reached == {i \in Nat : i <= n => i \in S}
<1>1. 0 \in reached
  OBVIOUS
<1>2. ASSUME NEW i \in Nat, i \in reached PROVE i + 1 \in reached
  <2> SUFFICES ASSUME i + 1 <= n PROVE i + 1 \in S
    OBVIOUS
  <2>1. i + 1 \in 1..n /\ (i + 1) - 1 = i /\ i \in S
    BY <1>2
  <2> QED
    BY <2>1
<1> HIDE DEF reached
<1>3. Nat \subseteq reached
  BY <1>1, <1>2, InductionOnSet
<1> QED
  BY <1>3 DEF reached

(* So are the numbers that digits spell, ...  *)
LEMMA PrefixesDefined ==
  ASSUME NEW digits \in Seq(Nat)
  PROVE  /\ Prefixes(digits) \in [0..Len(digits) -> Nat]
         /\ Prefixes(digits)[0] = 0
         /\ \A i \in 1..Len(digits) :
              Prefixes(digits)[i] = 10 * Prefixes(digits)[i - 1] + digits[i]
<1> DEFINE n == Len(digits)
           step == [i \in 1..n |-> [v \in Nat |-> 10 * v + digits[i]]]
           P == Prefixes(digits)
<1>1. n \in Nat /\ \A i \in 1..n : digits[i] \in Nat
  OBVIOUS
<1> HIDE DEF n
<1>2. step \in [1..n -> [Nat -> Nat]]
  BY <1>1
<1> HIDE DEF step
<1>3. PICK f \in [0..n -> Nat] :
        \A i \in 0..n : f[i] = IF i = 0 THEN 0 ELSE step[i][f[i - 1]]
  BY <1>1, <1>2, RecursionOnInterval
<1>4. f = [i \in 0..n |-> IF i = 0 THEN 0 ELSE 10 * f[i - 1] + digits[i]]
  <2>1. ASSUME NEW i \in 0..n, i # 0
        PROVE  step[i][f[i - 1]] = 10 * f[i - 1] + digits[i]
    <3>1. i \in 1..n /\ f[i - 1] \in Nat
      BY <1>1, <2>1
    <3> QED
      BY <3>1 DEF step
  <2>2. ASSUME NEW i \in 0..n
        PROVE  f[i] = IF i = 0 THEN 0 ELSE 10 * f[i - 1] + digits[i]
    BY <1>3, <2>1
  <2> QED
    BY <2>2
<1>5. P = [i \in 0..n |-> IF i = 0 THEN 0 ELSE 10 * P[i - 1] + digits[i]]
  BY <1>4 DEF Prefixes, n
<1> HIDE DEF P
<1>6. P[0] = 0 /\ \A i \in 1..n : P[i] = 10 * P[i - 1] + digits[i]
  BY <1>1, <1>5
<1>7. \A i \in 0..n : P[i] \in Nat
  <2> DEFINE typed == {i \in 0..n : P[i] \in Nat}
  <2>1. 0 \in typed
    BY <1>1, <1>6
  <2>2. ASSUME NEW i \in 1..n, i - 1 \in typed PROVE i \in typed
    <3>1. P[i - 1] \in Nat /\ digits[i] \in Nat /\ i \in 0..n
      BY <1>1, <2>2
    <3> QED
      BY <1>6, <3>1
  <2> HIDE DEF typed
  <2>3. 0..n \subseteq typed
    BY <1>1, <2>1, <2>2, InductionOnInterval
  <2> QED
    BY <2>3 DEF typed
<1>8. P \in [0..n -> Nat]
  BY <1>5, <1>7
<1> QED
  BY <1>6, <1>8 DEF P, n

(* ... which only depend on those digits, ... *)
LEMMA PrefixesAgree ==
  ASSUME NEW s \in Seq(Nat), NEW t \in Seq(Nat),
         NEW k \in Nat, k <= Len(s), k <= Len(t),
         \A i \in 1..k : s[i] = t[i]
  PROVE  Prefixes(s)[k] = Prefixes(t)[k]
<1> DEFINE P == Prefixes(s)
           Q == Prefixes(t)
           same == {i \in 0..k : P[i] = Q[i]}
<1>1. Len(s) \in Nat /\ Len(t) \in Nat
  OBVIOUS
<1>2. /\ P[0] = 0 /\ \A i \in 1..Len(s) : P[i] = 10 * P[i - 1] + s[i]
      /\ Q[0] = 0 /\ \A i \in 1..Len(t) : Q[i] = 10 * Q[i - 1] + t[i]
  BY PrefixesDefined
<1> HIDE DEF P, Q
<1>3. 0 \in same
  BY <1>2
<1>4. ASSUME NEW i \in 1..k, i - 1 \in same PROVE i \in same
  <2>1. i \in 1..Len(s) /\ i \in 1..Len(t) /\ i \in 0..k
    BY <1>1
  <2> QED
    BY <1>2, <1>4, <2>1
<1> HIDE DEF same
<1>5. 0..k \subseteq same
  BY <1>3, <1>4, InductionOnInterval
<1> QED
  BY <1>5 DEF same, P, Q

(* Arithmetic: a product with a multiple of ten. *)
LEMMA ProductWithTen ==
  ASSUME NEW a \in Nat, NEW b \in Nat
  PROVE  a * (10 * b) = 10 * (a * b) /\ a * b \in Nat
BY SMT

(* ... and which each further digit multiplies by ten at least, a zero        *)
(* exactly.                                                                 *)
LEMMA PrefixesGrow ==
  ASSUME NEW s \in Seq(Nat), NEW i \in 0..Len(s), NEW k \in Nat,
         i + k <= Len(s)
  PROVE  /\ Prefixes(s)[i] * TenTo[k] <= Prefixes(s)[i + k]
         /\ (\A j \in (i + 1)..(i + k) : s[j] = 0)
              => Prefixes(s)[i] * TenTo[k] = Prefixes(s)[i + k]
<1> DEFINE P == Prefixes(s)
           n == Len(s)
           Grows(m) == /\ P[i] * TenTo[m] <= P[i + m]
                       /\ (\A j \in (i + 1)..(i + m) : s[j] = 0)
                            => P[i] * TenTo[m] = P[i + m]
           grow == {m \in 0..k : Grows(m)}
<1>1. n \in Nat /\ i \in Nat /\ i \in 0..n /\ \A j \in 1..n : s[j] \in Nat
  OBVIOUS
<1>2. P \in [0..n -> Nat] /\ \A j \in 1..n : P[j] = 10 * P[j - 1] + s[j]
  BY PrefixesDefined
<1>3. i + k <= n
  OBVIOUS
<1> HIDE DEF P, n
<1>4. 0 \in grow
  <2>1. P[i] \in Nat /\ TenTo[0] = 1 /\ i + 0 = i
    BY <1>1, <1>2, TenToDefined
  <2>2. P[i] * 1 = P[i]
    BY <2>1
  <2> QED
    BY <2>1, <2>2
<1>5. ASSUME NEW m \in 1..k, m - 1 \in grow PROVE m \in grow
  <2>1. m \in Nat /\ m - 1 \in Nat /\ (m - 1) + 1 = m
    OBVIOUS
  <2>2. i + m \in 1..n /\ i + (m - 1) = (i + m) - 1 /\ (i + m) - 1 \in 0..n /\ i \in 0..n
    BY <1>1, <1>3, <2>1
  <2> DEFINE q == P[i]
             p == P[(i + m) - 1]
             T == TenTo[m - 1]
  <2>3. P[i + m] = 10 * p + s[i + m] /\ p \in Nat /\ P[i] \in Nat /\ s[i + m] \in Nat
    BY <1>1, <1>2, <2>2
  <2>4. TenTo[m] = 10 * T /\ T \in Nat
    BY <2>1, TenToDefined, TenToIsNat
  <2>5. P[i] * T <= p /\ ((\A j \in (i + 1)..(i + (m - 1)) : s[j] = 0) => P[i] * T = p)
    BY <1>5, <2>2
  <2> HIDE DEF q, p, T
  <2> DEFINE x == q * T
  <2>6. q * TenTo[m] = 10 * x /\ x \in Nat
    <3>1. q \in Nat /\ T \in Nat
      BY <2>3, <2>4 DEF q
    <3>2. q * (10 * T) = 10 * (q * T) /\ q * T \in Nat
      BY <3>1, ProductWithTen
    <3> QED
      BY <2>4, <3>2
  <2>7. x <= p /\ ((\A j \in (i + 1)..(i + (m - 1)) : s[j] = 0) => x = p)
    BY <2>5 DEF q
  <2> HIDE DEF x
  <2>8. q * TenTo[m] <= P[i + m]
    BY <2>3, <2>6, <2>7
  <2>9. ASSUME \A j \in (i + 1)..(i + m) : s[j] = 0
        PROVE  q * TenTo[m] = P[i + m]
    <3>1. \A j \in (i + 1)..(i + (m - 1)) : s[j] = 0
      BY <1>1, <2>1, <2>9
    <3>2. s[i + m] = 0
      BY <1>1, <2>1, <2>9
    <3> QED
      BY <2>3, <2>6, <2>7, <3>1, <3>2
  <2> QED
    BY <2>1, <2>8, <2>9 DEF q
<1> HIDE DEF grow
<1>6. 0..k \subseteq grow
  BY <1>4, <1>5, InductionOnInterval
<1>7. k \in grow
  BY <1>6
<1> QED
  BY <1>7 DEF grow, P

(* A digit is at most nine, so that what follows the first i digits never     *)
(* makes up for one more in their last place.                               *)
LEMMA PrefixesBounded ==
  ASSUME NEW s \in Seq(Nat), NEW i \in 0..Len(s), NEW k \in Nat,
         i + k <= Len(s),
         \A j \in (i + 1)..(i + k) : s[j] <= 9
  PROVE  Prefixes(s)[i + k] < (Prefixes(s)[i] + 1) * TenTo[k]
<1> DEFINE P == Prefixes(s)
           n == Len(s)
           q == P[i] + 1
           below == {m \in 0..k : P[i + m] < q * TenTo[m]}
<1>1. n \in Nat /\ i \in 0..n /\ \A j \in 1..n : s[j] \in Nat
  OBVIOUS
<1>2. P \in [0..n -> Nat] /\ \A j \in 1..n : P[j] = 10 * P[j - 1] + s[j]
  BY PrefixesDefined
<1>3. i + k <= n
  OBVIOUS
<1> HIDE DEF P, n
<1>4. q \in Nat
  BY <1>1, <1>2
<1>5. 0 \in below
  <2>1. TenTo[0] = 1 /\ i + 0 = i /\ P[i] \in Nat
    BY <1>1, <1>2, TenToDefined
  <2>2. P[i] < q
    BY <2>1
  <2> HIDE DEF q
  <2>3. q * 1 = q
    BY <1>4
  <2> QED
    BY <2>1, <2>2, <2>3
<1>6. ASSUME NEW m \in 1..k, m - 1 \in below PROVE m \in below
  <2>1. m \in Nat /\ m - 1 \in Nat /\ (m - 1) + 1 = m /\ m \in 0..k
    OBVIOUS
  <2>2. i + m \in 1..n /\ i + (m - 1) = (i + m) - 1 /\ (i + m) - 1 \in 0..n
        /\ i + m \in (i + 1)..(i + k)
    BY <1>1, <1>3, <2>1
  <2> DEFINE p == P[(i + m) - 1]
             T == TenTo[m - 1]
             x == q * T
  <2>3. P[i + m] = 10 * p + s[i + m] /\ p \in Nat /\ s[i + m] \in Nat
        /\ s[i + m] <= 9
    BY <1>1, <1>2, <2>2
  <2>4. TenTo[m] = 10 * T /\ T \in Nat
    BY <2>1, TenToDefined, TenToIsNat
  <2>5. p < x
    BY <1>6, <2>2
  <2> HIDE DEF q, p, T
  <2>6. q * TenTo[m] = 10 * x /\ x \in Nat
    BY <1>4, <2>4, ProductWithTen
  <2> HIDE DEF x
  <2>7. P[i + m] < q * TenTo[m]
    BY <2>3, <2>5, <2>6
  <2> QED
    BY <2>1, <2>7
<1> HIDE DEF below, q
<1>7. 0..k \subseteq below
  BY <1>5, <1>6, InductionOnInterval
<1>8. k \in below
  BY <1>7
<1> QED
  BY <1>8 DEF below, q, P

(* Digits spell a natural number. *)
LEMMA NumberIsNat ==
  ASSUME NEW digits \in Seq(Nat)
  PROVE  Number(digits) \in Nat
<1>1. Len(digits) \in 0..Len(digits)
  OBVIOUS
<1> QED
  BY <1>1, PrefixesDefined DEF Number
=============================================================================
