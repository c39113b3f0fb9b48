--------------------------- MODULE DecimalNumbers ---------------------------
(***************************************************************************)
(* Powers and logarithms of ten and of two, and the number that a sequence  *)
(* of digits spells.                                                        *)
(***************************************************************************)
EXTENDS Integers, Sequences

TenTo[k \in Nat] == IF k = 0 THEN 1 ELSE 10 * TenTo[k - 1]

TwoTo[k \in Nat] == IF k = 0 THEN 1 ELSE 2 * TwoTo[k - 1]

(* The length of a natural number in decimal. *)
DecimalLength[n \in Nat] ==
  IF n < 10 THEN 1 ELSE 1 + DecimalLength[n \div 10]

(* The least k such that 2^k is at least n. *)
BinaryLog[n \in Nat] ==
  IF n <= 1 THEN 0 ELSE 1 + BinaryLog[(n + 1) \div 2]

(* What the first i digits spell, most significant first, for every i.      *)
Prefixes(digits) ==
  LET upTo[i \in 0..Len(digits)] ==
        IF i = 0 THEN 0 ELSE 10 * upTo[i - 1] + digits[i]
  IN  upTo

Number(digits) == Prefixes(digits)[Len(digits)]
=============================================================================
