--------------------------- MODULE MCOrderSigning ---------------------------
(***************************************************************************)
(* Instances of OrderSigning for model checking: a wallet, one more, and a  *)
(* Predict account; a collateral of two decimals, of which a price keeps    *)
(* one digit and a quantity two; two ticks to a second.                     *)
(***************************************************************************)
EXTENDS OrderSigning, TLC

CONSTANTS w1, w2, p1

Named(form, n) == [form |-> form, value |-> n]

(* One builder writes its salts in hexadecimal. *)
Maker(key, account, chain, form) ==
  [key |-> key, account |-> account, chain |-> chain,
   generateSalt |-> Named(form, 4)]

SomeBuilders ==
  {Maker(w1, Nobody, 56, "decimal"), Maker(Nobody, p1, 56, "hex"),
   Maker(w1, p1, 56, "decimal"), Maker(w2, p1, 56, "decimal"),
   Maker(w1, p1, 97, "decimal")}

LowerCase(a) == [of |-> a, checksummed |-> FALSE]

PlainInput ==
  [strategy |-> "LIMIT", side |-> 1, tokenId |-> Decimal(7), makerAmount |-> 5,
   takerAmount |-> 3, signer |-> Empty, maker |-> Empty, salt |-> NoSalt,
   expiresAt |-> 2]

(* Who signs, in any way of writing; when it expires; odd values.           *)
SomeInputs ==
  {[PlainInput EXCEPT !.signer = s, !.maker = m] :
     s \in {Empty, Hex(w1), LowerCase(w1)}, m \in {Empty, Hex(w1), Hex(p1)}}
  \cup {[PlainInput EXCEPT !.strategy = s, !.expiresAt = e] :
          s \in {"LIMIT", "MARKET"}, e \in {0, 1}}
  \cup {[PlainInput EXCEPT !.tokenId = Named("hex", 7)],
        [PlainInput EXCEPT !.makerAmount = 0 - 1],
        [PlainInput EXCEPT !.salt = 9]}

Digits(signs, whole, frac, exponent) ==
  [signs |-> signs, whole |-> whole, frac |-> frac, exponent |-> exponent]

(* 0.5, 0.595, .7x, 0.12x, -0.5, --5, +0.5, ---1, 3e-1, 5e-1, 2e1, +4.3e0.  *)
(* A float of 14 bits makes 0.29 of 3e-1 and 4.29 of 4.3e0.                  *)
Texts ==
  {Digits(<< >>, <<0>>, <<5>>, NoExponent),
   Digits(<< >>, <<0>>, <<5, 9, 5>>, NoExponent),
   Digits(<< >>, << >>, <<7, Other>>, NoExponent),
   Digits(<< >>, <<0>>, <<1, 2, Other>>, NoExponent),
   Digits(<<-1>>, <<0>>, <<5>>, NoExponent),
   Digits(<<-1, -1>>, <<5>>, << >>, NoExponent),
   Digits(<<1>>, <<0>>, <<5>>, NoExponent),
   Digits(<<-1, -1, -1>>, <<1>>, << >>, NoExponent),
   Digits(<< >>, <<3>>, << >>, 0 - 1),
   Digits(<< >>, <<5>>, << >>, 0 - 1),
   Digits(<< >>, <<2>>, << >>, 1),
   Digits(<<1>>, <<4>>, <<3>>, 0)}

Half == Digits(<< >>, <<0>>, <<5>>, NoExponent)
Ten == Digits(<< >>, <<1, 0>>, << >>, NoExponent)

(* Each of them for a price, and for a quantity the long ones and the        *)
(* negative ones.                                                           *)
SomeParams ==
  [tokenId : {Decimal(7)}, price : Texts, quantity : {Ten}, market : {"ctf"}]
  \cup
  [tokenId : {Decimal(7)}, price : {Half}, market : {"ctf"},
   quantity : {t \in Texts : Len(t.frac) > 1 \/ t.signs = <<-1>>}]
=============================================================================
