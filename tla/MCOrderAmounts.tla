--------------------------- MODULE MCOrderAmounts ---------------------------
(***************************************************************************)
(* Instances of OrderAmounts for model checking, scaled down: but for the   *)
(* last one, a share is 1000 units, two digits of a price and of a quantity *)
(* are kept, and slippage is in per cent.                                   *)
(***************************************************************************)
EXTENDS OrderAmounts, TLC

Levels == [price : {0, 405, 551, 900}, quantity : {0, 70, 1300, 3457}]

(* Up to three levels, in any order. *)
AnyBooks ==
  UNION {[1..n -> Levels] : n \in 0..2}
    \cup {<<a, [price |-> 551, quantity |-> 1300], c>> : a, c \in Levels}

MarketRequests ==
  [kind : {"quantity", "value"}, side : {"BUY", "SELL"},
   amount : {0, 8, 99, 1000, 1370, 2508, 9999}, price : {0},
   slippage : {0, 3, 150}, isMinAmountOut : BOOLEAN]

LimitRequests ==
  [kind : {"limit"}, side : {"BUY", "SELL"},
   amount : {0, 9, 98, 1370, 9999, 10050},
   price : {0, 1, 9, 585, 999, 1000}, slippage : {0}, isMinAmountOut : {FALSE}]

AllRequests == MarketRequests \cup LimitRequests

(* With a share of 10000 units and as many digits as the code keeps: a BUY    *)
(* for 1 or 5 USDT, over 10 shares at 0.40 and more at 0.40 or 0.60.         *)
BudgetRequests ==
  [kind : {"value"}, side : {"BUY"}, amount : {10000, 50000}, price : {0},
   slippage : {0}, isMinAmountOut : {FALSE}]

BudgetBooks ==
  {<<[price |-> 4000, quantity |-> 100000], [price |-> p, quantity |-> q]>> :
     p \in {4000, 6000}, q \in {10000, 100000}}
=============================================================================
