\* A share is 10000 units, and digits are kept as in the code: three of a price,
\* five of a quantity.  Two sorted levels; the second may be dearer.
CONSTANTS
  Unit = 10000
  MinQuantity = 100
  MinValue = 10000
  Bps = 10000
  PriceDigits = 3
  QuantityDigits = 5
  Requests <- BudgetRequests
  Books <- BudgetBooks
SPECIFICATION Spec
INVARIANT BudgetRespected
CHECK_DEADLOCK FALSE
