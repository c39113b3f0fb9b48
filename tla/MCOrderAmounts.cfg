\* Books of up to three levels, sorted or not.
CONSTANTS
  Unit = 1000
  MinQuantity = 10
  MinValue = 1000
  Bps = 100
  PriceDigits = 2
  QuantityDigits = 2
  Requests <- AllRequests
  Books <- AnyBooks
SPECIFICATION Spec
INVARIANTS
  TypeOK
  Fillable
  WalkTakesTheBook
  MinOutWithinValue
  LimitNeverMore
  LimitWithinRounding
CHECK_DEADLOCK FALSE
