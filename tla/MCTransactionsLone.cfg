\* One goroutine at a time, without a deadline.
CONSTANTS
  Callers = {c1}
  Deadlines = {}
  Calls = {k1}
  Prices = {1, 2}
  MaxNonce = 2
  NoTx = NoTx
  Faults <- NodeKeepsAll
SPECIFICATION FairTxSpec
PROPERTY SendTxReturns
CHECK_DEADLOCK FALSE
