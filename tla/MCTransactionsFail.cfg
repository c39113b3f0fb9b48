\* One goroutine: a failure is reported for a transaction that succeeds.
CONSTANTS
  Callers = {c1}
  Deadlines = {c1}
  Calls = {k1}
  Prices = {1, 2}
  MaxNonce = 2
  NoTx = NoTx
  Faults <- NodeKeepsAll
SPECIFICATION TxSpec
INVARIANT FailMeansFailed
CHECK_DEADLOCK FALSE
