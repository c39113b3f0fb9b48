\* Two goroutines send with one key; the node loses no pending transaction.
CONSTANTS
  Callers = {c1, c2}
  Deadlines = {c1, c2}
  Calls = {k1, k2}
  Prices = {1, 2}
  MaxNonce = 2
  NoTx = NoTx
  Faults <- NodeKeepsAll
SPECIFICATION TxSpec
SYMMETRY Interchangeable
INVARIANTS
  TxTypeOK
  OneSuccessEach
  WaitsUnlessOutbid
CHECK_DEADLOCK FALSE
