\* One goroutine cancels orders while RPC calls may fail.
CONSTANTS
  Callers = {c1}
  Deadlines = {c1}
  Calls <- BuilderCalls
  Prices = {1}
  MaxNonce = 1
  NoTx = NoTx
  Faults <- FaultKinds
  Presets <- OneMissing
  Changes <- Changing
  Cancellations <- AllCancellations
  Markets <- OneKind
  Positions = {"splitPosition"}
SPECIFICATION Spec
INVARIANT NegRiskErrorMeansMismatch
CHECK_DEADLOCK FALSE
