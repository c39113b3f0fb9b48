\* Two goroutines; one approval is missing.
CONSTANTS
  Callers = {c1, c2}
  Deadlines = {c1, c2}
  Calls <- BuilderCalls
  Prices = {1}
  MaxNonce = 1
  NoTx = NoTx
  Faults <- FaultKinds
  Presets <- OneMissing
  Changes <- Changing
  Cancellations <- SomeCancellations
  Markets <- OneKind
  Positions = {"splitPosition"}
SPECIFICATION Spec
SYMMETRY Interchangeable
INVARIANTS
  TypeOK
  ApprovedIsTradeable
  CancelsWhereSigned
CHECK_DEADLOCK FALSE
