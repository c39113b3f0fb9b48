\* Two goroutines share a client; everything outside it may go wrong.
CONSTANTS
  Callers = {c1, c2}
  Keyless = {}
  Orders = {o1, o2}
  Tokens = {t1, t2}
  NoToken = NoToken
  NoOrder = NoOrder
  Faults <- FaultKinds
SPECIFICATION Spec
SYMMETRY Interchangeable
INVARIANTS
  TypeOK
  AtMostOnce
  HonestOutcome
PROPERTY ImplementsPlacement
