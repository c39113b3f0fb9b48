\* Liveness under faults; the second goroutine has no key.
CONSTANTS
  Callers = {c1, c2}
  Keyless = {c2}
  Orders = {o1}
  Tokens = {t1, t2}
  NoToken = NoToken
  NoOrder = NoOrder
  Faults <- FaultKinds
SPECIFICATION FairSpec
PROPERTY CallsReturn
