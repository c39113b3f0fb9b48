\* One goroutine is refused with a stale bearer while another authenticates.
CONSTANTS
  Callers = {c1, c2}
  Keyless = {}
  Orders = {o1, o2}
  Tokens = {t1, t2}
  NoToken = NoToken
  NoOrder = NoOrder
  Faults <- FaultKinds
SPECIFICATION FairSpec
PROPERTY ClearsOnlyDirtyBearer
