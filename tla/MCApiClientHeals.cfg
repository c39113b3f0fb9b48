\* One goroutine, a served client, a bearer that may be stale at the start.
CONSTANTS
  Callers = {c1}
  Keyless = {}
  Orders = {o1, o2, o3}
  Tokens = {t1, t2, t3}
  NoToken = NoToken
  NoOrder = NoOrder
  Faults <- NoFaults
SPECIFICATION ServedSpec
PROPERTY HealsItself
