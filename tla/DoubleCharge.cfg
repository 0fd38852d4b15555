SPECIFICATION Spec
CONSTANTS
  Null = Null
  r1 = r1
  r2 = r2
  r3 = r3
  k1 = k1
  k2 = k2
  Requests = {r1}
  Keys = {k1}
  KeyOf <- OneKey
  Checkouts = {c1, c2}
  Deliveries = {}
  Durable = {}
  CallbackRetries = 1
  Jobs = {}
  BatchLimit = 1
  Attempts = 2
  Faults = {"timeout"}
INVARIANTS
  NoDoubleCharge
CHECK_DEADLOCK FALSE
