SPECIFICATION FairSpec
CONSTANTS
  Null = Null
  r1 = r1
  r2 = r2
  r3 = r3
  k1 = k1
  k2 = k2
  Requests = {r1, r2}
  Keys = {k1}
  KeyOf <- OneKey
  Checkouts = {c1}
  Deliveries = {d1}
  Durable = {d1}
  CallbackRetries = 1
  Jobs = {j1}
  BatchLimit = 1
  Attempts = 1
  Faults = {"redis", "crash", "timeout"}
PROPERTIES
  CallsEnd
  LocksEnd
  PendingEnds
  DeliveriesEnd
