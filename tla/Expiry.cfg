SPECIFICATION Spec
CONSTANTS
  Null = Null
  r1 = r1
  r2 = r2
  r3 = r3
  k1 = k1
  k2 = k2
  Requests = {r1}
  Keys = {k1}
  KeyOf <- OneKey
  Checkouts = {c1}
  Deliveries = {d1}
  Durable = {}
  CallbackRetries = 1
  Jobs = {j1}
  BatchLimit = 1
  Attempts = 1
  Faults = {}
PROPERTIES
  CompletedIsFinal
