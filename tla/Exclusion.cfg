SPECIFICATION Spec
CONSTANTS
  Null = Null
  r1 = r1
  r2 = r2
  r3 = r3
  k1 = k1
  k2 = k2
  Requests = {r1, r2}
  Keys = {k1}
  KeyOf <- OneKey
  Checkouts = {c1, c2}
  Deliveries = {d1, d2}
  Durable = {d2}
  CallbackRetries = 1
  Jobs = {}
  BatchLimit = 1
  Attempts = 2
  Faults = {"db", "crash", "timeout", "reject", "token"}
SYMMETRY OneKeySymmetry
INVARIANTS
  MutualExclusion
  AppliedAtMostOnce
  DuplicateHasOriginal
  FailedBeforeInitiation
CHECK_DEADLOCK FALSE
