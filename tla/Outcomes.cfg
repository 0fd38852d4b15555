SPECIFICATION Spec
CONSTANTS
  Null = Null
  r1 = r1
  r2 = r2
  r3 = r3
  k1 = k1
  k2 = k2
  Requests = {r1, r2}
  Keys = {k1, k2}
  KeyOf <- OwnKey
  Checkouts = {c1, c2}
  Deliveries = {d1, d2}
  Durable = {}
  CallbackRetries = 0
  Jobs = {j1}
  BatchLimit = 2
  Attempts = 1
  Faults = {"cacheTTL", "db"}
SYMMETRY TwoCallSymmetry
INVARIANTS
  CheckoutMatchesOwner
  CompletedIsPaid
  ReceiptIsOwn
PROPERTIES
  RowsOnlyAdvance
  CompletedLeavesOnlyByExpiry
