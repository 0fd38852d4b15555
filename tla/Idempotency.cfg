SPECIFICATION Spec
CONSTANTS
  Null = Null
  r1 = r1
  r2 = r2
  r3 = r3
  k1 = k1
  k2 = k2
  Requests = {r1, r2}
  Keys = {k1}
  KeyOf <- OneKey
  Checkouts = {c1, c2, c3}
  Deliveries = {d1}
  Durable = {d1}
  CallbackRetries = 1
  Jobs = {j1}
  BatchLimit = 1
  Attempts = 2
  Faults = {"redis", "lockTTL", "cacheTTL", "db", "crash", "timeout", "reject", "token", "badreply"}
SYMMETRY OneKeySymmetry
INVARIANTS
  TypeOK
  InitiateOnce
  AnchorBeforePush
  PushersHaveRows
  EachPromptAnAttempt
  ReplayConsistent
  HandedOutIsFound
  IInv
PROPERTIES
  ImplementsLedger
