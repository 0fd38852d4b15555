SPECIFICATION FairSpec
CONSTANTS
  p1 = p1
  p2 = p2
  p3 = p3
  a = a
  w = w
  Posts = {p1, p2, p3}
  Processes = {a, w}
  ProcessOf <- TwoAndOne
  Workers = {w}
  Faults = {"redis", "tokenTTL", "oauth", "server", "unauthorized", "refused", "unreadable", "crash"}
  MaxPolls = 2
  Attempts = 2
  Threshold = 3
INVARIANTS
  TypeOK
  OnlyTransientFailuresCount
  OneHolder
PROPERTIES
  PostsEnd
  ImplementsPush
CHECK_DEADLOCK FALSE
