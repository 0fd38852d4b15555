SPECIFICATION Spec
CONSTANTS
  p1 = p1
  p2 = p2
  p3 = p3
  a = a
  w = w
  Posts = {p1, p2}
  Processes = {a}
  ProcessOf <- TwoAndOne
  Workers = {}
  Faults = {"network"}
  MaxPolls = 2
  Attempts = 2
  Threshold = 3
INVARIANTS
  OpensAtThreshold
CHECK_DEADLOCK FALSE
