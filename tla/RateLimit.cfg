SPECIFICATION Spec
CONSTANTS
  w1 = w1
  w2 = w2
  Processes = {w1, w2}
  Path <- StkPath
  RouteLimits <- SmallRouteLimits
  DefaultLimit <- SmallDefault
  Cost = 3
  Margin = 1
  MaxTime = 5
SYMMETRY Symmetry
INVARIANTS
  TypeOK
  RateBound
PROPERTIES
  DeniedOnlyWhenExhausted
