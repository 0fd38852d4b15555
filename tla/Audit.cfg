SPECIFICATION Spec
CONSTANTS
  Transactions = {t1, t2, t3}
  Events = {"INITIATED", "COMPLETED"}
  MaxRows = 3
SYMMETRY Symmetry
INVARIANTS
  TypeOK
  IntactVerifies
  TamperingShows
CHECK_DEADLOCK FALSE
