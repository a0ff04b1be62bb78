SPECIFICATION Spec
CONSTANTS
  r1 = r1
  r2 = r2
  Request = {r1, r2}
  Consequential = {r1}
  Bound = {r1}
  MaxRetries = 0
  MaxReplay = 1
  MaxActive = 2
  Faults = FALSE
  Ends <- MCEnds
  None = None
CHECK_DEADLOCK FALSE
INVARIANTS LedgerBounded
