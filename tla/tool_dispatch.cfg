SPECIFICATION FairSpec
CONSTANTS
  r1 = r1
  r2 = r2
  Request = {r1, r2}
  Consequential = {r1}
  Bound = {r1}
  MaxRetries = 1
  MaxReplay = 2
  MaxActive = 1
  Faults = TRUE
  Ends <- MCEnds
  None = None
CHECK_DEADLOCK FALSE
INVARIANTS DispatchInv SupportedIsCommitted EffectOnce
PROPERTIES NotRunAgain EveryCallIsAnswered
