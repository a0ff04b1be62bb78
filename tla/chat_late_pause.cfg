SPECIFICATION Spec
CONSTANTS
  root = root
  child = child
  h1 = h1
  h2 = h2
  Root = root
  Child = child
  Handler <- MCHandler
  Reuse <- MCReuse
  Stages = 2
  Result <- MCResult
  MaxCalls = 2
  MaxEvents = 0
SYMMETRY MCSymmetry
INVARIANT ResumedRunIsRetained
CHECK_DEADLOCK FALSE
