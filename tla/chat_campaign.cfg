SPECIFICATION Spec
CONSTANTS
  root = root
  child = child
  h1 = h1
  h2 = h2
  Root = root
  Child = child
  Handler <- MCHandler
  Reuse <- MCReuse
  Stages = 2
  Result <- MCSupported
  MaxCalls = 2
  MaxEvents = 2
SYMMETRY MCSymmetry
INVARIANTS ChatInv AcceptedIsBacked
PROPERTIES CampaignKeepsItsPromise
CHECK_DEADLOCK FALSE
