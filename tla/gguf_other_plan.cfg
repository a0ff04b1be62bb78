SPECIFICATION Spec
CONSTANTS
  p1 = p1
  p2 = p2
  Plan = {p1, p2}
  Identity <- MCSame
  Tensors = 2
  Damaged = Damaged
  None = None
  MaxFaults = 1
CHECK_DEADLOCK FALSE
INVARIANTS PublishedIsOfOnePlan
