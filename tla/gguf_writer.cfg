SPECIFICATION FairSpec
CONSTANTS
  p1 = p1
  p2 = p2
  Plan = {p1, p2}
  Identity <- MCDistinct
  Tensors = 3
  Damaged = Damaged
  None = None
  MaxFaults = 4
CHECK_DEADLOCK FALSE
INVARIANTS WriterInv
PROPERTIES PublishesWhole CommittedStays ExportEnds
