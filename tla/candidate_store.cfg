SPECIFICATION Spec
CONSTANTS
  Candidate = {c1}
  Process = {p1, p2}
  NoProcess = NoProcess
  LeaseDuration = 2
  MaxTime = 4
  MaxGeneration = 3
  MaxEvents = 5
SYMMETRY Symmetry
INVARIANTS StoreInv
PROPERTIES TakeoverAfterExpiry LogImplementsLifecycle OnlyHolderWrites
