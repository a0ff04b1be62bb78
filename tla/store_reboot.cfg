SPECIFICATION Spec
CONSTANTS
  Candidate = {c1}
  Process = {p1, p2}
  NoProcess = NoProcess
  LeaseDuration = 1
  MaxTime = 3
  MaxGeneration = 2
  MaxEvents = 4
SYMMETRY Symmetry
 
PROPERTIES ExpiredStaysExpired
