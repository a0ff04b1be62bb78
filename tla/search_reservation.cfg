SPECIFICATION FairSpec
CONSTANTS
  Process = {p1, p2}
  Candidate = {c1, c2, c3}
  Budget = 2
  Width = 2
  MaxGenerations = 3
  MaxFaults = 1
CHECK_DEADLOCK FALSE
INVARIANTS SearchInv
PROPERTIES LedgerIsKept EveryReservationIsReported
