SPECIFICATION FairSpec
CONSTANTS
  StageCount = 3
  Pareto = 2
  Required = {plan_review}
  Override = {device}
  Value = {v1}
  Returned <- ReturnedMC
  Hour = 1
  MaxTime = 1
  MaxFailures = 1
CHECK_DEADLOCK FALSE
INVARIANTS RunInv AcceptedIsMeasured OneTimeStartsOnce
PROPERTIES CompletedIsKept StartIsApproved EndsUnlessLapsed
