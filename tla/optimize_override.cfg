SPECIFICATION Spec
CONSTANTS
  StageCount = 3
  Pareto = 2
  Required = {plan_review}
  Override = {device}
  Value = {v1, v2}
  Returned <- ReturnedMC
  Hour = 1
  MaxTime = 2
  MaxFailures = 1
CHECK_DEADLOCK FALSE
PROPERTIES OverrideNeedsLiveApproval
