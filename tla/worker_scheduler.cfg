SPECIFICATION FairSpec
CONSTANTS
  t1 = t1
  t2 = t2
  t3 = t3
  w1 = w1
  w2 = w2
  a = a
  b = b
  mem = mem
  Task = {t1, t2, t3}
  Worker = {w1, w2}
  Campaign = {a, b}
  Resource = {mem}
  Profile <- MCProfile
  Budget <- MCBudget
  Outcome = {x}
  NoWorker = NoWorker
  NoProfile = NoProfile
  NoBudget = NoBudget
  NoResult = NoResult
  CampaignOf <- MCCampaignOf
  Demand <- MCDemand
  MaxAttempts <- MCMaxAttempts
  Rank <- MCRank
  WorkerRank <- MCWorkerRank
  LeaseDuration = 2
INVARIANTS SchedulerInv BudgetsHold ResultOfLastLease
PROPERTIES NeverOvercommits WorkConserving EveryTaskEnds
