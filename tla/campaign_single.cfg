SPECIFICATION FairSpec
CONSTANTS
  Candidate = {c1, c2}
  Runner = {r1}
  NoRunner = NoRunner
  Checkpoint = {k1}
  NoCheckpoint = NoCheckpoint
  Report = {good, bad}
  Accepted = {good}
  NoCandidate = NoCandidate
  RetryBudget = 1
  StoreFaults = FALSE
INVARIANTS StateMatchesOutcome NoRemutation NoAbort
PROPERTIES EveryCandidateEnds
