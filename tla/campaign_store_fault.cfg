SPECIFICATION Spec
CONSTANTS
  Candidate = {c1, c2}
  Runner = {r1}
  NoRunner = NoRunner
  Checkpoint = {k1}
  NoCheckpoint = NoCheckpoint
  Report = {good, bad}
  Accepted = {good}
  NoCandidate = NoCandidate
  RetryBudget = 1
  StoreFaults = TRUE
INVARIANTS StateMatchesOutcome
