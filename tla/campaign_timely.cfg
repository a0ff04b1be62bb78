SPECIFICATION TimelySpec
CONSTANTS
  Candidate = {c1}
  Runner = {r1, r2}
  NoRunner = NoRunner
  Checkpoint = {k1, k2}
  NoCheckpoint = NoCheckpoint
  Report = {good, bad}
  Accepted = {good}
  NoCandidate = NoCandidate
  RetryBudget = 1
  StoreFaults = FALSE
SYMMETRY Symmetry
INVARIANTS HeldInv Exclusive MutationInv NoRemutation SharedInv StateMatchesOutcome
