----------------------------- MODULE MCCandidateStore -----------------------------
EXTENDS CandidateStore, TLC

\* Processes are interchangeable.
Symmetry == Permutations(Process)
=============================================================================
