---------------------------- MODULE MCCampaignRunner ----------------------------
EXTENDS CampaignInvariant, TLC

\* Runners and candidates are interchangeable.
Symmetry == Permutations(Runner) \cup Permutations(Candidate)
=============================================================================
