---------------------------- MODULE ReservationLedger ----------------------------
(***************************************************************************)
(* What docs/design/search-cli.md and docs/design/search-resume.md promise *)
(* of a search, however many commands work on it: candidates are reserved  *)
(* a batch at a time, none is reserved twice or given up, and the policy's *)
(* evaluation budget is kept.                                              *)
(***************************************************************************)
EXTENDS Naturals, FiniteSets

CONSTANTS Candidate, Budget, Width

VARIABLE reserved

Init == reserved = {}

Reserve ==
  \E batch \in SUBSET (Candidate \ reserved) :
    /\ batch # {} /\ Cardinality(batch) <= Width
    /\ Cardinality(reserved) + Cardinality(batch) <= Budget
    /\ reserved' = reserved \cup batch

Spec == Init /\ [][Reserve]_reserved
==================================================================================
