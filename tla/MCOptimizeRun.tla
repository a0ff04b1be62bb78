------------------------------- MODULE MCOptimizeRun -------------------------------
EXTENDS OptimizeRun

Good == [outcome |-> "supported", passes |-> Check]

\* The runtime supports a stage or not; the result of the Pareto stage may miss one
\* check of the gate.
ReturnedMC ==
  [i \in Stage |->
     {[outcome |-> "unknown", passes |-> {}]} \cup
     IF i = Pareto
     THEN {Good} \cup {[Good EXCEPT !.passes = @ \ {c}] : c \in {"constraints", "committed"}}
     ELSE {[outcome |-> "supported", passes |-> {"complete"}]}]
=============================================================================
