--------------------------- MODULE CandidateLifecycle ---------------------------
(***************************************************************************)
(* What the candidate state machine of experiments/state_machine.py        *)
(* promises about one candidate, whoever drives it: its state moves along  *)
(* the transition table and a terminal state is final.  The event log and  *)
(* the read-then-append protocol that implement it are in                  *)
(* CandidateStore; the campaign runner drives it in                        *)
(* CampaignRunner.                                                         *)
(*                                                                         *)
(* The log of a candidate is abstracted to the two things the code reads   *)
(* from it: the last state and the last active stage before it.            *)
(***************************************************************************)
CONSTANT Candidate   \* the candidates registered in the metadata store

VARIABLES state,     \* [Candidate -> State], the state of the last event
          stage      \* [Candidate -> WorkStage], stage of the last active event

lifecycleVars == <<state, stage>>

-----------------------------------------------------------------------------

Terminal  == {"succeeded", "rejected", "failed"}
Recovery  == {"interrupted", "recoverable-oom"}
Active    == {"running", "evaluating"}

\* "none" is a candidate whose log is still empty.
State     == {"none", "planned"} \cup Active \cup Recovery \cup Terminal
WorkStage == {"mutation", "evaluation"}

\* Mistake: a running candidate cannot fail.
Direct_RunningCannotFail ==
  [s \in State |->
     CASE s = "none"       -> {"planned"}
       [] s = "planned"    -> {"running", "rejected", "failed"}
       [] s = "running"    -> {"evaluating", "rejected"} \cup Recovery
       [] s = "evaluating" -> Terminal \cup Recovery
       [] s \in Recovery   -> Active \cup {"failed"}
       [] s \in Terminal   -> {}]

\* The transition table; initialize is the one way out of an empty log.
Direct ==
  [s \in State |->
     CASE s = "none"       -> {"planned"}
       [] s = "planned"    -> {"running", "rejected", "failed"}
       [] s = "running"    -> {"evaluating", "rejected", "failed"} \cup Recovery
       [] s = "evaluating" -> Terminal \cup Recovery
       [] s \in Recovery   -> Active \cup {"failed"}
       [] s \in Terminal   -> {}]

ActiveState(w) == IF w = "mutation" THEN "running" ELSE "evaluating"

\* The stage a candidate is in once an event with state s is appended:
\* _active_stage_before_recovery skips the events that are not active.
StageAfter(s, w) ==
  CASE s \in {"planned", "running"} -> "mutation"
    [] s = "evaluating"             -> "evaluation"
    [] OTHER                        -> w

-----------------------------------------------------------------------------

LifecycleTypeOK ==
  /\ state \in [Candidate -> State]
  /\ stage \in [Candidate -> WorkStage]

LifecycleInit ==
  /\ state = [c \in Candidate |-> "none"]
  /\ stage = [c \in Candidate |-> "mutation"]

\* One event with state s is appended to the log of c.
Advance(c, s) ==
  /\ s \in Direct[state[c]]
  /\ state' = [state EXCEPT ![c] = s]
  /\ stage' = [stage EXCEPT ![c] = StageAfter(s, @)]

LifecycleNext == \E c \in Candidate, s \in State : Advance(c, s)

LifecycleSpec == LifecycleInit /\ [][LifecycleNext]_lifecycleVars

=============================================================================
