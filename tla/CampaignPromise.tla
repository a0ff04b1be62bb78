------------------------------ MODULE CampaignPromise ------------------------------
(***************************************************************************)
(* What docs/design/conversational-campaign-state.md promises of           *)
(* conversational campaigns, whoever runs, commands and replans them: a    *)
(* lifecycle with final ends, work under an approval that only expires,    *)
(* evidence that is only added to, and no end of an execution that the     *)
(* evidence does not back.                                                 *)
(***************************************************************************)
CONSTANT Campaign

VARIABLES lifecycle, outcome, approval,
          evidence   \* [Campaign -> the records retained, each under an ID]

promised == <<lifecycle, outcome, approval, evidence>>

Init ==
  /\ lifecycle = [c \in Campaign |-> "none"]
  /\ outcome = [c \in Campaign |-> "unknown"]
  /\ approval = [c \in Campaign |-> "none"]
  /\ evidence = [c \in Campaign |-> {}]

Create(c, a) ==
  /\ lifecycle[c] = "none"
  /\ a \in {"approved", "pending"}
  /\ lifecycle' = [lifecycle EXCEPT ![c] = "created"]
  /\ approval' = [approval EXCEPT ![c] = a]
  /\ UNCHANGED <<outcome, evidence>>

\* Work begins, or goes on, only under an approval.
Run(c) ==
  /\ lifecycle[c] \in {"created", "paused"}
  /\ approval[c] = "approved"
  /\ lifecycle' = [lifecycle EXCEPT ![c] = "running"]
  /\ outcome' = [outcome EXCEPT ![c] = "unknown"]
  /\ UNCHANGED <<approval, evidence>>

\* A command, an interruption or a cancellation of the work.
Stop(c, l) ==
  /\ l \in {"paused", "cancelled"}
  /\ lifecycle[c] \in {"created", "running", "paused"} \ {l}
  /\ lifecycle' = [lifecycle EXCEPT ![c] = l]
  /\ outcome' = [outcome EXCEPT ![c] = "unknown"]
  /\ UNCHANGED <<approval, evidence>>

\* An execution ends, and evidence of its outcome has been retained.  A later
\* execution of a completed campaign may end it again.
Finish(c, l, o) ==
  /\ \/ lifecycle[c] = "running" /\ l \in {"completed", "failed"}
     \/ lifecycle[c] = "completed" /\ l = "completed"
  /\ \E e \in evidence[c] : e.outcome = o
  /\ lifecycle' = [lifecycle EXCEPT ![c] = l]
  /\ outcome' = [outcome EXCEPT ![c] = o]
  /\ UNCHANGED <<approval, evidence>>

\* An approval expires for good, and the work stops.
Expire(c) ==
  /\ lifecycle[c] \in {"created", "running", "paused"}
  /\ approval[c] = "approved"
  /\ lifecycle' = [lifecycle EXCEPT ![c] = "paused"]
  /\ approval' = [approval EXCEPT ![c] = "expired"]
  /\ UNCHANGED <<outcome, evidence>>

Retain(c, e) ==
  /\ lifecycle[c] # "none"
  /\ \A old \in evidence[c] : old.id # e.id
  /\ evidence' = [evidence EXCEPT ![c] = @ \cup {e}]
  /\ UNCHANGED <<lifecycle, outcome, approval>>

Next ==
  \E c \in Campaign :
    \/ \E a \in {"approved", "pending"} : Create(c, a)
    \/ Run(c)
    \/ \E l \in {"paused", "cancelled"} : Stop(c, l)
    \/ \E l \in {"completed", "failed"} :
         \E o \in {"supported", "unsupported", "failed", "unknown"} : Finish(c, l, o)
    \/ Expire(c)
    \/ \E e \in evidence'[c] : Retain(c, e)

Spec == Init /\ [][Next]_promised
=====================================================================================
