---------------------------- MODULE CampaignInvariant ----------------------------
(***************************************************************************)
(* The inductive invariant behind the safety theorems of CampaignRunner:   *)
(* what a process may rely on about the store, from what it read or wrote  *)
(* earlier, while other processes go on changing it.  Everything it relies *)
(* on is something Grows keeps, so no lease is needed for it.  What needs  *)
(* a lease, or a single process, comes after it.                           *)
(***************************************************************************)
EXTENDS CampaignRunner

Verdicts == {"succeeded", "rejected"}

\* The only changes of the store another process can see: checkpoints and
\* outcomes are written once, and terminal states are final.
Grows ==
  \A c \in Candidate :
    /\ checkpoint[c] # NoCheckpoint => checkpoint'[c] = checkpoint[c]
    /\ outcome[c] # Pending => outcome'[c] = outcome[c]
    /\ state[c] \in Terminal => state'[c] = state[c]

\* An outcome with a verdict was measured on a persisted checkpoint.
OutcomeHasCheckpoint ==
  \A c \in Candidate : Kind(outcome[c]) \in Verdicts => checkpoint[c] # NoCheckpoint

StoreInv ==
  /\ StageHasCheckpoint
  /\ OutcomeHasCheckpoint
  /\ VerdictHasOutcome
  /\ CompletedIsTerminal

-----------------------------------------------------------------------------
\* The control of process r: where it is, or returns to after a transition.

Between(r)   == run[r].pc \in Stopped \cup {"scan", "claim"}
InCall(r)    == run[r].pc \in {"plan", "validate", "append"}
Apart        == Stopped \cup {"scan", "scan_state", "claim"}
AtOrTo(r, L) == run[r].pc \in L \/ (InCall(r) /\ run[r].back \in L)

Reconciles == {"reconcile", "reconcile_read", "reconcile_step"}
Works      == {"status", "resume", "decide", "load", "enter", "attempt", "operate",
               "oom", "exhausted", "save_checkpoint", "save_outcome"}

\* Only between two candidates a process is at none, and a process about to claim
\* has forgotten the previous one.
Located(r) ==
  /\ (Between(r) /\ run[r].mode = "scan") \/ At(r) \in Candidate
  /\ AtOrTo(r, Works) => run[r].mode = "work"
  /\ AtOrTo(r, Apart) => run[r].mode = "scan"
  /\ run[r].pc = "claim" => /\ run[r].mode = "scan" /\ run[r].work = "mutation"
                            /\ run[r].seen = Pending /\ run[r].ckpt = NoCheckpoint
  /\ InCall(r) => run[r].back \notin {"claim", "save_checkpoint", "save_outcome"}

\* A concluded outcome that was read is still the persisted one, and only
\* concluded outcomes are reconciled.
SeenHolds(r) ==
  /\ At(r) \in Candidate /\ Concluded(run[r].seen) => outcome[At(r)] = run[r].seen
  /\ AtOrTo(r, Reconciles) => Concluded(run[r].seen)

\* A local checkpoint is persisted, except just after the mutation made it, and
\* evaluation runs over a persisted one.
CheckpointHolds(r) ==
  /\ (/\ run[r].mode = "work"
      /\ run[r].pc \notin {"save_checkpoint", "except", "finally", "unwind"}
      /\ run[r].ckpt # NoCheckpoint)  => checkpoint[At(r)] # NoCheckpoint
  /\ run[r].pc = "save_checkpoint" => run[r].ckpt # NoCheckpoint
  /\ run[r].mode = "work" /\ run[r].work = "evaluation"
       => checkpoint[At(r)] # NoCheckpoint

\* Evaluation persists verdicts, exhaustion persists failures.
ResultHolds(r) ==
  /\ run[r].pc = "save_outcome"
       => run[r].work = "evaluation" /\ Kind(run[r].result) \in Verdicts
  /\ AtOrTo(r, {"exhausted"}) => Kind(run[r].result) = "failed"

\* A transition under way has its justification in the store.
CallJustified(r) ==
  run[r].pc \in {"validate", "append"} =>
    /\ run[r].tgt = "evaluating"
         => checkpoint[At(r)] # NoCheckpoint \/ state[At(r)] \in Terminal
    /\ run[r].tgt \in Verdicts => Kind(outcome[At(r)]) = run[r].tgt
    /\ run[r].pc = "append" => run[r].tgt \in Direct[run[r].exp]

RunInv(r) ==
  /\ Located(r)
  /\ SeenHolds(r)
  /\ CheckpointHolds(r)
  /\ ResultHolds(r)
  /\ CallJustified(r)

\* The inductive invariant.
IndInv == TypeOK /\ StoreInv /\ \A r \in Runner : RunInv(r)

-----------------------------------------------------------------------------
\* Of a candidate that one process works at, more can be said.

\* A process between its claim of a candidate and its finally clause.
Working(r) == run[r].mode # "scan"

Exclusive ==
  \A p, q \in Runner : p # q /\ Working(p) /\ Working(q) => At(p) # At(q)

\* The leases keep it so, if each is extended before it expires: the lease of a working
\* process is its own, and live.
HeldInv ==
  \A r \in Runner : Working(r) => owner[At(r)] = r /\ At(r) \in live

\* A step at which no lease expires under a process that works.
Timely == \A c \in Candidate : ExpireLease(c) => Abandoned(c)

TimelySpec == Init /\ [][Next /\ Timely]_vars

\* What a process knows of the checkpoint is what is persisted, and it mutates the
\* candidate only if nothing is.
CheckpointKnown(r) ==
  /\ AtOrTo(r, {"resume", "decide"}) => run[r].ckpt = checkpoint[At(r)]
  /\ AtOrTo(r, {"enter", "attempt", "operate", "oom"}) /\ run[r].work = "mutation"
       => checkpoint[At(r)] = NoCheckpoint
  /\ run[r].pc = "save_checkpoint" => checkpoint[At(r)] = NoCheckpoint

\* Inductive while Exclusive holds, whatever fails.
MutationInv == \A r \in Runner : CheckpointKnown(r)

-----------------------------------------------------------------------------
\* One process works on the campaign at a time.
Sole == \A p, q \in Runner : p = q

(***************************************************************************)
(* Without failing transactions, nothing comes between two steps of a sole *)
(* process: no transition is refused, and an exception is only raised by   *)
(* the worker, before anything has been concluded.                         *)
(***************************************************************************)

\* The log and the outcome agree, but for a verdict that was persisted and has not
\* reached the log; the stage is the one the active state names.
LogAgrees ==
  \A c \in Candidate :
    /\ Kind(outcome[c]) = "failed" => state[c] = "failed"
    /\ Kind(outcome[c]) \in Verdicts => state[c] \in {"evaluating", Kind(outcome[c])}
    /\ state[c] \in Active => state[c] = ActiveState(stage[c])

\* Where the work of a candidate has no outcome yet.
Unconcluded == {"load", "enter", "attempt", "operate", "oom", "exhausted", "save_checkpoint",
                "save_outcome", "except", "except_outcome"}

\* The outcome the process has read is the one that is persisted.
OutcomeKnown(r) ==
  /\ AtOrTo(r, Unconcluded) => outcome[At(r)] = Pending
  /\ InCall(r) /\ run[r].back = "decide" => outcome[At(r)] = Pending
  /\ AtOrTo(r, {"resume", "decide"}) => run[r].seen = outcome[At(r)]

\* The state the log is in at each place of the code.
PlaceHolds(r) ==
  LET c == At(r)
      pc == run[r].pc
  IN  /\ pc \in {"decide", "reconcile_step"} => run[r].cur = state[c]
      /\ pc \in {"load", "save_outcome"} => state[c] = "evaluating"
      /\ pc \in {"enter", "attempt", "operate"} => state[c] = ActiveState(run[r].work)
      /\ pc = "oom" => state[c] = "recoverable-oom" /\ stage[c] = run[r].work
      /\ pc \in {"exhausted", "except_outcome"} => state[c] = "failed"
      /\ pc = "save_checkpoint" => state[c] = "running"
      /\ pc = "except" => state[c] \in Active
      /\ pc = "plan" => state[c] \in Recovery /\ run[r].back = "decide"
      /\ pc = "reconcile_step" => state[c] = "evaluating"
      /\ pc \notin {"reconcile_read", "aborted"}

\* A transition under way is allowed, and leads to what follows it.
CallHolds(r) ==
  LET c == At(r)
      tgt == run[r].tgt
      back == run[r].back
  IN  run[r].pc \in {"validate", "append"} =>
        /\ Allowed(c, tgt)
        /\ run[r].pc = "append" => run[r].exp = state[c]
        /\ \/ back = "decide" /\ tgt \in {"planned"} \cup Active
           \/ back = "load" /\ tgt = "evaluating"
           \/ back = "attempt" /\ tgt = ActiveState(run[r].work)
           \/ back = "oom" /\ tgt = "recoverable-oom" /\ stage[c] = run[r].work
           \/ back \in {"exhausted", "except_outcome"} /\ tgt = "failed"
           \/ back \in {"finally", "scan"} /\ tgt = Kind(outcome[c])

SoloRun(r) == OutcomeKnown(r) /\ PlaceHolds(r) /\ CallHolds(r)

\* The inductive invariant of a sole process whose transactions succeed.
SoloInv == LogAgrees /\ \A r \in Runner : SoloRun(r)

-----------------------------------------------------------------------------
(***************************************************************************)
(* Of processes that exclude each other from the candidates they work at,  *)
(* one can still meet another that reconciles the candidate without its    *)
(* lease, in the first loop of its run.  That needs a concluded outcome:   *)
(* before, the process that works at the candidate is as good as alone,    *)
(* and after, whoever transitions it writes what the outcome says.         *)
(***************************************************************************)

\* Process r works at candidate At(r), or reconciles it.
Attends(r) == run[r].pc \notin Apart

\* All that is left to do once the outcome is persisted.
Concluding(r) ==
  LET c == At(r)
      pc == run[r].pc
  IN  /\ pc \in {"status", "resume", "decide", "reconcile", "reconcile_step", "validate",
                 "append", "except", "except_outcome", "finally", "unwind"}
      /\ pc \in {"resume", "decide"} => run[r].seen = outcome[c]
      /\ pc = "decide" => run[r].cur \in {"evaluating", Kind(outcome[c])}
      /\ pc = "reconcile_step" => run[r].cur = "evaluating"
      /\ pc \in {"validate", "append"} => /\ run[r].back \in {"finally", "scan"}
                                          /\ run[r].tgt = Kind(outcome[c])
      /\ pc = "append" => run[r].exp = "evaluating"
      /\ pc = "except" => state[c] = Kind(outcome[c])

SharedRun(r) ==
  Attends(r) => IF outcome[At(r)] = Pending THEN Working(r) /\ SoloRun(r) ELSE Concluding(r)

\* The inductive invariant of processes that exclude each other, and whose transactions
\* succeed.
SharedInv == LogAgrees /\ \A r \in Runner : SharedRun(r)

=============================================================================
