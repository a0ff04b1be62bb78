----------------------------- MODULE CampaignRunner -----------------------------
(***************************************************************************)
(* CampaignRunner.run of experiments/campaign.py: processes that share one *)
(* metadata store, each walking the campaign's candidates under leases,    *)
(* mutating and evaluating them with OOM recovery, and reconciling what an *)
(* earlier process left behind.                                            *)
(*                                                                         *)
(* One action is one transaction on the store or one call of the worker;   *)
(* other processes, an expiry of the lease or a crash may come between any *)
(* two of them.  A state transition is two steps, as in the code: the log  *)
(* is read and the target validated outside the write transaction, then    *)
(* the event is appended if the state is still the one that was read.      *)
(*                                                                         *)
(* Abstracted: the recovery history (persist_campaign_recovery writes data *)
(* that nothing reads back), the run report, registration (idempotent, so  *)
(* part of Init), the baseline cache, and the order of the candidates (the *)
(* code has one, the model allows any).                                    *)
(***************************************************************************)
EXTENDS CandidateLifecycle, Naturals

CONSTANTS Runner,        \* the processes that call run()
          NoRunner,      \* the owner of a candidate that was never claimed
          Checkpoint,    \* the checkpoints a mutation may produce
          NoCheckpoint,  \* no checkpoint persisted
          Report,        \* the reports an evaluation may produce
          Accepted,      \* the reports the thresholds accept
          NoCandidate,   \* the process works on no candidate
          RetryBudget,   \* OOM retries left by max_retries and by the adaptations
          StoreFaults    \* whether a transaction may fail with a SQLite error

ASSUME CampaignAssumption ==
  /\ NoRunner \notin Runner
  /\ NoCheckpoint \notin Checkpoint
  /\ NoCandidate \notin Candidate
  /\ Accepted \subseteq Report
  /\ RetryBudget \in Nat
  /\ StoreFaults \in BOOLEAN

VARIABLES owner, live, completed,  \* the lease table
          checkpoint,  \* [Candidate -> checkpoint_json of its campaign status]
          outcome,     \* [Candidate -> its campaign outcome with its evidence]
          run          \* [Runner -> the locals of its run() call]

INSTANCE LeaseTable

leases     == <<owner, live, completed>>
statusVars == <<checkpoint, outcome>>
store      == <<state, stage, owner, live, completed, checkpoint, outcome>>
vars       == <<store, run>>

-----------------------------------------------------------------------------
\* Campaign outcomes carry what the conflict check compares them by.

Pending        == <<"pending", "none">>
FailedBy(why)  == <<"failed", why>>
Measured(q)    == <<IF q \in Accepted THEN "succeeded" ELSE "rejected", q>>

Cause          == WorkStage \cup {"error"}
Outcome        == {Pending} \cup {FailedBy(w) : w \in Cause} \cup {Measured(q) : q \in Report}
Kind(o)        == o[1]

\* Mistake: a rejected candidate is not recognised as concluded.
Concluded_ForgetsRejected(o) == Kind(o) \in Terminal \ {"rejected"}

Concluded(o)   == Kind(o) \in Terminal

-----------------------------------------------------------------------------
\* The locals of one run() call.

\* Outside the per-candidate try block, inside it, and in its except clause.
Mode  == {"scan", "work", "except"}

Label == {"down", "done", "aborted", "scan", "scan_state", "reconcile", "reconcile_read",
          "reconcile_step", "claim", "status", "resume", "decide", "plan", "validate",
          "append", "load", "enter", "attempt", "operate", "oom", "exhausted",
          "save_checkpoint", "save_outcome", "except", "except_outcome", "finally",
          "unwind"}

RunState ==
  [pc      : Label,
   mode    : Mode,
   todo    : SUBSET Candidate,               \* rest of the current for loop
   pending : SUBSET Candidate,               \* pending list of the first loop
   at      : Candidate \cup {NoCandidate},
   cur     : State,                          \* local variable current
   seen    : Outcome,                        \* status.outcome when it was read
   ckpt    : Checkpoint \cup {NoCheckpoint}, \* local variable checkpoint
   work    : WorkStage,                      \* stage under OOM recovery
   ooms    : 0..RetryBudget,                 \* OOM retries made in this stage
   result  : Outcome,                        \* outcome about to be persisted
   tgt     : State,                          \* target of the transition under way
   exp     : State,                          \* state that transition has read
   back    : Label]                          \* where it returns to

Idle ==
  [pc |-> "down", mode |-> "scan", todo |-> {}, pending |-> {}, at |-> NoCandidate,
   cur |-> "none", seen |-> Pending, ckpt |-> NoCheckpoint, work |-> "mutation",
   ooms |-> 0, result |-> Pending, tgt |-> "none", exp |-> "none", back |-> "down"]

\* No run() call is under way: before the first one, after a crash, a return or
\* an exception that left run().
Stopped == {"down", "done", "aborted"}

At(r) == run[r].at

TypeOK ==
  /\ LifecycleTypeOK
  /\ LeaseTypeOK
  /\ checkpoint \in [Candidate -> Checkpoint \cup {NoCheckpoint}]
  /\ outcome \in [Candidate -> Outcome]
  /\ run \in [Runner -> RunState]

Init ==
  /\ LifecycleInit
  /\ LeaseInit
  /\ checkpoint = [c \in Candidate |-> NoCheckpoint]
  /\ outcome = [c \in Candidate |-> Pending]
  /\ run = [r \in Runner |-> Idle]

-----------------------------------------------------------------------------
\* Control.

Goto(r, label) == run' = [run EXCEPT ![r].pc = label]

\* Call transition(target) and continue at label.
Call(r, target, label) ==
  run' = [run EXCEPT ![r].pc = "validate", ![r].tgt = target, ![r].back = label]

\* An ExperimentStateError or CampaignError ends the run outside the try block,
\* reaches the except clause inside it, and is suppressed in that clause.
OnError(mode) ==
  CASE mode = "scan"   -> "aborted"
    [] mode = "work"   -> "except"
    [] mode = "except" -> "except_outcome"

Raise(r) ==
  IF run[r].mode = "scan"
  THEN run' = [run EXCEPT ![r] = [Idle EXCEPT !.pc = "aborted"]]
  ELSE Goto(r, OnError(run[r].mode))

-----------------------------------------------------------------------------
\* ExperimentStateMachine.transition, initialize included.

Allowed(c, target) ==
  /\ target \in Direct[state[c]]
  /\ state[c] \in Recovery /\ target \in Active => target = ActiveState(stage[c])

Validate(r) ==
  /\ run[r].pc = "validate"
  /\ IF Allowed(At(r), run[r].tgt)
     THEN run' = [run EXCEPT ![r].pc = "append", ![r].exp = state[At(r)]]
     ELSE Raise(r)
  /\ UNCHANGED store

\* Mistake: the event is appended without comparing the state again.
StillExpected_NoCompare(r) == TRUE

StillExpected(r) == state[At(r)] = run[r].exp

Append(r) ==
  /\ run[r].pc = "append"
  /\ IF StillExpected(r)
     THEN /\ state' = [state EXCEPT ![At(r)] = run[r].tgt]
          /\ stage' = [stage EXCEPT ![At(r)] = StageAfter(run[r].tgt, @)]
          /\ run' = [run EXCEPT ![r].pc = run[r].back, ![r].cur = run[r].tgt]
     ELSE /\ Raise(r)
          /\ UNCHANGED lifecycleVars
  /\ UNCHANGED <<leases, statusVars>>

\* recovery_plan: the stage to resume, read again from the log.
Plan(r) ==
  /\ run[r].pc = "plan"
  /\ LET c == At(r)
         target == IF state[c] \notin Terminal /\ stage[c] = "mutation"
                   THEN "running" ELSE "evaluating"
     IN  run' = [run EXCEPT ![r].pc = "validate", ![r].tgt = target]
  /\ UNCHANGED store

-----------------------------------------------------------------------------
\* run(): the first loop.

Start(r) ==
  /\ run[r].pc \in Stopped
  /\ run' = [run EXCEPT ![r] = [Idle EXCEPT !.pc = "scan", !.todo = Candidate]]
  /\ UNCHANGED store

ScanStatus(r) ==
  /\ run[r].pc = "scan"
  /\ \E c \in run[r].todo :
       run' = [run EXCEPT ![r].pc = "scan_state", ![r].at = c, ![r].seen = outcome[c],
                          ![r].todo = @ \ {c}]
  /\ UNCHANGED store

ScanState(r) ==
  /\ run[r].pc = "scan_state"
  /\ \/ Concluded(run[r].seen) /\ Goto(r, "reconcile")
     \/ ~Concluded(run[r].seen) /\ state[At(r)] \in Terminal /\ Goto(r, "scan")
     \/ /\ ~Concluded(run[r].seen) /\ state[At(r)] \notin Terminal
        /\ run' = [run EXCEPT ![r].pc = "scan", ![r].pending = @ \cup {At(r)}]
  /\ UNCHANGED store

ScanDone(r) ==
  /\ run[r].pc = "scan"
  /\ run[r].todo = {}
  /\ run' = [run EXCEPT ![r] =
               IF run[r].pending = {} THEN [Idle EXCEPT !.pc = "done"]
               ELSE [Idle EXCEPT !.pc = "claim", !.todo = run[r].pending]]
  /\ UNCHANGED store

-----------------------------------------------------------------------------
\* _reconcile_terminal, called by the first loop and by _resume_state.

Reconciled(r) == IF run[r].mode = "scan" THEN "scan" ELSE "finally"

Reconcile(r) ==
  /\ run[r].pc = "reconcile"
  /\ LET current == state[At(r)]
     IN  \/ current = Kind(run[r].seen) /\ Goto(r, Reconciled(r))
         \/ current \in Terminal /\ current # Kind(run[r].seen) /\ Raise(r)
         \/ /\ current \notin Terminal
            /\ run' = [run EXCEPT ![r].pc = "reconcile_step", ![r].cur = current]
  /\ UNCHANGED store

\* The loop's own read of the state, after each of its transitions.
ReconcileRead(r) ==
  /\ run[r].pc = "reconcile_read"
  /\ run' = [run EXCEPT ![r].pc = "reconcile_step", ![r].cur = state[At(r)]]
  /\ UNCHANGED store

ReconcileStep(r) ==
  /\ run[r].pc = "reconcile_step"
  /\ LET target  == Kind(run[r].seen)
         current == run[r].cur
         loops   == target = "succeeded"
     IN  \/ current = "none" /\ Call(r, "planned", "reconcile_step")
         \/ current # "none" /\ ~loops /\ Call(r, target, Reconciled(r))
         \/ current = "evaluating" /\ loops /\ Call(r, target, Reconciled(r))
         \/ current = "planned" /\ loops /\ Call(r, "running", "reconcile_read")
         \/ current = "running" /\ loops /\ Call(r, "evaluating", "reconcile_read")
         \/ /\ current \in Recovery /\ loops
            /\ run' = [run EXCEPT ![r].pc = "plan", ![r].back = "reconcile_read"]
         \/ current \in Terminal /\ loops /\ Raise(r)
  /\ UNCHANGED store

-----------------------------------------------------------------------------
\* run(): the second loop, and _resume_state.

ClaimCandidate(r) ==
  /\ run[r].pc = "claim"
  /\ \E c \in run[r].todo :
       IF Claimable(c) /\ state[c] \notin Terminal
       THEN /\ Claim(r, c)
            /\ run' = [run EXCEPT ![r].pc = "status", ![r].mode = "work", ![r].at = c,
                                  ![r].todo = @ \ {c}]
       ELSE /\ run' = [run EXCEPT ![r].todo = @ \ {c}]
            /\ UNCHANGED leases
  /\ UNCHANGED <<lifecycleVars, statusVars>>

RunDone(r) ==
  /\ run[r].pc = "claim"
  /\ run[r].todo = {}
  /\ run' = [run EXCEPT ![r] = [Idle EXCEPT !.pc = "done"]]
  /\ UNCHANGED store

ReadStatus(r) ==
  /\ run[r].pc = "status"
  /\ run' = [run EXCEPT ![r].pc = "resume", ![r].seen = outcome[At(r)],
                        ![r].ckpt = checkpoint[At(r)]]
  /\ UNCHANGED store

Resume(r) ==
  /\ run[r].pc = "resume"
  /\ run' = [run EXCEPT ![r].pc = "decide", ![r].cur = state[At(r)]]
  /\ UNCHANGED store

\* Mistake: the checkpoint of the status is not consulted.
HasCheckpoint_Ignored(r) == FALSE

HasCheckpoint(r) == run[r].ckpt # NoCheckpoint

\* The chain of ifs of _resume_state and _run_candidate on the local current.
Decide(r) ==
  /\ run[r].pc = "decide"
  /\ LET current == run[r].cur
         fresh   == ~Concluded(run[r].seen)
     IN  \/ current = "none" /\ Call(r, "planned", "decide")
         \/ current # "none" /\ ~fresh /\ Goto(r, "reconcile")
         \/ /\ current \in Recovery /\ fresh
            /\ run' = [run EXCEPT ![r].pc = "plan", ![r].back = "decide"]
         \/ current = "planned" /\ fresh /\ Call(r, "running", "decide")
         \/ /\ current = "running" /\ fresh /\ HasCheckpoint(r)
            /\ Call(r, "evaluating", "decide")
         \/ /\ current = "running" /\ fresh /\ ~HasCheckpoint(r)
            /\ run' = [run EXCEPT ![r].pc = "enter", ![r].work = "mutation"]
         \/ current = "evaluating" /\ fresh /\ Goto(r, "load")
         \/ current \in Terminal /\ fresh /\ Goto(r, "finally")
  /\ UNCHANGED store

\* The evaluation needs the local checkpoint or the persisted one.
Load(r) ==
  /\ run[r].pc = "load"
  /\ LET k == IF run[r].ckpt # NoCheckpoint THEN run[r].ckpt ELSE checkpoint[At(r)]
     IN  IF k = NoCheckpoint THEN Raise(r)
         ELSE run' = [run EXCEPT ![r].pc = "enter", ![r].ckpt = k,
                                 ![r].work = "evaluation"]
  /\ UNCHANGED store

-----------------------------------------------------------------------------
\* run_with_oom_recovery around one stage.

Enter(r) ==
  /\ run[r].pc = "enter"
  /\ IF state[At(r)] = ActiveState(run[r].work)
     THEN run' = [run EXCEPT ![r].pc = "attempt", ![r].ooms = 0]
     ELSE Raise(r)
  /\ UNCHANGED store

\* Each attempt heartbeats first; a lost lease raises WorkLeaseError.
Attempt(r) ==
  /\ run[r].pc = "attempt"
  /\ \/ Heartbeat(r, At(r)) /\ Goto(r, "operate")
     \/ ~Current(r, At(r)) /\ Goto(r, "finally") /\ UNCHANGED leases
  /\ UNCHANGED <<lifecycleVars, statusVars>>

\* The worker returns a result, runs out of memory, raises, or its own heartbeat
\* finds the lease lost.
Operate(r) ==
  /\ run[r].pc = "operate"
  /\ \/ /\ run[r].work = "mutation"
        /\ \E k \in Checkpoint :
             run' = [run EXCEPT ![r].pc = "save_checkpoint", ![r].ckpt = k]
     \/ /\ run[r].work = "evaluation"
        /\ \E q \in Report :
             run' = [run EXCEPT ![r].pc = "save_outcome", ![r].result = Measured(q)]
     \/ Call(r, "recoverable-oom", "oom")
     \/ Goto(r, "except")
     \/ ~Current(r, At(r)) /\ Goto(r, "finally")
  /\ UNCHANGED store

RetryAllowed(r) == run[r].ooms < RetryBudget

\* After the OOM event: retry with an adapted configuration, or give up.
Retry(r) ==
  /\ run[r].pc = "oom"
  /\ RetryAllowed(r)
  /\ \/ /\ Heartbeat(r, At(r))
        /\ run' = [run EXCEPT ![r].pc = "validate", ![r].tgt = ActiveState(run[r].work),
                              ![r].back = "attempt", ![r].ooms = @ + 1]
     \/ ~Current(r, At(r)) /\ Goto(r, "finally") /\ UNCHANGED leases
  /\ UNCHANGED <<lifecycleVars, statusVars>>

Exhaust(r) ==
  /\ run[r].pc = "oom"
  /\ ~RetryAllowed(r)
  /\ run' = [run EXCEPT ![r].pc = "validate", ![r].tgt = "failed", ![r].back = "exhausted",
                        ![r].result = FailedBy(run[r].work)]
  /\ UNCHANGED store

-----------------------------------------------------------------------------
\* persist_campaign_checkpoint and persist_campaign_outcome.

\* Mistake: the checkpoint stays in the process that made it.
PersistCheckpoint_Lost(c, k) == UNCHANGED checkpoint

PersistCheckpoint(c, k) == checkpoint' = [checkpoint EXCEPT ![c] = k]

SaveCheckpoint(r) ==
  /\ run[r].pc = "save_checkpoint"
  /\ LET c == At(r)
     IN  IF checkpoint[c] \in {NoCheckpoint, run[r].ckpt}
         THEN /\ PersistCheckpoint(c, run[r].ckpt)
              /\ Call(r, "evaluating", "load")
         ELSE Raise(r) /\ UNCHANGED checkpoint
  /\ UNCHANGED <<lifecycleVars, leases, outcome>>

\* Mistake: the last writer wins.
Persistable_LastWins(c, o) == TRUE

\* A concluded outcome may only be written again with the same evidence.
Persistable(c, o) == outcome[c] \in {Pending, o}

Persist(c, o) == outcome' = [outcome EXCEPT ![c] = o]

SaveOutcome(r) ==
  /\ run[r].pc = "save_outcome"
  /\ LET c == At(r)
         o == run[r].result
     IN  IF Persistable(c, o)
         THEN Persist(c, o) /\ Call(r, Kind(o), "finally")
         ELSE Raise(r) /\ UNCHANGED outcome
  /\ UNCHANGED <<lifecycleVars, leases, checkpoint>>

\* OOM exhaustion has failed the candidate already; only the outcome is left.
SaveExhausted(r) ==
  /\ run[r].pc = "exhausted"
  /\ LET c == At(r)
         o == run[r].result
     IN  IF Persistable(c, o)
         THEN Persist(c, o) /\ Goto(r, "finally")
         ELSE Raise(r) /\ UNCHANGED outcome
  /\ UNCHANGED <<lifecycleVars, leases, checkpoint>>

-----------------------------------------------------------------------------
\* The except and finally clauses of the second loop.

ExceptState(r) ==
  /\ run[r].pc = "except"
  /\ run' = [run EXCEPT ![r].mode = "except",
                        ![r].pc = IF state[At(r)] \in Terminal THEN "except_outcome"
                                  ELSE "validate",
                        ![r].tgt = "failed", ![r].back = "except_outcome"]
  /\ UNCHANGED store

\* A conflicting outcome is suppressed here.
ExceptOutcome(r) ==
  /\ run[r].pc = "except_outcome"
  /\ LET o == FailedBy("error")
     IN  IF Persistable(At(r), o) THEN Persist(At(r), o) ELSE UNCHANGED outcome
  /\ Goto(r, "finally")
  /\ UNCHANGED <<lifecycleVars, leases, checkpoint>>

Finished(c) == state[c] \in Terminal

\* An exception that the except clause does not catch ends the run from here.
Finally(r) ==
  /\ run[r].pc \in {"finally", "unwind"}
  /\ IF Finished(At(r)) /\ Completable(r, At(r))
     THEN Complete(r, At(r)) ELSE UNCHANGED leases
  /\ run' = [run EXCEPT ![r] =
               IF run[r].pc = "unwind" THEN Idle
               ELSE [Idle EXCEPT !.pc = "claim", !.todo = run[r].todo]]
  /\ UNCHANGED <<lifecycleVars, statusVars>>

-----------------------------------------------------------------------------
\* The environment of a run: crashes, interrupts, and failing transactions.

Crash(r) ==
  /\ run[r].pc \notin Stopped
  /\ run' = [run EXCEPT ![r] = Idle]
  /\ UNCHANGED store

\* A KeyboardInterrupt skips the except clause and leaves through finally.
Interrupt(r) ==
  /\ run[r].mode # "scan"
  /\ run[r].pc \notin {"finally", "unwind"}
  /\ Goto(r, "unwind")
  /\ UNCHANGED store

\* A SQLite error is no ExperimentStateError: outside the try block and in the
\* finally clause it ends the run, in the except clause it leaves through finally.
StoreFails(r) ==
  /\ StoreFaults
  /\ run[r].pc \notin Stopped \cup {"decide", "reconcile_step", "operate"}
  /\ IF run[r].mode = "scan" \/ run[r].pc \in {"finally", "unwind"}
     THEN run' = [run EXCEPT ![r] = Idle]
     ELSE Goto(r, IF run[r].mode = "work" THEN "except" ELSE "unwind")
  /\ UNCHANGED store

ExpireLease(c) ==
  /\ Expire(c)
  /\ UNCHANGED <<lifecycleVars, statusVars, run>>

-----------------------------------------------------------------------------

Transition(r) == Validate(r) \/ Append(r) \/ Plan(r)
FirstLoop(r)  == Start(r) \/ ScanStatus(r) \/ ScanState(r) \/ ScanDone(r)
Reconciling(r) == Reconcile(r) \/ ReconcileRead(r) \/ ReconcileStep(r)
SecondLoop(r) == ClaimCandidate(r) \/ RunDone(r) \/ ReadStatus(r) \/ Resume(r)
                 \/ Decide(r) \/ Load(r)
OomRecovery(r) == Enter(r) \/ Attempt(r) \/ Operate(r) \/ Retry(r) \/ Exhaust(r)
Saving(r)     == SaveCheckpoint(r) \/ SaveOutcome(r) \/ SaveExhausted(r)
Closing(r)    == ExceptState(r) \/ ExceptOutcome(r) \/ Finally(r)

\* The steps the process takes by itself.
Step(r)  == \/ Transition(r) \/ FirstLoop(r) \/ Reconciling(r) \/ SecondLoop(r)
            \/ OomRecovery(r) \/ Saving(r) \/ Closing(r)
Fault(r) == Crash(r) \/ Interrupt(r) \/ StoreFails(r)

Next ==
  \/ \E r \in Runner : Step(r) \/ Fault(r)
  \/ \E c \in Candidate : ExpireLease(c)

Spec == Init /\ [][Next]_vars

\* The process that holds the current token of c and is still working under it.
Holds(r, c) == run[r].mode # "scan" /\ At(r) = c /\ owner[c] = r

Abandoned(c) == \A r \in Runner : ~Holds(r, c)

\* Processes keep running and the campaign is started again after each end; the
\* clock passes the expiry of a lease that nobody extends.
Fairness ==
  /\ \A r \in Runner : WF_vars(Step(r))
  /\ \A c \in Candidate : WF_vars(Abandoned(c) /\ ExpireLease(c))

FairSpec == Spec /\ Fairness

-----------------------------------------------------------------------------
\* Properties.

\* The evaluation stage is only entered over a persisted mutation checkpoint,
\* so a restart can resume evaluation without repeating the mutation.
StageHasCheckpoint ==
  \A c \in Candidate : stage[c] = "evaluation" => checkpoint[c] # NoCheckpoint

\* A measured verdict reaches the log only after the outcome with its report.
VerdictHasOutcome ==
  \A c \in Candidate :
    state[c] \in {"succeeded", "rejected"} => Kind(outcome[c]) = state[c]

\* A completed lease can never be claimed again, so its work must be over.
CompletedIsTerminal ==
  \A c \in completed : state[c] \in Terminal

\* Persisted checkpoints and concluded outcomes are immutable.
EvidenceIsImmutable ==
  [][\A c \in Candidate :
       /\ checkpoint[c] # NoCheckpoint => checkpoint'[c] = checkpoint[c]
       /\ outcome[c] # Pending => outcome'[c] = outcome[c]]_vars

\* The log and the campaign status never disagree about how a candidate ended.
StateMatchesOutcome ==
  \A c \in Candidate :
    state[c] \in Terminal /\ outcome[c] # Pending => Kind(outcome[c]) = state[c]

\* A candidate whose checkpoint is persisted is not mutated again.
NoRemutation ==
  \A r \in Runner :
    run[r].pc = "operate" /\ run[r].work = "mutation"
      => checkpoint[At(r)] = NoCheckpoint

\* From some point on nothing crashes and working processes heartbeat in time.
Calm ==
  <>[][/\ \A r \in Runner : ~Fault(r)
       /\ \A c \in Candidate : ExpireLease(c) => Abandoned(c)]_vars

\* Once things calm down, every candidate of the campaign reaches an end,
\* whatever crashes and lost leases came before.
EveryCandidateEnds == Calm => <>(\A c \in Candidate : state[c] \in Terminal)

\* A run isolates the failures of its candidates: none ends the whole run.
NoAbort == \A r \in Runner : run[r].pc # "aborted"

=============================================================================
