------------------------- MODULE CampaignRunner_proofs -------------------------
(***************************************************************************)
(* Every step of every process keeps the invariant of CampaignInvariant,   *)
(* and what follows for CampaignRunner, for any number of processes,       *)
(* candidates, checkpoints and reports.  Then: what follows besides if     *)
(* leases keep the processes from each other's candidates, or if there is  *)
(* one process.                                                            *)
(***************************************************************************)
EXTENDS CampaignInvariant, TLAPS

-----------------------------------------------------------------------------
\* What a step owes to the other processes.

\* What a process relies on survives every step of another process that only
\* lets the store grow.
LEMMA OthersHold ==
  ASSUME NEW q \in Runner, TypeOK, TypeOK', RunInv(q), Grows, run'[q] = run[q]
  PROVE  RunInv(q)'
<1> USE DEF At, Between, InCall, AtOrTo
<1>1. Located(q)'
  BY DEF RunInv, Located
<1>2. SeenHolds(q)'
  BY DEF RunInv, SeenHolds, Grows, Concluded, Kind, Pending, Terminal
<1>3. CheckpointHolds(q)'
  BY DEF RunInv, Located, CheckpointHolds, Grows, Works, Stopped
<1>4. ResultHolds(q)'
  BY DEF RunInv, ResultHolds
<1>5. CallJustified(q)'
  BY DEF RunInv, Located, CallJustified, Grows, Kind, Pending, Verdicts, Stopped
<1> QED BY <1>1, <1>2, <1>3, <1>4, <1>5 DEF RunInv

\* So a step has to be followed for the process that takes it only.
LEMMA StepKeeps ==
  ASSUME IndInv, NEW r \in Runner, TypeOK', StoreInv', Grows,
         \A q \in Runner \ {r} : run'[q] = run[q], RunInv(r)'
  PROVE  IndInv' /\ Grows
<1>1. ASSUME NEW q \in Runner PROVE RunInv(q)'
  BY OthersHold DEF IndInv
<1> QED BY <1>1 DEF IndInv

\* The steps that change nothing but leases and the process itself.
LEMMA LeaseStep ==
  ASSUME IndInv, NEW r \in Runner, UNCHANGED <<lifecycleVars, statusVars>>,
         LeaseTypeOK', CompletedIsTerminal', run' \in [Runner -> RunState],
         \A q \in Runner \ {r} : run'[q] = run[q], RunInv(r)'
  PROVE  IndInv' /\ Grows
<1>1. TypeOK'
  BY DEF IndInv, lifecycleVars, statusVars, TypeOK, LifecycleTypeOK
<1>2. StoreInv'
  BY DEF IndInv, StoreInv, lifecycleVars, statusVars, StageHasCheckpoint,
         OutcomeHasCheckpoint, VerdictHasOutcome
<1>3. Grows
  BY DEF lifecycleVars, statusVars, Grows
<1> QED BY <1>1, <1>2, <1>3, StepKeeps

\* The steps that change nothing but the process itself.
LEMMA LocalStep ==
  ASSUME IndInv, NEW r \in Runner, UNCHANGED store, run' \in [Runner -> RunState],
         \A q \in Runner \ {r} : run'[q] = run[q], RunInv(r)'
  PROVE  IndInv' /\ Grows
<1>1. TypeOK'
  BY DEF IndInv, store, TypeOK, LifecycleTypeOK, LeaseTypeOK
<1>2. StoreInv'
  BY DEF IndInv, StoreInv, store, StageHasCheckpoint, OutcomeHasCheckpoint,
         VerdictHasOutcome, CompletedIsTerminal
<1>3. Grows
  BY DEF store, Grows
<1> QED BY <1>1, <1>2, <1>3, StepKeeps

-----------------------------------------------------------------------------
\* Types.

\* The names the actions assign are in the sets the types are made of.
LEMMA Names ==
  /\ "done" \in Label /\ "aborted" \in Label /\ "scan" \in Label /\ "scan_state" \in Label
  /\ "reconcile" \in Label /\ "reconcile_read" \in Label /\ "reconcile_step" \in Label
  /\ "claim" \in Label /\ "status" \in Label /\ "resume" \in Label /\ "decide" \in Label
  /\ "plan" \in Label /\ "validate" \in Label /\ "append" \in Label /\ "load" \in Label
  /\ "enter" \in Label /\ "attempt" \in Label /\ "operate" \in Label /\ "oom" \in Label
  /\ "exhausted" \in Label /\ "save_checkpoint" \in Label /\ "save_outcome" \in Label
  /\ "except" \in Label /\ "except_outcome" \in Label /\ "finally" \in Label
  /\ "unwind" \in Label
  /\ "planned" \in State /\ "running" \in State /\ "evaluating" \in State
  /\ "failed" \in State /\ "recoverable-oom" \in State
  /\ "mutation" \in WorkStage /\ "evaluation" \in WorkStage
  /\ "work" \in Mode /\ "except" \in Mode
  /\ Terminal \subseteq State
  /\ \A w : ActiveState(w) \in State
  BY DEF Label, State, Active, Recovery, Terminal, WorkStage, Mode, ActiveState

\* A well-typed value assigned to a local keeps the locals well typed.
LEMMA SetFields ==
  ASSUME NEW x \in RunState
  PROVE  /\ \A v \in Label : [x EXCEPT !.pc = v] \in RunState
         /\ \A v \in Mode : [x EXCEPT !.mode = v] \in RunState
         /\ \A v \in SUBSET Candidate : [x EXCEPT !.todo = v] \in RunState
         /\ \A v \in SUBSET Candidate : [x EXCEPT !.pending = v] \in RunState
         /\ \A v \in Candidate \cup {NoCandidate} : [x EXCEPT !.at = v] \in RunState
         /\ \A v \in State : [x EXCEPT !.cur = v] \in RunState
         /\ \A v \in Outcome : [x EXCEPT !.seen = v] \in RunState
         /\ \A v \in Checkpoint \cup {NoCheckpoint} : [x EXCEPT !.ckpt = v] \in RunState
         /\ \A v \in WorkStage : [x EXCEPT !.work = v] \in RunState
         /\ \A v \in 0..RetryBudget : [x EXCEPT !.ooms = v] \in RunState
         /\ \A v \in Outcome : [x EXCEPT !.result = v] \in RunState
         /\ \A v \in State : [x EXCEPT !.tgt = v] \in RunState
         /\ \A v \in State : [x EXCEPT !.exp = v] \in RunState
         /\ \A v \in Label : [x EXCEPT !.back = v] \in RunState
  BY DEF RunState

\* What the type of the locals says, local by local.
LEMMA GetFields ==
  ASSUME NEW x \in RunState
  PROVE  /\ x.pc \in Label /\ x.mode \in Mode /\ x.todo \in SUBSET Candidate
         /\ x.pending \in SUBSET Candidate /\ x.at \in Candidate \cup {NoCandidate}
         /\ x.cur \in State /\ x.seen \in Outcome
         /\ x.ckpt \in Checkpoint \cup {NoCheckpoint} /\ x.work \in WorkStage
         /\ x.ooms \in 0..RetryBudget /\ x.result \in Outcome
         /\ x.tgt \in State /\ x.exp \in State /\ x.back \in Label
  BY DEF RunState

\* The outcomes: which are concluded, and of what kind they are.
LEMMA Outcomes ==
  /\ Pending \in Outcome /\ ~Concluded(Pending)
  /\ \A w \in Cause : /\ FailedBy(w) \in Outcome /\ FailedBy(w) # Pending
                      /\ Kind(FailedBy(w)) = "failed"
  /\ \A q \in Report : Measured(q) \in Outcome /\ Kind(Measured(q)) \in Verdicts
  /\ \A o \in Outcome : /\ Concluded(o) <=> o # Pending
                        /\ Concluded(o) => Kind(o) \in Terminal
  BY DEF Outcome, Pending, Concluded, FailedBy, Measured, Kind, Terminal, Verdicts,
     Cause, WorkStage

\* The locals of a stopped process are well typed.
LEMMA IdleOK == Idle \in RunState
<1>1. Idle.pc \in Label /\ Idle.back \in Label /\ Idle.mode \in Mode
  BY DEF Idle, Label, Mode
<1>2. Idle.cur \in State /\ Idle.work \in WorkStage /\ Idle.ooms \in 0..RetryBudget
  BY CampaignAssumption DEF Idle, State, WorkStage
<1> QED BY <1>1, <1>2, Outcomes DEF Idle, RunState, State

\* The types of the variables, as the proofs of the actions use them.
LEMMA Typed ==
  ASSUME IndInv
  PROVE  /\ run \in [Runner -> RunState]
         /\ state \in [Candidate -> State] /\ stage \in [Candidate -> WorkStage]
         /\ checkpoint \in [Candidate -> Checkpoint \cup {NoCheckpoint}]
         /\ outcome \in [Candidate -> Outcome]
  BY DEF IndInv, TypeOK, LifecycleTypeOK

\* A process that is not between two candidates is at one.
LEMMA Here == ASSUME IndInv, NEW r \in Runner, ~Between(r) PROVE At(r) \in Candidate
  BY DEF IndInv, RunInv, Located

-----------------------------------------------------------------------------
\* One lemma per action: it keeps the invariant and lets the store grow.

USE DEF At, Goto, Call
USE DEF RunInv, Located, SeenHolds, CheckpointHolds, ResultHolds, CallJustified,
        Between, InCall, AtOrTo, Works, Reconciles, Apart, Stopped

\* An exception raised in any mode leaves no obligation of the process behind.
LEMMA RaiseKeeps ==
  ASSUME IndInv, NEW r \in Runner, Raise(r), ~Between(r), UNCHANGED store
  PROVE  IndInv' /\ Grows
<1> USE Typed, SetFields, IdleOK, Outcomes
<1>1. CASE run[r].mode = "scan"
  <2>1. run' = [run EXCEPT ![r] = [Idle EXCEPT !.pc = "aborted"]]
    BY <1>1 DEF Raise
  <2>2. run' \in [Runner -> RunState] /\ \A q \in Runner \ {r} : run'[q] = run[q]
    BY <2>1, Names
  <2>3. /\ run'[r].pc = "aborted" /\ run'[r].mode = "scan"
        /\ run'[r].seen = Pending
    BY <2>1 DEF Idle
  <2>4. RunInv(r)'
    BY <2>3
  <2> QED BY <2>2, <2>4, LocalStep
<1>2. CASE run[r].mode # "scan"
  <2>1. run[r].mode = "work" \/ run[r].mode = "except"
    BY <1>2, GetFields DEF Mode
  <2>2. PICK l \in {"except", "except_outcome"} :
          run' = [run EXCEPT ![r].pc = l] /\ (l = "except" \/ run[r].mode = "except")
    BY <1>2, <2>1 DEF Raise, OnError
  <2>3. run' = [run EXCEPT ![r].pc = l]
    BY <2>2
  <2>4. run' \in [Runner -> RunState] /\ \A q \in Runner \ {r} : run'[q] = run[q]
    BY <2>3, Names
  <2>5. run'[r].pc = l /\ run'[r].mode = run[r].mode /\ run'[r].at = run[r].at
        /\ run'[r].seen = run[r].seen /\ run'[r].work = run[r].work
    BY <2>3 DEF RunState
  <2>6. run'[r].pc = "except" \/ (run'[r].pc = "except_outcome" /\ run[r].mode = "except")
    BY <2>2, <2>5
  <2>7. RunInv(r) /\ checkpoint' = checkpoint /\ outcome' = outcome
    BY DEF IndInv, store
  <2> HIDE Typed, SetFields, IdleOK, Outcomes
  <2>8. RunInv(r)'
    BY <1>2, <2>5, <2>6, <2>7
  <2> QED BY <2>4, <2>8, LocalStep
<1> QED BY <1>1, <1>2

\* transition: the validated target is a direct successor of the state read.
LEMMA ValidateKeeps ==
  ASSUME IndInv, NEW r \in Runner, Validate(r), ~Raise(r)
  PROVE  IndInv' /\ Grows
<1>1. /\ run[r].pc = "validate" /\ run[r].tgt \in Direct[state[At(r)]]
      /\ UNCHANGED store
  BY DEF Validate, Allowed
<1>2. run' = [run EXCEPT ![r].pc = "append", ![r].exp = state[At(r)]]
  BY DEF Validate
<1>3. At(r) \in Candidate
  BY <1>1, Here
<1>4. run' \in [Runner -> RunState] /\ \A q \in Runner \ {r} : run'[q] = run[q]
  BY <1>2, <1>3, Typed, SetFields, Names
<1>5. RunInv(r)'
  <2>1. /\ run'[r].pc = "append" /\ run'[r].exp = state[At(r)]
        /\ run'[r].mode = run[r].mode /\ run'[r].at = run[r].at
        /\ run'[r].seen = run[r].seen /\ run'[r].ckpt = run[r].ckpt
        /\ run'[r].work = run[r].work /\ run'[r].result = run[r].result
        /\ run'[r].tgt = run[r].tgt /\ run'[r].back = run[r].back
    BY <1>2, Typed DEF RunState
  <2>2. RunInv(r) /\ state' = state /\ checkpoint' = checkpoint /\ outcome' = outcome
    BY <1>1 DEF IndInv, store
  <2> QED BY <1>1, <2>1, <2>2
<1> QED BY <1>1, <1>4, <1>5, LocalStep

\* recovery_plan: evaluation is only resumed where the log entered it, so over a
\* checkpoint.
LEMMA PlanKeeps ==
  ASSUME IndInv, NEW r \in Runner, Plan(r)
  PROVE  IndInv' /\ Grows
<1>1. run' \in [Runner -> RunState]
  BY Typed, SetFields, Names DEF Plan
<1>2. \A q \in Runner \ {r} : run'[q] = run[q]
  BY Typed DEF Plan
<1>3. RunInv(r)'
  BY DEF Plan, IndInv, TypeOK, RunState, store, StoreInv, StageHasCheckpoint,
     LifecycleTypeOK, WorkStage, Verdicts
<1> QED BY <1>1, <1>2, <1>3, LocalStep DEF Plan

\* _atomic_append: the appended event was validated against this very state.
LEMMA AppendKeeps ==
  ASSUME IndInv, NEW r \in Runner, Append(r), StillExpected(r)
  PROVE  IndInv' /\ Grows
<1>0. /\ state[At(r)] = run[r].exp
      /\ state' = [state EXCEPT ![At(r)] = run[r].tgt]
      /\ stage' = [stage EXCEPT ![At(r)] = StageAfter(run[r].tgt, @)]
      /\ UNCHANGED <<leases, statusVars>>
  BY DEF Append, StillExpected
<1>1. run[r].pc = "append" /\ run' = [run EXCEPT ![r].pc = run[r].back, ![r].cur = run[r].tgt]
  BY DEF Append, StillExpected
<1>2. At(r) \in Candidate /\ run[r].tgt \in State
  BY <1>1, Here, Typed, GetFields
<1>3. CallJustified(r) /\ run[r].tgt \in Direct[state[At(r)]]
  BY <1>0, <1>1 DEF IndInv
<1>4. state[At(r)] \notin Terminal
  BY <1>2, <1>3, Typed DEF Direct, Terminal, Recovery, Active, State
<1>5. run' \in [Runner -> RunState] /\ \A q \in Runner \ {r} : run'[q] = run[q]
  BY <1>1, Typed, GetFields, SetFields
<1>6. TypeOK'
  <2>1. LifecycleTypeOK'
    BY <1>0, <1>2, Typed DEF LifecycleTypeOK, StageAfter, WorkStage
  <2> QED BY <1>0, <1>5, <2>1 DEF IndInv, TypeOK, LeaseTypeOK, leases, statusVars
<1>7. Grows
  BY <1>0, <1>4, Typed DEF Grows, statusVars
<1>8. StoreInv'
  <2>1. StageHasCheckpoint'
    BY <1>0, <1>1, <1>2, <1>3, <1>4, Typed
       DEF IndInv, StoreInv, StageHasCheckpoint, StageAfter, statusVars
  <2>2. OutcomeHasCheckpoint'
    BY <1>0 DEF IndInv, StoreInv, OutcomeHasCheckpoint, statusVars
  <2>3. VerdictHasOutcome'
    BY <1>0, <1>1, <1>2, <1>3, Typed
       DEF IndInv, StoreInv, VerdictHasOutcome, statusVars, Verdicts
  <2>4. CompletedIsTerminal'
    BY <1>0, <1>4, <1>7, Typed DEF IndInv, StoreInv, CompletedIsTerminal, leases,
       Grows, TypeOK, LeaseTypeOK
  <2> QED BY <2>1, <2>2, <2>3, <2>4 DEF StoreInv
<1>9. RunInv(r)'
  <2>1. /\ run'[r].pc = run[r].back /\ run'[r].back = run[r].back /\ run'[r].mode = run[r].mode
        /\ run'[r].at = run[r].at /\ run'[r].seen = run[r].seen /\ run'[r].ckpt = run[r].ckpt
        /\ run'[r].work = run[r].work /\ run'[r].result = run[r].result
        /\ run'[r].tgt = run[r].tgt /\ run'[r].exp = run[r].exp
    BY <1>1, Typed DEF RunState
  <2>2. RunInv(r) /\ checkpoint' = checkpoint /\ outcome' = outcome
    BY <1>0 DEF IndInv, statusVars
  <2> QED BY <1>1, <1>2, <1>3, <1>4, <2>1, <2>2
<1> QED BY <1>5, <1>6, <1>7, <1>8, <1>9, StepKeeps

\* run() starts with fresh locals.
LEMMA StartKeeps ==
  ASSUME IndInv, NEW r \in Runner, Start(r)
  PROVE  IndInv' /\ Grows
<1>1. run' \in [Runner -> RunState]
  BY Typed, SetFields, Names, IdleOK DEF Start
<1>2. \A q \in Runner \ {r} : run'[q] = run[q]
  BY Typed DEF Start
<1>3. RunInv(r)'
  BY IdleOK, Outcomes DEF Start, IndInv, TypeOK, RunState, store, Idle
<1> QED BY <1>1, <1>2, <1>3, LocalStep DEF Start

\* The first loop takes the status of a candidate.
LEMMA ScanStatusKeeps ==
  ASSUME IndInv, NEW r \in Runner, ScanStatus(r)
  PROVE  IndInv' /\ Grows
<1>1. run' \in [Runner -> RunState]
  <2>1. PICK c \in run[r].todo :
          run' = [run EXCEPT ![r].pc = "scan_state", ![r].at = c, ![r].seen = outcome[c],
                             ![r].todo = @ \ {c}]
    BY DEF ScanStatus
  <2>2. /\ c \in Candidate /\ outcome[c] \in Outcome
        /\ run[r].todo \ {c} \in SUBSET Candidate
    BY Typed, GetFields
  <2> QED BY <2>1, <2>2, Typed, SetFields, Names
<1>2. \A q \in Runner \ {r} : run'[q] = run[q]
  BY Typed DEF ScanStatus
<1>3. RunInv(r)'
  BY DEF ScanStatus, IndInv, TypeOK, RunState, store
<1> QED BY <1>1, <1>2, <1>3, LocalStep DEF ScanStatus

\* The first loop sorts a candidate by its outcome and its state.
LEMMA ScanStateKeeps ==
  ASSUME IndInv, NEW r \in Runner, ScanState(r)
  PROVE  IndInv' /\ Grows
<1>1. run' \in [Runner -> RunState]
  BY Typed, SetFields, Names, GetFields DEF ScanState
<1>2. \A q \in Runner \ {r} : run'[q] = run[q]
  BY Typed DEF ScanState
<1>3. RunInv(r)'
  BY DEF ScanState, IndInv, TypeOK, RunState, store
<1> QED BY <1>1, <1>2, <1>3, LocalStep DEF ScanState

\* The first loop ends.
LEMMA ScanDoneKeeps ==
  ASSUME IndInv, NEW r \in Runner, ScanDone(r)
  PROVE  IndInv' /\ Grows
<1>1. run' \in [Runner -> RunState]
  BY Typed, SetFields, Names, IdleOK, GetFields DEF ScanDone
<1>2. \A q \in Runner \ {r} : run'[q] = run[q]
  BY Typed DEF ScanDone
<1>3. RunInv(r)'
  BY IdleOK, Outcomes DEF ScanDone, IndInv, TypeOK, RunState, store, Idle
<1> QED BY <1>1, <1>2, <1>3, LocalStep DEF ScanDone

\* _reconcile_terminal: the first comparison of outcome and log.
LEMMA ReconcileKeeps ==
  ASSUME IndInv, NEW r \in Runner, Reconcile(r), ~Raise(r)
  PROVE  IndInv' /\ Grows
<1>1. run' \in [Runner -> RunState]
  BY Typed, SetFields, Names, Here DEF Reconcile, Reconciled
<1>2. \A q \in Runner \ {r} : run'[q] = run[q]
  BY Typed DEF Reconcile
<1>3. RunInv(r)'
  BY DEF Reconcile, IndInv, TypeOK, RunState, store, Reconciled
<1> QED BY <1>1, <1>2, <1>3, LocalStep DEF Reconcile

\* _reconcile_terminal: the loop reads the state again.
LEMMA ReconcileReadKeeps ==
  ASSUME IndInv, NEW r \in Runner, ReconcileRead(r)
  PROVE  IndInv' /\ Grows
<1>1. run' \in [Runner -> RunState]
  BY Typed, SetFields, Names, Here DEF ReconcileRead
<1>2. \A q \in Runner \ {r} : run'[q] = run[q]
  BY Typed DEF ReconcileRead
<1>3. RunInv(r)'
  BY DEF ReconcileRead, IndInv, TypeOK, RunState, store
<1> QED BY <1>1, <1>2, <1>3, LocalStep DEF ReconcileRead

\* _reconcile_terminal: the target is the persisted outcome, or a stage on the
\* way to a success, whose checkpoint is persisted.
LEMMA ReconcileStepKeeps ==
  ASSUME IndInv, NEW r \in Runner, ReconcileStep(r), ~Raise(r)
  PROVE  IndInv' /\ Grows
<1>0. run[r].pc = "reconcile_step"
  BY DEF ReconcileStep
<1>1. RunInv(r) /\ At(r) \in Candidate /\ Concluded(run[r].seen)
      /\ outcome[At(r)] = run[r].seen /\ Kind(run[r].seen) \in Terminal
  BY <1>0, Typed, GetFields, Outcomes DEF IndInv
<1>2. CASE \E t \in State, b \in Reconciles \cup {Reconciled(r)} :
             /\ Call(r, t, b)
             /\ t = "evaluating" => Kind(run[r].seen) = "succeeded"
             /\ t \in Verdicts => t = Kind(run[r].seen)
  <2>1. PICK t \in State, b \in Reconciles \cup {Reconciled(r)} :
             /\ run' = [run EXCEPT ![r].pc = "validate", ![r].tgt = t, ![r].back = b]
             /\ t = "evaluating" => Kind(run[r].seen) = "succeeded"
             /\ t \in Verdicts => t = Kind(run[r].seen)
    BY <1>2
  <2>2. b \in Label
    BY Names DEF Reconciled
  <2>3. run' \in [Runner -> RunState] /\ \A q \in Runner \ {r} : run'[q] = run[q]
    BY <2>1, <2>2, Typed, SetFields, Names
  <2>4. t = "evaluating" => checkpoint[At(r)] # NoCheckpoint
    BY <1>1, <2>1 DEF IndInv, StoreInv, OutcomeHasCheckpoint, Verdicts
  <2>5. RunInv(r)'
    BY <1>0, <1>1, <2>1, <2>4, Typed DEF ReconcileStep, store, RunState, Reconciled
  <2> QED BY <2>3, <2>5, LocalStep DEF ReconcileStep
<1>3. CASE run' = [run EXCEPT ![r].pc = "plan", ![r].back = "reconcile_read"]
  <2>1. run' \in [Runner -> RunState] /\ \A q \in Runner \ {r} : run'[q] = run[q]
    BY <1>3, Typed, SetFields, Names
  <2>2. RunInv(r)'
    BY <1>0, <1>1, <1>3, Typed DEF ReconcileStep, store, RunState
  <2> QED BY <2>1, <2>2, LocalStep DEF ReconcileStep
<1>4. (Call(r, "planned", "reconcile_step") \/ Call(r, Kind(run[r].seen), Reconciled(r))
       \/ (Kind(run[r].seen) = "succeeded" /\ Call(r, "running", "reconcile_read"))
       \/ (Kind(run[r].seen) = "succeeded" /\ Call(r, "evaluating", "reconcile_read")))
      => \E t \in State, b \in Reconciles \cup {Reconciled(r)} :
             /\ Call(r, t, b)
             /\ t = "evaluating" => Kind(run[r].seen) = "succeeded"
             /\ t \in Verdicts => t = Kind(run[r].seen)
  <2> HIDE DEF Call
  <2> QED BY <1>1, Names DEF Verdicts, Terminal
<1> QED BY <1>2, <1>3, <1>4 DEF ReconcileStep

\* A claim takes a lease that is not completed.
LEMMA ClaimCandidateKeeps ==
  ASSUME IndInv, NEW r \in Runner, ClaimCandidate(r)
  PROVE  IndInv' /\ Grows
<1>0. run[r].pc = "claim" /\ UNCHANGED <<lifecycleVars, statusVars>>
  BY DEF ClaimCandidate
<1>1. PICK c \in run[r].todo :
        \/ /\ Claim(r, c)
           /\ run' = [run EXCEPT ![r].pc = "status", ![r].mode = "work", ![r].at = c,
                                 ![r].todo = @ \ {c}]
        \/ run' = [run EXCEPT ![r].todo = @ \ {c}] /\ UNCHANGED leases
  BY DEF ClaimCandidate
<1>2. c \in Candidate /\ run[r].todo \ {c} \in SUBSET Candidate
  BY Typed, GetFields
<1>3. LeaseTypeOK' /\ completed' = completed
  BY <1>1, <1>2 DEF IndInv, TypeOK, LeaseTypeOK, Claim, leases
<1>4. CompletedIsTerminal'
  BY <1>0, <1>3 DEF IndInv, StoreInv, CompletedIsTerminal, lifecycleVars
<1>5. run' \in [Runner -> RunState] /\ \A q \in Runner \ {r} : run'[q] = run[q]
  <2>1. CASE run' = [run EXCEPT ![r].pc = "status", ![r].mode = "work", ![r].at = c,
                                ![r].todo = @ \ {c}]
    BY <1>2, <2>1, Typed, SetFields, Names
  <2>2. CASE run' = [run EXCEPT ![r].todo = @ \ {c}]
    BY <1>2, <2>2, Typed, SetFields
  <2> QED BY <1>1, <2>1, <2>2
<1>6. RunInv(r)'
  BY <1>0, <1>1, <1>2, Typed, Outcomes DEF IndInv, RunState
<1> QED BY <1>0, <1>3, <1>4, <1>5, <1>6, LeaseStep

\* The second loop ends.
LEMMA RunDoneKeeps ==
  ASSUME IndInv, NEW r \in Runner, RunDone(r)
  PROVE  IndInv' /\ Grows
<1>1. run' \in [Runner -> RunState]
  BY Typed, SetFields, Names, IdleOK DEF RunDone
<1>2. \A q \in Runner \ {r} : run'[q] = run[q]
  BY Typed DEF RunDone
<1>3. RunInv(r)'
  BY IdleOK, Outcomes DEF RunDone, IndInv, TypeOK, RunState, store, Idle
<1> QED BY <1>1, <1>2, <1>3, LocalStep DEF RunDone

\* _resume_state reads outcome and checkpoint, which only grow from then on.
LEMMA ReadStatusKeeps ==
  ASSUME IndInv, NEW r \in Runner, ReadStatus(r)
  PROVE  IndInv' /\ Grows
<1>1. run' \in [Runner -> RunState]
  BY Typed, SetFields, Names, Here DEF ReadStatus
<1>2. \A q \in Runner \ {r} : run'[q] = run[q]
  BY Typed DEF ReadStatus
<1>3. RunInv(r)'
  BY DEF ReadStatus, IndInv, TypeOK, RunState, store
<1> QED BY <1>1, <1>2, <1>3, LocalStep DEF ReadStatus

\* _resume_state reads the state.
LEMMA ResumeKeeps ==
  ASSUME IndInv, NEW r \in Runner, Resume(r)
  PROVE  IndInv' /\ Grows
<1>1. run' \in [Runner -> RunState]
  BY Typed, SetFields, Names, Here DEF Resume
<1>2. \A q \in Runner \ {r} : run'[q] = run[q]
  BY Typed DEF Resume
<1>3. RunInv(r)'
  BY DEF Resume, IndInv, TypeOK, RunState, store
<1> QED BY <1>1, <1>2, <1>3, LocalStep DEF Resume

\* _resume_state and _run_candidate: evaluating is entered with a checkpoint.
LEMMA DecideKeeps ==
  ASSUME IndInv, NEW r \in Runner, Decide(r)
  PROVE  IndInv' /\ Grows
<1>1. run' \in [Runner -> RunState]
  BY Typed, SetFields, Names DEF Decide
<1>2. \A q \in Runner \ {r} : run'[q] = run[q]
  BY Typed DEF Decide
<1>3. RunInv(r)'
  BY DEF Decide, IndInv, TypeOK, RunState, store, HasCheckpoint, Verdicts
<1> QED BY <1>1, <1>2, <1>3, LocalStep DEF Decide

\* The evaluation starts over the persisted checkpoint.
LEMMA LoadKeeps ==
  ASSUME IndInv, NEW r \in Runner, Load(r), ~Raise(r)
  PROVE  IndInv' /\ Grows
<1>1. run' \in [Runner -> RunState]
  BY Typed, SetFields, Names, Here DEF Load
<1>2. \A q \in Runner \ {r} : run'[q] = run[q]
  BY Typed DEF Load
<1>3. RunInv(r)'
  BY DEF Load, IndInv, TypeOK, RunState, store, WorkStage
<1> QED BY <1>1, <1>2, <1>3, LocalStep DEF Load

\* run_with_oom_recovery starts in the state of its stage.
LEMMA EnterKeeps ==
  ASSUME IndInv, NEW r \in Runner, Enter(r), ~Raise(r)
  PROVE  IndInv' /\ Grows
<1>1. run' \in [Runner -> RunState]
  BY Typed, SetFields, Names, CampaignAssumption DEF Enter
<1>2. \A q \in Runner \ {r} : run'[q] = run[q]
  BY Typed DEF Enter
<1>3. RunInv(r)'
  BY DEF Enter, IndInv, TypeOK, RunState, store
<1> QED BY <1>1, <1>2, <1>3, LocalStep DEF Enter

\* Each attempt heartbeats the lease, which changes no lease's owner.
LEMMA AttemptKeeps ==
  ASSUME IndInv, NEW r \in Runner, Attempt(r)
  PROVE  IndInv' /\ Grows
<1>0. PICK l \in {"operate", "finally"} : run' = [run EXCEPT ![r].pc = l]
  BY DEF Attempt
<1>1. run[r].pc = "attempt" /\ UNCHANGED store
  BY DEF Attempt, Heartbeat, store, leases, lifecycleVars, statusVars
<1>2. run' \in [Runner -> RunState] /\ \A q \in Runner \ {r} : run'[q] = run[q]
  BY <1>0, Typed, SetFields, Names
<1>3. RunInv(r)'
  BY <1>0, <1>1, Typed DEF IndInv, RunState, store
<1> QED BY <1>1, <1>2, <1>3, LocalStep

\* The worker returns what its stage may return.
LEMMA OperateKeeps ==
  ASSUME IndInv, NEW r \in Runner, Operate(r)
  PROVE  IndInv' /\ Grows
<1>1. run' \in [Runner -> RunState]
  BY Typed, SetFields, Names, Outcomes DEF Operate
<1>2. \A q \in Runner \ {r} : run'[q] = run[q]
  BY Typed DEF Operate
<1>3. RunInv(r)'
  BY Outcomes, CampaignAssumption DEF Operate, IndInv, TypeOK, RunState, store,
     Verdicts
<1> QED BY <1>1, <1>2, <1>3, LocalStep DEF Operate

\* A retry enters the stage it left, and the counter stays within the budget.
LEMMA RetryKeeps ==
  ASSUME IndInv, NEW r \in Runner, Retry(r)
  PROVE  IndInv' /\ Grows
<1>0. run[r].pc = "oom" /\ RetryAllowed(r) /\ UNCHANGED store
  BY DEF Retry, Heartbeat, store, leases, lifecycleVars, statusVars
<1>1. CASE run' = [run EXCEPT ![r].pc = "validate", ![r].tgt = ActiveState(run[r].work),
                              ![r].back = "attempt", ![r].ooms = @ + 1]
  <2>1. run[r].ooms + 1 \in 0..RetryBudget
    BY <1>0, Typed, GetFields, CampaignAssumption DEF RetryAllowed
  <2>2. run' \in [Runner -> RunState] /\ \A q \in Runner \ {r} : run'[q] = run[q]
    BY <1>1, <2>1, Typed, SetFields, Names
  <2>3. RunInv(r)'
    BY <1>0, <1>1, Typed DEF IndInv, RunState, store, ActiveState, WorkStage, Verdicts
  <2> QED BY <1>0, <2>2, <2>3, LocalStep
<1>2. CASE run' = [run EXCEPT ![r].pc = "finally"]
  <2>2. run' \in [Runner -> RunState] /\ \A q \in Runner \ {r} : run'[q] = run[q]
    BY <1>2, Typed, SetFields, Names
  <2>3. RunInv(r)'
    BY <1>0, <1>2, Typed DEF IndInv, RunState, store
  <2> QED BY <1>0, <2>2, <2>3, LocalStep
<1> QED BY <1>1, <1>2 DEF Retry

\* Exhaustion fails the candidate and prepares the failed outcome.
LEMMA ExhaustKeeps ==
  ASSUME IndInv, NEW r \in Runner, Exhaust(r)
  PROVE  IndInv' /\ Grows
<1>1. run' \in [Runner -> RunState]
  BY Typed, SetFields, Names, GetFields, Outcomes DEF Exhaust, Cause
<1>2. \A q \in Runner \ {r} : run'[q] = run[q]
  BY Typed DEF Exhaust
<1>3. RunInv(r)'
  BY Outcomes DEF Exhaust, IndInv, TypeOK, RunState, store, Cause, Verdicts
<1> QED BY <1>1, <1>2, <1>3, LocalStep DEF Exhaust

\* persist_campaign_checkpoint: the evaluation is entered after the checkpoint
\* is persisted.
LEMMA SaveCheckpointKeeps ==
  ASSUME IndInv, NEW r \in Runner, SaveCheckpoint(r),
         checkpoint[At(r)] \in {NoCheckpoint, run[r].ckpt}
  PROVE  IndInv' /\ Grows
<1> DEFINE c == At(r)
           k == run[r].ckpt
<1>0. /\ run[r].pc = "save_checkpoint"
      /\ checkpoint[c] \in {NoCheckpoint, k}
      /\ checkpoint' = [checkpoint EXCEPT ![c] = k]
      /\ run' = [run EXCEPT ![r].pc = "validate", ![r].tgt = "evaluating", ![r].back = "load"]
      /\ UNCHANGED <<lifecycleVars, leases, outcome>>
  BY DEF SaveCheckpoint, PersistCheckpoint
<1>1. c \in Candidate /\ k \in Checkpoint \cup {NoCheckpoint} /\ k # NoCheckpoint
  BY <1>0, Here, Typed, GetFields DEF IndInv
<1>2. run' \in [Runner -> RunState] /\ \A q \in Runner \ {r} : run'[q] = run[q]
  BY <1>0, Typed, SetFields, Names
<1>3. Grows
  BY <1>0, <1>1, Typed DEF Grows, lifecycleVars
<1>4. TypeOK'
  BY <1>0, <1>1, <1>2 DEF IndInv, TypeOK, LifecycleTypeOK, LeaseTypeOK,
     lifecycleVars, leases
<1>5. StoreInv'
  BY <1>0, <1>1, <1>3 DEF IndInv, TypeOK, StoreInv, StageHasCheckpoint,
     OutcomeHasCheckpoint, VerdictHasOutcome, CompletedIsTerminal, lifecycleVars,
     leases
<1>6. checkpoint'[c] # NoCheckpoint /\ outcome' = outcome
  BY <1>0, <1>1, Typed
<1>7. RunInv(r)'
  BY <1>0, <1>1, <1>6, Typed
     DEF IndInv, RunState, Verdicts
<1> QED BY <1>2, <1>3, <1>4, <1>5, <1>7, StepKeeps

\* persist_campaign_outcome writes an outcome once, and no verdict without a
\* checkpoint.
LEMMA PersistKeeps ==
  ASSUME IndInv, NEW r \in Runner, NEW o \in Outcome, o # Pending, At(r) \in Candidate,
         Persistable(At(r), o), Persist(At(r), o),
         Kind(o) \in Verdicts => checkpoint[At(r)] # NoCheckpoint,
         UNCHANGED <<lifecycleVars, leases, checkpoint>>,
         run' \in [Runner -> RunState]
  PROVE  TypeOK' /\ StoreInv' /\ Grows /\ outcome' = [outcome EXCEPT ![At(r)] = o]
<1>1. outcome' = [outcome EXCEPT ![At(r)] = o] /\ outcome[At(r)] \in {Pending, o}
  BY DEF Persist, Persistable
<1>2. TypeOK'
  BY <1>1 DEF IndInv, TypeOK, LifecycleTypeOK, LeaseTypeOK, lifecycleVars, leases
<1>3. Grows
  BY <1>1, Typed DEF Grows, lifecycleVars
<1>4. StageHasCheckpoint' /\ CompletedIsTerminal'
  BY DEF IndInv, StoreInv, StageHasCheckpoint, CompletedIsTerminal, lifecycleVars,
     leases
<1>5. OutcomeHasCheckpoint'
  BY <1>1, Typed DEF IndInv, StoreInv, OutcomeHasCheckpoint
<1>6. VerdictHasOutcome'
  <2>1. Kind(Pending) \notin Verdicts
    BY DEF Kind, Pending, Verdicts
  <2> QED BY <1>1, <2>1, Typed DEF IndInv, StoreInv, VerdictHasOutcome,
     lifecycleVars, Verdicts
<1> QED BY <1>1, <1>2, <1>3, <1>4, <1>5, <1>6 DEF StoreInv

\* The finally clause relies on nothing but on what it reads.
LEMMA FinallyHolds ==
  ASSUME IndInv, NEW r \in Runner, At(r) \in Candidate, Grows,
         run' = [run EXCEPT ![r].pc = "finally"],
         run[r].mode = "work" => UNCHANGED checkpoint
  PROVE  RunInv(r)'
<1>1. /\ run'[r].pc = "finally" /\ run'[r].mode = run[r].mode /\ run'[r].at = run[r].at
      /\ run'[r].seen = run[r].seen /\ run'[r].work = run[r].work
  BY Typed DEF RunState
<1>2. Concluded(run[r].seen) => outcome'[At(r)] = run[r].seen
  BY Typed, GetFields, Outcomes DEF Grows, IndInv
<1> QED BY <1>1, <1>2 DEF IndInv

\* The verdict reaches the log after the outcome that carries it.
LEMMA SaveOutcomeKeeps ==
  ASSUME IndInv, NEW r \in Runner, SaveOutcome(r),
         Persistable(At(r), run[r].result)
  PROVE  IndInv' /\ Grows
<1> DEFINE o == run[r].result
<1>0. /\ run[r].pc = "save_outcome"
      /\ Persistable(At(r), o) /\ Persist(At(r), o)
      /\ run' = [run EXCEPT ![r].pc = "validate", ![r].tgt = Kind(o), ![r].back = "finally"]
      /\ UNCHANGED <<lifecycleVars, leases, checkpoint>>
  BY DEF SaveOutcome
<1>1. /\ At(r) \in Candidate /\ o \in Outcome /\ Kind(o) \in Verdicts
      /\ checkpoint[At(r)] # NoCheckpoint
  BY <1>0, Here, Typed, GetFields DEF IndInv
<1>2. o # Pending /\ Kind(o) \in State
  BY <1>1, Names DEF Kind, Pending, Verdicts, Terminal
<1>3. run' \in [Runner -> RunState] /\ \A q \in Runner \ {r} : run'[q] = run[q]
  BY <1>0, <1>2, Typed, SetFields, Names
<1>4. TypeOK' /\ StoreInv' /\ Grows /\ outcome' = [outcome EXCEPT ![At(r)] = o]
  BY <1>0, <1>1, <1>2, <1>3, PersistKeeps
<1>5. RunInv(r)'
  <2>1. /\ checkpoint' = checkpoint /\ outcome'[At(r)] = o
        /\ outcome[At(r)] # Pending => outcome'[At(r)] = outcome[At(r)]
    BY <1>0, <1>1, <1>4, Typed DEF Grows
  <2>2. /\ run'[r].pc = "validate" /\ run'[r].tgt = Kind(o) /\ run'[r].back = "finally"
        /\ run'[r].mode = run[r].mode /\ run'[r].at = run[r].at /\ run'[r].seen = run[r].seen
        /\ run'[r].ckpt = run[r].ckpt /\ run'[r].work = run[r].work
    BY <1>0, Typed DEF RunState
  <2>3. Concluded(run[r].seen) => outcome'[At(r)] = run[r].seen
    BY <1>1, <2>1, Outcomes DEF IndInv
  <2>4. Kind(o) # "evaluating"
    BY <1>1 DEF Verdicts
  <2> QED BY <1>0, <1>1, <2>1, <2>2, <2>3, <2>4 DEF IndInv
<1> QED BY <1>3, <1>4, <1>5, StepKeeps

\* The outcome of an exhausted stage is a failure.
LEMMA SaveExhaustedKeeps ==
  ASSUME IndInv, NEW r \in Runner, SaveExhausted(r),
         Persistable(At(r), run[r].result)
  PROVE  IndInv' /\ Grows
<1> DEFINE o == run[r].result
<1>0. /\ run[r].pc = "exhausted"
      /\ Persistable(At(r), o) /\ Persist(At(r), o)
      /\ run' = [run EXCEPT ![r].pc = "finally"]
      /\ UNCHANGED <<lifecycleVars, leases, checkpoint>>
  BY DEF SaveExhausted
<1>1. At(r) \in Candidate /\ o \in Outcome /\ Kind(o) = "failed"
  BY <1>0, Here, Typed, GetFields DEF IndInv
<1>2. o # Pending /\ Kind(o) \notin Verdicts
  BY <1>1 DEF Kind, Pending, Verdicts
<1>3. run' \in [Runner -> RunState] /\ \A q \in Runner \ {r} : run'[q] = run[q]
  BY <1>0, Typed, SetFields, Names
<1>4. TypeOK' /\ StoreInv' /\ Grows
  BY <1>0, <1>1, <1>2, <1>3, PersistKeeps
<1>5. RunInv(r)'
  BY <1>0, <1>1, <1>4, FinallyHolds
<1> QED BY <1>3, <1>4, <1>5, StepKeeps

\* The except clause fails the candidate unless it has ended.
LEMMA ExceptStateKeeps ==
  ASSUME IndInv, NEW r \in Runner, ExceptState(r)
  PROVE  IndInv' /\ Grows
<1>1. run' \in [Runner -> RunState]
  <2>1. PICK l \in Label :
          run' = [run EXCEPT ![r].mode = "except", ![r].pc = l, ![r].tgt = "failed",
                             ![r].back = "except_outcome"]
    BY Names DEF ExceptState
  <2> QED BY <2>1, Typed, SetFields, Names
<1>2. \A q \in Runner \ {r} : run'[q] = run[q]
  BY Typed DEF ExceptState
<1>3. RunInv(r)'
  BY DEF ExceptState, IndInv, TypeOK, RunState, store, Verdicts
<1> QED BY <1>1, <1>2, <1>3, LocalStep DEF ExceptState

\* The except clause persists a failure unless an outcome is there.
LEMMA ExceptOutcomeKeeps ==
  ASSUME IndInv, NEW r \in Runner, ExceptOutcome(r)
  PROVE  IndInv' /\ Grows
<1> DEFINE o == FailedBy("error")
<1>0. /\ run[r].pc = "except_outcome"
      /\ run' = [run EXCEPT ![r].pc = "finally"]
      /\ UNCHANGED <<lifecycleVars, leases, checkpoint>>
      /\ IF Persistable(At(r), o) THEN Persist(At(r), o) ELSE UNCHANGED outcome
  BY DEF ExceptOutcome
<1>1. At(r) \in Candidate
  BY <1>0, Here
<1>2. o \in Outcome /\ o # Pending /\ Kind(o) \notin Verdicts
  BY Outcomes DEF Cause, Verdicts
<1>3. run' \in [Runner -> RunState] /\ \A q \in Runner \ {r} : run'[q] = run[q]
  BY <1>0, Typed, SetFields, Names
<1>4. CASE Persistable(At(r), o)
  <2>1. TypeOK' /\ StoreInv' /\ Grows
    BY <1>0, <1>1, <1>2, <1>3, <1>4, PersistKeeps
  <2>2. RunInv(r)'
    BY <1>0, <1>1, <2>1, FinallyHolds
  <2> QED BY <1>3, <2>1, <2>2, StepKeeps
<1>5. CASE ~Persistable(At(r), o)
  <2>1. UNCHANGED store
    BY <1>0, <1>5 DEF store, lifecycleVars, leases
  <2>2. Grows
    BY <2>1 DEF store, Grows
  <2>3. RunInv(r)'
    BY <1>0, <1>1, <2>2, FinallyHolds
  <2> QED BY <1>3, <2>1, <2>3, LocalStep
<1> QED BY <1>4, <1>5

\* The lease is completed for a terminal candidate only.
LEMMA FinallyKeeps ==
  ASSUME IndInv, NEW r \in Runner, Finally(r)
  PROVE  IndInv' /\ Grows
<1>0. /\ run[r].pc \in {"finally", "unwind"}
      /\ UNCHANGED <<lifecycleVars, statusVars>>
      /\ \/ Finished(At(r)) /\ Complete(r, At(r))
         \/ UNCHANGED leases
  BY DEF Finally
<1>1. At(r) \in Candidate
  BY <1>0, Here
<1>2. \/ run' = [run EXCEPT ![r] = Idle]
      \/ run' = [run EXCEPT ![r] = [Idle EXCEPT !.pc = "claim", !.todo = run[r].todo]]
  BY DEF Finally
<1>3. LeaseTypeOK'
  BY <1>0, <1>1 DEF IndInv, TypeOK, LeaseTypeOK, Complete, leases
<1>4. CompletedIsTerminal'
  BY <1>0, <1>1 DEF IndInv, StoreInv, CompletedIsTerminal, Complete, Finished,
     leases, lifecycleVars
<1>5. CASE run' = [run EXCEPT ![r] = Idle]
  <2>1. run' \in [Runner -> RunState] /\ \A q \in Runner \ {r} : run'[q] = run[q]
    BY <1>5, Typed, IdleOK
  <2>2. run'[r].pc = "down" /\ run'[r].mode = "scan" /\ run'[r].seen = Pending
    BY <1>5, Typed DEF Idle
  <2>3. RunInv(r)'
    BY <2>2, Outcomes
  <2> QED BY <1>0, <1>3, <1>4, <2>1, <2>3, LeaseStep
<1>6. CASE run' = [run EXCEPT ![r] = [Idle EXCEPT !.pc = "claim", !.todo = run[r].todo]]
  <2>1. run' \in [Runner -> RunState] /\ \A q \in Runner \ {r} : run'[q] = run[q]
    BY <1>6, Typed, GetFields, IdleOK, SetFields, Names
  <2>2. /\ run'[r].pc = "claim" /\ run'[r].mode = "scan" /\ run'[r].work = "mutation"
        /\ run'[r].seen = Pending /\ run'[r].ckpt = NoCheckpoint
    BY <1>6, Typed DEF Idle
  <2>3. RunInv(r)'
    BY <2>2, Outcomes
  <2> QED BY <1>0, <1>3, <1>4, <2>1, <2>3, LeaseStep
<1> QED BY <1>2, <1>5, <1>6

\* A crash forgets the locals.
LEMMA CrashKeeps ==
  ASSUME IndInv, NEW r \in Runner, Crash(r)
  PROVE  IndInv' /\ Grows
<1>1. run' \in [Runner -> RunState]
  BY Typed, SetFields, Names, IdleOK DEF Crash
<1>2. \A q \in Runner \ {r} : run'[q] = run[q]
  BY Typed DEF Crash
<1>3. RunInv(r)'
  BY IdleOK, Outcomes DEF Crash, IndInv, TypeOK, RunState, store, Idle
<1> QED BY <1>1, <1>2, <1>3, LocalStep DEF Crash

\* An interrupt leaves through the finally clause.
LEMMA InterruptKeeps ==
  ASSUME IndInv, NEW r \in Runner, Interrupt(r)
  PROVE  IndInv' /\ Grows
<1>1. run' \in [Runner -> RunState]
  BY Typed, SetFields, Names DEF Interrupt
<1>2. \A q \in Runner \ {r} : run'[q] = run[q]
  BY Typed DEF Interrupt
<1>3. RunInv(r)'
  BY DEF Interrupt, IndInv, TypeOK, RunState, store
<1> QED BY <1>1, <1>2, <1>3, LocalStep DEF Interrupt

\* A failed transaction changes nothing in the store.
LEMMA StoreFailsKeeps ==
  ASSUME IndInv, NEW r \in Runner, StoreFails(r)
  PROVE  IndInv' /\ Grows
<1>1. run' \in [Runner -> RunState]
  BY Typed, SetFields, Names, IdleOK DEF StoreFails
<1>2. \A q \in Runner \ {r} : run'[q] = run[q]
  BY Typed DEF StoreFails
<1>3. RunInv(r)'
  BY IdleOK, Outcomes DEF StoreFails, IndInv, TypeOK, RunState, store, Idle
<1> QED BY <1>1, <1>2, <1>3, LocalStep DEF StoreFails

\* The expiry of a lease.
LEMMA ExpireLeaseKeeps ==
  ASSUME IndInv, NEW c \in Candidate, ExpireLease(c)
  PROVE  IndInv' /\ Grows
<1>1. UNCHANGED <<state, stage, completed, owner, checkpoint, outcome, run>> /\ live' = live \ {c}
  BY DEF ExpireLease, Expire, lifecycleVars, statusVars
<1>2. TypeOK'
  BY <1>1 DEF IndInv, TypeOK, LifecycleTypeOK, LeaseTypeOK
<1>3. StoreInv'
  BY <1>1 DEF IndInv, StoreInv, StageHasCheckpoint, OutcomeHasCheckpoint,
     VerdictHasOutcome, CompletedIsTerminal
<1>5. Grows
  BY <1>1 DEF Grows
<1>4. ASSUME NEW q \in Runner PROVE RunInv(q)'
  BY <1>1, <1>2, <1>5, OthersHold DEF IndInv
<1> QED BY <1>2, <1>3, <1>4, <1>5 DEF IndInv

-----------------------------------------------------------------------------
\* Every step.
\* Whichever step is taken, the invariant is kept and the store only grows.
LEMMA NextKeeps ==
  ASSUME IndInv, [Next]_vars
  PROVE  IndInv' /\ Grows
<1>1. ASSUME NEW r \in Runner, Transition(r) PROVE IndInv' /\ Grows
  <2>1. CASE Validate(r)
    BY <2>1, ValidateKeeps, RaiseKeeps DEF Validate
  <2>2. CASE Append(r)
    <3>1. CASE StillExpected(r)
      BY <2>2, <3>1, AppendKeeps
    <3>2. CASE ~StillExpected(r)
      BY <2>2, <3>2, RaiseKeeps
         DEF Append, store, lifecycleVars, leases, statusVars
    <3> QED BY <3>1, <3>2
  <2>3. CASE Plan(r)
    BY <2>3, PlanKeeps
  <2> QED BY <1>1, <2>1, <2>2, <2>3 DEF Transition
<1>2. ASSUME NEW r \in Runner, FirstLoop(r) PROVE IndInv' /\ Grows
  BY <1>2, StartKeeps, ScanStatusKeeps, ScanStateKeeps, ScanDoneKeeps DEF FirstLoop
<1>3. ASSUME NEW r \in Runner, Reconciling(r) PROVE IndInv' /\ Grows
  <2>1. CASE Reconcile(r)
    BY <2>1, ReconcileKeeps, RaiseKeeps DEF Reconcile
  <2>2. CASE ReconcileRead(r)
    BY <2>2, ReconcileReadKeeps
  <2>3. CASE ReconcileStep(r)
    BY <2>3, ReconcileStepKeeps, RaiseKeeps DEF ReconcileStep
  <2> QED BY <1>3, <2>1, <2>2, <2>3 DEF Reconciling
<1>4. ASSUME NEW r \in Runner, SecondLoop(r) PROVE IndInv' /\ Grows
  <2>1. CASE Load(r)
    BY <2>1, LoadKeeps, RaiseKeeps DEF Load
  <2> QED BY <1>4, <2>1, ClaimCandidateKeeps, RunDoneKeeps, ReadStatusKeeps, ResumeKeeps,
             DecideKeeps DEF SecondLoop
<1>5. ASSUME NEW r \in Runner, OomRecovery(r) PROVE IndInv' /\ Grows
  <2>1. CASE Enter(r)
    BY <2>1, EnterKeeps, RaiseKeeps DEF Enter
  <2> QED BY <1>5, <2>1, AttemptKeeps, OperateKeeps, RetryKeeps, ExhaustKeeps
          DEF OomRecovery
<1>6. ASSUME NEW r \in Runner, Saving(r) PROVE IndInv' /\ Grows
  <2>1. CASE SaveCheckpoint(r)
    <3>1. CASE checkpoint[At(r)] \in {NoCheckpoint, run[r].ckpt}
      BY <2>1, <3>1, SaveCheckpointKeeps
    <3>2. CASE checkpoint[At(r)] \notin {NoCheckpoint, run[r].ckpt}
      BY <2>1, <3>2, RaiseKeeps
         DEF SaveCheckpoint, store, lifecycleVars, leases
    <3> QED BY <3>1, <3>2
  <2>2. CASE SaveOutcome(r)
    <3>1. CASE Persistable(At(r), run[r].result)
      BY <2>2, <3>1, SaveOutcomeKeeps
    <3>2. CASE ~Persistable(At(r), run[r].result)
      BY <2>2, <3>2, RaiseKeeps
         DEF SaveOutcome, store, lifecycleVars, leases
    <3> QED BY <3>1, <3>2
  <2>3. CASE SaveExhausted(r)
    <3>1. CASE Persistable(At(r), run[r].result)
      BY <2>3, <3>1, SaveExhaustedKeeps
    <3>2. CASE ~Persistable(At(r), run[r].result)
      BY <2>3, <3>2, RaiseKeeps
         DEF SaveExhausted, store, lifecycleVars, leases
    <3> QED BY <3>1, <3>2
  <2> QED BY <1>6, <2>1, <2>2, <2>3 DEF Saving
<1>7. ASSUME NEW r \in Runner, Closing(r) PROVE IndInv' /\ Grows
  BY <1>7, ExceptStateKeeps, ExceptOutcomeKeeps, FinallyKeeps DEF Closing
<1>8. ASSUME NEW r \in Runner, Fault(r) PROVE IndInv' /\ Grows
  BY <1>8, CrashKeeps, InterruptKeeps, StoreFailsKeeps DEF Fault
<1>9. ASSUME NEW c \in Candidate, ExpireLease(c) PROVE IndInv' /\ Grows
  BY <1>9, ExpireLeaseKeeps
<1>10. ASSUME UNCHANGED vars PROVE IndInv' /\ Grows
  <2>1. UNCHANGED store /\ run' = run
    BY <1>10 DEF vars
  <2>2. TypeOK' /\ StoreInv' /\ Grows
    BY <2>1 DEF store, IndInv, TypeOK, LifecycleTypeOK, LeaseTypeOK, StoreInv, Grows,
       StageHasCheckpoint, OutcomeHasCheckpoint, VerdictHasOutcome, CompletedIsTerminal
  <2>3. ASSUME NEW q \in Runner PROVE RunInv(q)'
    BY <2>1, <2>2, OthersHold DEF IndInv
  <2> QED BY <2>2, <2>3 DEF IndInv
<1> QED
  BY <1>1, <1>2, <1>3, <1>4, <1>5, <1>6, <1>7, <1>8, <1>9, <1>10 DEF Next, Step
\* The invariant holds before any process has started.
LEMMA InitHolds ==
  ASSUME Init
  PROVE  IndInv
<1>1. \A r \in Runner : run[r] = Idle
  BY DEF Init
<1>2. LifecycleTypeOK
  BY DEF Init, LifecycleInit, LifecycleTypeOK, State, WorkStage
<1>3. TypeOK
  BY <1>2, Outcomes, IdleOK DEF Init, TypeOK, LeaseInit, LeaseTypeOK
<1>4. StoreInv
  BY Outcomes DEF Init, LifecycleInit, LeaseInit, StoreInv, StageHasCheckpoint,
     OutcomeHasCheckpoint, VerdictHasOutcome, CompletedIsTerminal, Kind, Pending, Verdicts
<1>5. ASSUME NEW r \in Runner PROVE RunInv(r)
  <2>1. /\ run[r].pc = "down" /\ run[r].mode = "scan" /\ run[r].seen = Pending
    BY <1>1 DEF Idle
  <2> QED BY <2>1, Outcomes
<1> QED BY <1>3, <1>4, <1>5 DEF IndInv
\* No step but Append touches the log, and Append follows the transition table.
LEMMA NextAdvances ==
  ASSUME IndInv, [Next]_vars
  PROVE  [LifecycleNext]_lifecycleVars
<1>1. ASSUME NEW r \in Runner, Append(r), StillExpected(r) PROVE LifecycleNext
  <2>1. run[r].pc = "append" /\ state[At(r)] = run[r].exp
    BY <1>1 DEF Append, StillExpected
  <2>2. At(r) \in Candidate /\ run[r].tgt \in State
    BY <2>1, Here, Typed, GetFields
  <2>3. run[r].tgt \in Direct[state[At(r)]]
    BY <2>1 DEF IndInv
  <2> QED BY <1>1, <2>2, <2>3 DEF Append, LifecycleNext, Advance
<1>2. ASSUME NEW r \in Runner, Append(r), ~StillExpected(r) PROVE UNCHANGED lifecycleVars
  BY <1>2 DEF Append
<1>3. ASSUME NEW r \in Runner, Validate(r) \/ Plan(r) PROVE UNCHANGED lifecycleVars
  BY <1>3 DEF Validate, Plan, store, lifecycleVars
<1>4. ASSUME NEW r \in Runner, FirstLoop(r) PROVE UNCHANGED lifecycleVars
  BY <1>4 DEF FirstLoop, Start, ScanStatus, ScanState, ScanDone, store, lifecycleVars
<1>5. ASSUME NEW r \in Runner, Reconciling(r) PROVE UNCHANGED lifecycleVars
  BY <1>5 DEF Reconciling, Reconcile, ReconcileRead, ReconcileStep, store, lifecycleVars
<1>6. ASSUME NEW r \in Runner, SecondLoop(r) PROVE UNCHANGED lifecycleVars
  BY <1>6 DEF SecondLoop, ClaimCandidate, RunDone, ReadStatus, Resume, Decide, Load,
     store, lifecycleVars
<1>7. ASSUME NEW r \in Runner, OomRecovery(r) PROVE UNCHANGED lifecycleVars
  BY <1>7 DEF OomRecovery, Enter, Attempt, Operate, Retry, Exhaust, store, lifecycleVars
<1>8. ASSUME NEW r \in Runner, Saving(r) PROVE UNCHANGED lifecycleVars
  BY <1>8 DEF Saving, SaveCheckpoint, SaveOutcome, SaveExhausted
<1>9. ASSUME NEW r \in Runner, Closing(r) PROVE UNCHANGED lifecycleVars
  BY <1>9 DEF Closing, ExceptState, ExceptOutcome, Finally, store, lifecycleVars
<1>10. ASSUME NEW r \in Runner, Fault(r) PROVE UNCHANGED lifecycleVars
  BY <1>10 DEF Fault, Crash, Interrupt, StoreFails, store, lifecycleVars
<1>11. ASSUME NEW c \in Candidate, ExpireLease(c) PROVE UNCHANGED lifecycleVars
  BY <1>11 DEF ExpireLease
<1>12. ASSUME UNCHANGED vars PROVE UNCHANGED lifecycleVars
  BY <1>12 DEF vars, store, lifecycleVars
<1> QED
  BY <1>1, <1>2, <1>3, <1>4, <1>5, <1>6, <1>7, <1>8, <1>9, <1>10, <1>11, <1>12
     DEF Next, Step, Transition
-----------------------------------------------------------------------------
\* What holds of every behaviour of CampaignRunner.
\* The inductive invariant holds in every reachable state.
THEOREM InvariantHolds == Spec => []IndInv
<1>1. Init => IndInv
  BY InitHolds
<1>2. IndInv /\ [Next]_vars => IndInv'
  BY NextKeeps
<1> QED BY <1>1, <1>2, PTL DEF Spec
\* Type correctness: the locals of every process and the rows of the store.
THEOREM TypeCorrect == Spec => []TypeOK
<1>1. IndInv => TypeOK
  BY DEF IndInv
<1> QED BY <1>1, InvariantHolds, PTL
\* The log enters the evaluation stage only over a persisted checkpoint, whatever
\* the processes, crashes and lost leases (persist_campaign_checkpoint precedes
\* the transition, and nothing takes a checkpoint back).
THEOREM EvaluationIsResumable == Spec => []StageHasCheckpoint
<1>1. IndInv => StageHasCheckpoint
  BY DEF IndInv, StoreInv
<1> QED BY <1>1, InvariantHolds, PTL
\* A succeeded or rejected state is backed by the persisted outcome of that kind.
THEOREM VerdictsAreBacked == Spec => []VerdictHasOutcome
<1>1. IndInv => VerdictHasOutcome
  BY DEF IndInv, StoreInv
<1> QED BY <1>1, InvariantHolds, PTL
\* A completed lease belongs to a candidate that has ended.
THEOREM CompletedIsOver == Spec => []CompletedIsTerminal
<1>1. IndInv => CompletedIsTerminal
  BY DEF IndInv, StoreInv
<1> QED BY <1>1, InvariantHolds, PTL
\* Checkpoints and outcomes are written once, by however many processes.
THEOREM EvidenceStays == Spec => EvidenceIsImmutable
<1>1. IndInv /\ [Next]_vars
        => [\A c \in Candidate :
              /\ checkpoint[c] # NoCheckpoint => checkpoint'[c] = checkpoint[c]
              /\ outcome[c] # Pending => outcome'[c] = outcome[c]]_vars
  BY NextKeeps DEF Grows
<1> QED BY <1>1, InvariantHolds, PTL DEF Spec, EvidenceIsImmutable
\* CampaignRunner implements the candidate lifecycle: the log of a candidate
\* moves along the transition table, and its end is final.
THEOREM LifecycleRefined == Spec => LifecycleSpec
<1>1. Init => LifecycleInit
  BY DEF Init
<1>2. IndInv /\ [Next]_vars => [LifecycleNext]_lifecycleVars
  BY NextAdvances
<1> QED BY <1>1, <1>2, InvariantHolds, PTL DEF Spec, LifecycleSpec
-----------------------------------------------------------------------------
\* One process at each candidate.

USE DEF CheckpointKnown

\* An exception leaves nothing to know of a checkpoint.
LEMMA RaiseForgets ==
  ASSUME IndInv, NEW r \in Runner, Raise(r)
  PROVE  CheckpointKnown(r)'
  BY Typed DEF Raise, OnError, Idle, RunState, Mode

\* A step of a process changes no other one's locals.
LEMMA OthersStay ==
  ASSUME IndInv, NEW r \in Runner, Step(r) \/ Fault(r)
  PROVE  \A q \in Runner \ {r} : run'[q] = run[q]
<1> USE Typed DEF Raise
<1>1. CASE Transition(r)
  BY <1>1 DEF Transition, Validate, Append, Plan
<1>2. CASE FirstLoop(r)
  BY <1>2 DEF FirstLoop, Start, ScanStatus, ScanState, ScanDone
<1>3. CASE Reconciling(r)
  BY <1>3 DEF Reconciling, Reconcile, ReconcileRead, ReconcileStep
<1>4. CASE SecondLoop(r)
  BY <1>4 DEF SecondLoop, ClaimCandidate, RunDone, ReadStatus, Resume, Decide, Load
<1>5. CASE OomRecovery(r)
  BY <1>5 DEF OomRecovery, Enter, Attempt, Operate, Retry, Exhaust
<1>6. CASE Saving(r)
  BY <1>6 DEF Saving, SaveCheckpoint, SaveOutcome, SaveExhausted
<1>7. CASE Closing(r)
  BY <1>7 DEF Closing, ExceptState, ExceptOutcome, Finally
<1>8. CASE Fault(r)
  BY <1>8 DEF Fault, Crash, Interrupt, StoreFails
<1> QED BY <1>1, <1>2, <1>3, <1>4, <1>5, <1>6, <1>7, <1>8 DEF Step

\* Only one step writes a checkpoint.
LEMMA CheckpointWritten ==
  ASSUME NEW r \in Runner, Step(r) \/ Fault(r), ~SaveCheckpoint(r)
  PROVE  UNCHANGED checkpoint
<1> USE DEF store, statusVars
<1>1. CASE Transition(r)
  BY <1>1 DEF Transition, Validate, Append, Plan
<1>2. CASE FirstLoop(r)
  BY <1>2 DEF FirstLoop, Start, ScanStatus, ScanState, ScanDone
<1>3. CASE Reconciling(r)
  BY <1>3 DEF Reconciling, Reconcile, ReconcileRead, ReconcileStep
<1>4. CASE SecondLoop(r)
  BY <1>4 DEF SecondLoop, ClaimCandidate, RunDone, ReadStatus, Resume, Decide, Load
<1>5. CASE OomRecovery(r)
  BY <1>5 DEF OomRecovery, Enter, Attempt, Operate, Retry, Exhaust
<1>6. CASE Saving(r)
  BY <1>6 DEF Saving, SaveOutcome, SaveExhausted
<1>7. CASE Closing(r)
  BY <1>7 DEF Closing, ExceptState, ExceptOutcome, Finally
<1>8. CASE Fault(r)
  BY <1>8 DEF Fault, Crash, Interrupt, StoreFails
<1> QED BY <1>1, <1>2, <1>3, <1>4, <1>5, <1>6, <1>7, <1>8 DEF Step

\* Only a claim begins the work at a candidate, and no step of the work leaves it for
\* another one; only a claim and the end of the work touch the leases.
LEMMA WorkStays ==
  ASSUME IndInv, NEW r \in Runner, Step(r) \/ Fault(r), ~ClaimCandidate(r)
  PROVE  /\ Working(r)' => Working(r) /\ At(r)' = At(r)
         /\ Working(r) => Working(r)' \/ ~Attends(r)'
         /\ UNCHANGED <<owner, live>>
<1> USE Typed DEF Raise, RunState, Working, Attends, store, statusVars, leases, Idle,
                  Heartbeat, Complete
<1>1. CASE Transition(r)
  BY <1>1 DEF Transition, Validate, Append, Plan
<1>2. CASE FirstLoop(r)
  <2>1. CASE Start(r)
    BY <2>1 DEF Start
  <2>2. CASE ScanStatus(r)
    <3>1. run[r].mode = "scan"
      BY <2>2 DEF ScanStatus, IndInv
    <3>2. run'[r].mode = run[r].mode /\ UNCHANGED store
      BY <2>2 DEF ScanStatus
    <3> QED BY <3>1, <3>2
  <2>3. CASE ScanState(r)
    <3>1. run'[r].mode = run[r].mode /\ run'[r].at = run[r].at /\ UNCHANGED store
      BY <2>3 DEF ScanState
    <3> QED BY <3>1
  <2>4. CASE ScanDone(r)
    BY <2>4 DEF ScanDone
  <2> QED BY <1>2, <2>1, <2>2, <2>3, <2>4 DEF FirstLoop
<1>3. CASE Reconciling(r)
  BY <1>3 DEF Reconciling, Reconcile, ReconcileRead, ReconcileStep
<1>4. CASE SecondLoop(r)
  BY <1>4 DEF SecondLoop, RunDone, ReadStatus, Resume, Decide, Load
<1>5. CASE OomRecovery(r)
  BY <1>5 DEF OomRecovery, Enter, Attempt, Operate, Retry, Exhaust
<1>6. CASE Saving(r)
  BY <1>6 DEF Saving, SaveCheckpoint, SaveOutcome, SaveExhausted
<1>7. CASE Closing(r)
  <2>1. CASE ExceptState(r)
    <3>1. Working(r)
      BY <2>1 DEF ExceptState, IndInv
    <3>2. run'[r].at = run[r].at /\ run'[r].mode = "except" /\ UNCHANGED store
      BY <2>1 DEF ExceptState, Mode
    <3> QED BY <3>1, <3>2
  <2>2. CASE ExceptOutcome(r)
    BY <2>2 DEF ExceptOutcome
  <2>3. CASE Finally(r)
    BY <2>3 DEF Finally
  <2> QED BY <1>7, <2>1, <2>2, <2>3 DEF Closing
<1>8. CASE Fault(r)
  BY <1>8 DEF Fault, Crash, Interrupt, StoreFails
<1> QED BY <1>1, <1>2, <1>3, <1>4, <1>5, <1>6, <1>7, <1>8 DEF Step

\* A claim is refused while another process holds the lease.
LEMMA HeldStays ==
  ASSUME IndInv, HeldInv, [Next /\ Timely]_vars
  PROVE  HeldInv'
<1> USE DEF HeldInv
<1>0. owner \in [Candidate -> Runner \cup {NoRunner}]
  BY DEF IndInv, TypeOK, LeaseTypeOK
<1>1. ASSUME NEW r \in Runner, ClaimCandidate(r) PROVE HeldInv'
  <2>1. PICK c \in run[r].todo :
          IF Claimable(c) /\ state[c] \notin Terminal
          THEN /\ Claim(r, c)
               /\ run' = [run EXCEPT ![r].pc = "status", ![r].mode = "work", ![r].at = c,
                                     ![r].todo = @ \ {c}]
          ELSE /\ run' = [run EXCEPT ![r].todo = @ \ {c}]
               /\ UNCHANGED leases
    BY <1>1 DEF ClaimCandidate
  <2>2. c \in Candidate /\ ~Working(r)
    BY <1>1, <2>1, Typed, GetFields DEF ClaimCandidate, IndInv, Working
  <2>3. \A q \in Runner : Working(q) => At(q) \in Candidate
    BY Here, Typed DEF IndInv, Working
  <2>4. CASE Claim(r, c)
    <3>1. /\ owner'[c] = r /\ c \in live' /\ c \notin live /\ live \subseteq live'
          /\ \A d \in Candidate \ {c} : owner'[d] = owner[d]
      BY <1>0, <2>2, <2>4 DEF Claim, Claimable
    <3>2. /\ \A q \in Runner \ {r} : run'[q] = run[q]
          /\ Working(r)' => At(r)' = c
      BY <2>1, <2>2, Typed DEF RunState, Working
    <3> QED BY <2>3, <3>1, <3>2 DEF Working
  <2>5. CASE ~Claim(r, c)
    BY <2>1, <2>2, <2>5, Typed DEF RunState, Working, leases
  <2> QED BY <2>4, <2>5
<1>2. ASSUME NEW r \in Runner, Step(r) \/ Fault(r), ~ClaimCandidate(r) PROVE HeldInv'
  BY <1>2, WorkStays, OthersStay DEF Working
<1>3. ASSUME NEW c \in Candidate, ExpireLease(c), Timely PROVE HeldInv'
  BY <1>3 DEF Timely, Abandoned, Holds, ExpireLease, Expire, Working
<1>4. CASE UNCHANGED vars
  BY <1>4 DEF vars, store, Working
<1> QED BY <1>1, <1>2, <1>3, <1>4 DEF Next

\* The process that works at a candidate is the only one to persist its checkpoint, and
\* it decides on what it has read; a failed transaction leaves both as they are.
LEMMA CheckpointStaysKnown ==
  ASSUME IndInv, MutationInv, Exclusive, [Next]_vars
  PROVE  MutationInv'
<1> USE DEF MutationInv
<1>1. ASSUME NEW r \in Runner, Transition(r), ~Raise(r) PROVE CheckpointKnown(r)'
  <2>1. CASE Validate(r)
    BY <1>1, <2>1, Typed DEF Validate, store, RunState
  <2>2. CASE Append(r)
    BY <1>1, <2>2, Typed DEF Append, statusVars, RunState, IndInv, RunInv, Located
  <2>3. CASE Plan(r)
    BY <2>3, Typed DEF Plan, store, RunState
  <2> QED BY <1>1, <2>1, <2>2, <2>3 DEF Transition
<1>2. ASSUME NEW r \in Runner, FirstLoop(r), ~Raise(r) PROVE CheckpointKnown(r)'
  <2>1. CASE Start(r)
    BY <1>2, <2>1, Typed, GetFields DEF Start, store, Idle, RunState
  <2>2. CASE ScanStatus(r)
    BY <1>2, <2>2, Typed, GetFields DEF ScanStatus, store, RunState
  <2>3. CASE ScanState(r)
    BY <1>2, <2>3, Typed, GetFields DEF ScanState, store, RunState
  <2>4. CASE ScanDone(r)
    BY <1>2, <2>4, Typed, GetFields DEF ScanDone, store, Idle, RunState
  <2> QED BY <1>2, <2>1, <2>2, <2>3, <2>4 DEF FirstLoop
<1>3. ASSUME NEW r \in Runner, Reconciling(r), ~Raise(r) PROVE CheckpointKnown(r)'
  <2>1. CASE Reconcile(r)
    BY <1>3, <2>1, Typed, GetFields DEF Reconcile, store, Reconciled, RunState
  <2>2. CASE ReconcileRead(r)
    BY <1>3, <2>2, Typed, GetFields DEF ReconcileRead, store, RunState
  <2>3. CASE ReconcileStep(r)
    BY <1>3, <2>3, Typed, GetFields DEF ReconcileStep, store, Reconciled, RunState
  <2> QED BY <1>3, <2>1, <2>2, <2>3 DEF Reconciling
<1>4. ASSUME NEW r \in Runner, SecondLoop(r), ~Raise(r) PROVE CheckpointKnown(r)'
  <2>1. CASE ClaimCandidate(r)
    BY <1>4, <2>1, Typed, GetFields DEF ClaimCandidate, statusVars, RunState
  <2>2. CASE RunDone(r)
    BY <1>4, <2>2, Typed, GetFields DEF RunDone, store, Idle, RunState
  <2>3. CASE ReadStatus(r)
    BY <1>4, <2>3, Typed, GetFields DEF ReadStatus, store, RunState
  <2>4. CASE Resume(r)
    BY <1>4, <2>4, Typed, GetFields DEF Resume, store, RunState
  <2>5. CASE Decide(r)
    BY <1>4, <2>5, Typed, GetFields DEF Decide, store, HasCheckpoint, RunState
  <2>6. CASE Load(r)
    BY <1>4, <2>6, Typed, GetFields DEF Load, store, RunState
  <2> QED BY <1>4, <2>1, <2>2, <2>3, <2>4, <2>5, <2>6 DEF SecondLoop
<1>5. ASSUME NEW r \in Runner, OomRecovery(r), ~Raise(r) PROVE CheckpointKnown(r)'
  <2>1. CASE Enter(r)
    BY <1>5, <2>1, Typed, GetFields DEF Enter, store, RunState
  <2>2. CASE Attempt(r)
    BY <1>5, <2>2, Typed, GetFields DEF Attempt, statusVars, RunState
  <2>3. CASE Operate(r)
    BY <1>5, <2>3, Typed, GetFields DEF Operate, store, RunState
  <2>4. CASE Retry(r)
    BY <1>5, <2>4, Typed, GetFields DEF Retry, statusVars, RunState
  <2>5. CASE Exhaust(r)
    BY <1>5, <2>5, Typed, GetFields DEF Exhaust, store, RunState
  <2> QED BY <1>5, <2>1, <2>2, <2>3, <2>4, <2>5 DEF OomRecovery
<1>6. ASSUME NEW r \in Runner, Saving(r), ~Raise(r) PROVE CheckpointKnown(r)'
  <2>1. CASE SaveCheckpoint(r)
    BY <1>6, <2>1, Typed, GetFields DEF SaveCheckpoint, RunState
  <2>2. CASE SaveOutcome(r)
    BY <1>6, <2>2, Typed, GetFields DEF SaveOutcome, RunState
  <2>3. CASE SaveExhausted(r)
    BY <1>6, <2>3, Typed, GetFields DEF SaveExhausted, RunState
  <2> QED BY <1>6, <2>1, <2>2, <2>3 DEF Saving
<1>7. ASSUME NEW r \in Runner, Closing(r), ~Raise(r) PROVE CheckpointKnown(r)'
  <2>1. CASE ExceptState(r)
    BY <1>7, <2>1, Typed, GetFields DEF ExceptState, store, RunState
  <2>2. CASE ExceptOutcome(r)
    BY <1>7, <2>2, Typed, GetFields DEF ExceptOutcome, RunState
  <2>3. CASE Finally(r)
    BY <1>7, <2>3, Typed, GetFields DEF Finally, statusVars, Idle, RunState
  <2> QED BY <1>7, <2>1, <2>2, <2>3 DEF Closing
<1>8. ASSUME NEW r \in Runner, Fault(r), ~Raise(r) PROVE CheckpointKnown(r)'
  <2>1. CASE Crash(r)
    BY <1>8, <2>1, Typed, GetFields DEF Crash, store, Idle, RunState
  <2>2. CASE Interrupt(r)
    BY <1>8, <2>2, Typed, GetFields DEF Interrupt, store, RunState
  <2>3. CASE StoreFails(r)
    BY <1>8, <2>3, Typed, GetFields DEF StoreFails, store, Idle, RunState
  <2> QED BY <1>8, <2>1, <2>2, <2>3 DEF Fault
<1>9. ASSUME NEW r \in Runner, Step(r) \/ Fault(r) PROVE MutationInv'
  <2>1. CheckpointKnown(r)'
    <3>1. CASE Raise(r)
      BY <3>1, RaiseForgets
    <3>2. CASE ~Raise(r)
      BY <3>2, <1>1, <1>2, <1>3, <1>4, <1>5, <1>6, <1>7, <1>8, <1>9 DEF Step
    <3> QED BY <3>1, <3>2
  <2>2. \A q \in Runner \ {r} : run'[q] = run[q]
    BY <1>9, OthersStay
  <2>3. ASSUME NEW q \in Runner \ {r} PROVE CheckpointKnown(q)'
    <3>1. CASE SaveCheckpoint(r)
      <4>1. /\ run[r].pc = "save_checkpoint" /\ At(r) \in Candidate
            /\ \A c \in Candidate \ {At(r)} : checkpoint'[c] = checkpoint[c]
        BY <3>1, Here, Typed DEF SaveCheckpoint, PersistCheckpoint
      <4>2. Working(r) /\ (AtOrTo(q, Works) => Working(q) /\ At(q) \in Candidate)
        BY <4>1, Here DEF IndInv, Working
      <4> QED BY <2>2, <2>3, <4>1, <4>2 DEF Exclusive
    <3>2. CASE ~SaveCheckpoint(r)
      BY <1>9, <2>2, <2>3, <3>2, CheckpointWritten
    <3> QED BY <3>1, <3>2
  <2> QED BY <2>1, <2>3
<1>10. CASE (\E c \in Candidate : ExpireLease(c)) \/ UNCHANGED vars
  <2>1. UNCHANGED <<checkpoint, run>>
    BY <1>10 DEF ExpireLease, statusVars, vars, store
  <2> QED BY <2>1
<1> QED BY <1>9, <1>10 DEF Next

USE DEF OutcomeKnown, PlaceHolds, CallHolds, SoloRun

\* The rows of the transition table that a sole process uses.
LEMMA TransitionTable ==
  /\ "planned" \in Direct["none"] /\ "running" \in Direct["planned"]
  /\ "evaluating" \in Direct["running"]
  /\ \A s \in Active : {"failed", "recoverable-oom"} \subseteq Direct[s]
  /\ \A s \in Recovery : Active \cup {"failed"} \subseteq Direct[s]
  /\ Verdicts \subseteq Direct["evaluating"]
  /\ \A s \in Terminal : Direct[s] = {}
  BY DEF Direct, State, Active, Recovery, Terminal, Verdicts

\* A process that works at a candidate meets nothing that would raise.
LEMMA NothingRefused ==
  ASSUME IndInv, MutationInv, LogAgrees, NEW r \in Runner, SoloRun(r), At(r) \in Candidate
  PROVE  LET c == At(r)
             pc == run[r].pc
         IN  /\ pc = "validate" => Allowed(c, run[r].tgt)
             /\ pc = "append" => StillExpected(r)
             /\ pc = "reconcile" =>
                  /\ outcome[c] = run[r].seen
                  /\ \/ state[c] = Kind(run[r].seen)
                     \/ state[c] = "evaluating" /\ Kind(run[r].seen) \in Verdicts
             /\ pc = "reconcile_step" =>
                  /\ outcome[c] = run[r].seen /\ Kind(run[r].seen) \in Verdicts
                  /\ run[r].cur = "evaluating" /\ state[c] = "evaluating"
             /\ pc = "load" => checkpoint[c] # NoCheckpoint
             /\ pc = "enter" => state[c] = ActiveState(run[r].work)
             /\ pc = "save_checkpoint" => checkpoint[c] = NoCheckpoint
             /\ pc \in {"save_outcome", "exhausted"} => Persistable(c, run[r].result)
<1>1. run[r].pc = "validate" => Allowed(At(r), run[r].tgt)
  OBVIOUS
<1>2. run[r].pc = "append" => StillExpected(r)
  BY DEF StillExpected
<1>3. run[r].pc \in {"reconcile", "reconcile_step"} =>
        /\ outcome[At(r)] = run[r].seen
        /\ \/ state[At(r)] = Kind(run[r].seen)
           \/ state[At(r)] = "evaluating" /\ Kind(run[r].seen) \in Verdicts
  BY Typed, GetFields, Outcomes
     DEF IndInv, RunInv, SeenHolds, Reconciles, LogAgrees, Terminal, Verdicts
<1>4. run[r].pc = "load" => checkpoint[At(r)] # NoCheckpoint
  BY Typed DEF IndInv, StoreInv, StageHasCheckpoint, LogAgrees, Active, ActiveState,
     WorkStage
<1>5. run[r].pc = "enter" => state[At(r)] = ActiveState(run[r].work)
  OBVIOUS
<1>6. run[r].pc = "save_checkpoint" => checkpoint[At(r)] = NoCheckpoint
  BY DEF MutationInv
<1>7. run[r].pc \in {"save_outcome", "exhausted"} => Persistable(At(r), run[r].result)
  BY DEF Persistable, Unconcluded
<1>8. run[r].pc = "reconcile_step" => run[r].cur = "evaluating" /\ state[At(r)] = "evaluating"
  OBVIOUS
<1>9. run[r].pc = "reconcile_step" => Kind(run[r].seen) \in Verdicts
  BY <1>3, <1>8, Typed, GetFields, Outcomes DEF IndInv, RunInv, SeenHolds, Reconciles,
     Terminal
<1> QED BY <1>1, <1>2, <1>3, <1>4, <1>5, <1>6, <1>7, <1>8, <1>9

\* recovery_plan: the stage to resume is the one the log was interrupted in.
LEMMA PlanIsSole ==
  ASSUME IndInv, LogAgrees, NEW r \in Runner, SoloRun(r), Plan(r), At(r) \in Candidate
  PROVE  SoloRun(r)'
<1>1. /\ run[r].pc = "plan" /\ run[r].back = "decide" /\ state[At(r)] \in Recovery
      /\ outcome[At(r)] = Pending /\ UNCHANGED store
  BY DEF Plan
<1>2. run' = [run EXCEPT ![r].pc = "validate", ![r].tgt = ActiveState(stage[At(r)])]
  BY <1>1, Typed DEF Plan, Recovery, Terminal, ActiveState, WorkStage
<1>3. Allowed(At(r), ActiveState(stage[At(r)]))
  BY <1>1, TransitionTable DEF Allowed, Active, ActiveState
<1> QED BY <1>1, <1>2, <1>3, Typed DEF RunState, store, Unconcluded, Allowed,
   Active, ActiveState

\* _reconcile_terminal finds the outcome in the log, or the last event missing.
LEMMA ReconcileIsSole ==
  ASSUME IndInv, MutationInv, LogAgrees, NEW r \in Runner, SoloRun(r), Reconcile(r),
         At(r) \in Candidate
  PROVE  SoloRun(r)'
<1>0. run[r].pc = "reconcile" /\ UNCHANGED store
  BY DEF Reconcile
<1>1. CASE state[At(r)] = Kind(run[r].seen)
  BY <1>0, <1>1, Typed DEF Reconcile, Reconciled, RunState, store, Unconcluded,
     IndInv, RunInv, SeenHolds, Reconciles, LogAgrees, Terminal, Verdicts, Concluded
<1>2. CASE state[At(r)] # Kind(run[r].seen)
  BY <1>0, <1>2, NothingRefused, Typed DEF Reconcile, RunState, store,
     Unconcluded, Terminal
<1> QED BY <1>1, <1>2

\* _reconcile_terminal: the missing event is a verdict that follows the evaluation.
LEMMA ReconcileStepIsSole ==
  ASSUME IndInv, MutationInv, LogAgrees, NEW r \in Runner, SoloRun(r), ReconcileStep(r),
     At(r) \in Candidate
  PROVE  SoloRun(r)'
<1> DEFINE target == Kind(run[r].seen)
<1>1. /\ run[r].pc = "reconcile_step" /\ run[r].cur = "evaluating"
      /\ state[At(r)] = "evaluating"
      /\ target \in Verdicts /\ target = Kind(outcome[At(r)]) /\ UNCHANGED store
  BY NothingRefused DEF ReconcileStep
<1>2. run' = [run EXCEPT ![r].pc = "validate", ![r].tgt = target, ![r].back = Reconciled(r)]
  BY <1>1 DEF ReconcileStep, Recovery, Terminal
<1>3. Allowed(At(r), target)
  BY <1>1, TransitionTable DEF Allowed, Recovery
<1>4. Reconciled(r) \in {"scan", "finally"}
  BY DEF Reconciled
<1> QED BY <1>1, <1>2, <1>3, <1>4, Typed DEF RunState, store, Unconcluded, Allowed

\* _resume_state: each of its transitions starts from the state that was read.
LEMMA DecideIsSole ==
  ASSUME IndInv, MutationInv, LogAgrees, NEW r \in Runner, SoloRun(r), Decide(r),
         At(r) \in Candidate
  PROVE  SoloRun(r)'
<1> DEFINE c == At(r)
<1>1. /\ run[r].pc = "decide" /\ run[r].cur = state[c] /\ run[r].seen = outcome[c]
      /\ run[r].ckpt = checkpoint[c] /\ UNCHANGED store
  BY DEF Decide, MutationInv
<1>2. outcome[c] \in Outcome /\ (Concluded(outcome[c]) <=> outcome[c] # Pending)
  BY Typed, Outcomes
<1>3. state[c] = "none" => outcome[c] = Pending
  BY <1>2, Typed, Outcomes DEF LogAgrees, Terminal, Verdicts
<1>4. ASSUME NEW t \in {"planned"} \cup Active, outcome[c] = Pending, Allowed(c, t),
             run' = [run EXCEPT ![r].pc = "validate", ![r].tgt = t, ![r].back = "decide"]
      PROVE  SoloRun(r)'
  BY <1>1, <1>4, Typed DEF RunState, store, Unconcluded, Allowed
<1>5. CASE Call(r, "planned", "decide") /\ state[c] = "none"
  BY <1>1, <1>3, <1>4, <1>5, TransitionTable DEF Allowed, Recovery
<1>6. CASE Goto(r, "reconcile")
  BY <1>1, <1>6, Typed DEF RunState, store, Unconcluded
<1>7. CASE /\ state[c] \in Recovery /\ outcome[c] = Pending
           /\ run' = [run EXCEPT ![r].pc = "plan", ![r].back = "decide"]
  BY <1>1, <1>7, Typed DEF RunState, store, Unconcluded
<1>8. CASE state[c] = "planned" /\ outcome[c] = Pending /\ Call(r, "running", "decide")
  BY <1>1, <1>4, <1>8, TransitionTable DEF Allowed, Recovery, Active
<1>9. CASE state[c] = "running" /\ outcome[c] = Pending /\ Call(r, "evaluating", "decide")
  BY <1>1, <1>4, <1>9, TransitionTable DEF Allowed, Recovery, Active
<1>10. CASE /\ state[c] = "running" /\ outcome[c] = Pending
            /\ run' = [run EXCEPT ![r].pc = "enter", ![r].work = "mutation"]
  BY <1>1, <1>10, Typed DEF RunState, store, Unconcluded, ActiveState
<1>11. CASE state[c] = "evaluating" /\ outcome[c] = Pending /\ Goto(r, "load")
  BY <1>1, <1>11, Typed DEF RunState, store, Unconcluded
<1>12. CASE Goto(r, "finally")
  BY <1>1, <1>12, Typed DEF RunState, store, Unconcluded
<1> QED BY <1>1, <1>2, <1>5, <1>6, <1>7, <1>8, <1>9, <1>10, <1>11, <1>12 DEF Decide

\* The evaluation finds a checkpoint.
LEMMA LoadIsSole ==
  ASSUME IndInv, MutationInv, LogAgrees, NEW r \in Runner, SoloRun(r), Load(r),
         At(r) \in Candidate
  PROVE  SoloRun(r)'
<1>1. /\ run[r].pc = "load" /\ checkpoint[At(r)] # NoCheckpoint /\ UNCHANGED store
      /\ outcome[At(r)] = Pending /\ state[At(r)] = "evaluating"
  BY NothingRefused DEF Load, Unconcluded
<1>2. PICK k : run' = [run EXCEPT ![r].pc = "enter", ![r].ckpt = k,
   ![r].work = "evaluation"]
  BY <1>1 DEF Load
<1> QED BY <1>1, <1>2, Typed DEF RunState, store, Unconcluded, ActiveState

\* The worker ends in an active state, whatever it returns or raises.
LEMMA OperateIsSole ==
  ASSUME IndInv, MutationInv, LogAgrees, NEW r \in Runner, SoloRun(r), Operate(r),
         At(r) \in Candidate
  PROVE  SoloRun(r)'
<1> DEFINE c == At(r)
<1>1. /\ run[r].pc = "operate" /\ outcome[c] = Pending /\ state[c] = ActiveState(run[r].work)
      /\ run[r].work \in WorkStage /\ state[c] \in Active /\ stage[c] = run[r].work
      /\ UNCHANGED store
  BY Typed, GetFields DEF Operate, Unconcluded, LogAgrees, ActiveState, Active,
     WorkStage
<1>2. CASE Call(r, "recoverable-oom", "oom")
  <2>1. Allowed(c, "recoverable-oom")
    BY <1>1, TransitionTable DEF Allowed, Active, Recovery
  <2> QED BY <1>1, <1>2, <2>1, Typed DEF RunState, store, Unconcluded, Allowed
<1>3. CASE ~Call(r, "recoverable-oom", "oom")
  BY <1>1, <1>3, Typed DEF Operate, RunState, store, Unconcluded, ActiveState
<1> QED BY <1>2, <1>3

\* Exhausted retries fail the candidate.
LEMMA ExhaustIsSole ==
  ASSUME IndInv, MutationInv, LogAgrees, NEW r \in Runner, SoloRun(r), Exhaust(r),
         At(r) \in Candidate
  PROVE  SoloRun(r)'
<1>1. /\ run[r].pc = "oom" /\ outcome[At(r)] = Pending /\ state[At(r)] = "recoverable-oom"
      /\ UNCHANGED store
  BY DEF Exhaust, Unconcluded
<1>2. Allowed(At(r), "failed")
  BY <1>1, TransitionTable DEF Allowed, Recovery, Active
<1> QED BY <1>1, <1>2, Typed DEF Exhaust, RunState, store, Unconcluded, Allowed

\* The checkpoint is persisted before the evaluation is entered.
LEMMA SaveCheckpointIsSole ==
  ASSUME IndInv, MutationInv, LogAgrees, NEW r \in Runner, SoloRun(r), SaveCheckpoint(r),
     At(r) \in Candidate
  PROVE  SoloRun(r)'
<1>1. /\ run[r].pc = "save_checkpoint" /\ outcome[At(r)] = Pending /\ state[At(r)] = "running"
      /\ UNCHANGED <<lifecycleVars, outcome>>
      /\ run' = [run EXCEPT ![r].pc = "validate", ![r].tgt = "evaluating",
         ![r].back = "load"]
  BY NothingRefused DEF SaveCheckpoint, Unconcluded
<1>2. Allowed(At(r), "evaluating")
  BY <1>1, TransitionTable DEF Allowed, Recovery
<1> QED BY <1>1, <1>2, Typed DEF RunState, lifecycleVars, Unconcluded, Allowed

\* The outcome of an evaluation is persisted before the transition it justifies.
LEMMA SaveOutcomeIsSole ==
  ASSUME IndInv, MutationInv, LogAgrees, NEW r \in Runner, SoloRun(r), SaveOutcome(r),
         At(r) \in Candidate
  PROVE  SoloRun(r)' /\ LogAgrees'
<1> DEFINE o == run[r].result
<1>1. /\ run[r].pc = "save_outcome" /\ state[At(r)] = "evaluating" /\ Kind(o) \in Verdicts
      /\ UNCHANGED lifecycleVars /\ outcome' = [outcome EXCEPT ![At(r)] = o]
      /\ run' = [run EXCEPT ![r].pc = "validate", ![r].tgt = Kind(o), ![r].back = "finally"]
  BY NothingRefused DEF SaveOutcome, Unconcluded, IndInv, RunInv, ResultHolds,
     Persist
<1>2. Allowed(At(r), Kind(o))
  BY <1>1, TransitionTable DEF Allowed, Recovery
<1>3. SoloRun(r)'
  BY <1>1, <1>2, Typed DEF RunState, lifecycleVars, Unconcluded, Allowed
<1>4. LogAgrees'
  BY <1>1, Typed DEF LogAgrees, lifecycleVars, Verdicts
<1> QED BY <1>3, <1>4

\* An event is appended to the log it was validated against, and agrees with what
\* has been persisted.
LEMMA AppendIsSole ==
  ASSUME IndInv, MutationInv, LogAgrees, NEW r \in Runner, SoloRun(r), Append(r),
         At(r) \in Candidate
  PROVE  SoloRun(r)' /\ LogAgrees'
<1> DEFINE c == At(r)
           tgt == run[r].tgt
<1>1. /\ run[r].pc = "append" /\ UNCHANGED statusVars
      /\ state' = [state EXCEPT ![c] = tgt]
      /\ stage' = [stage EXCEPT ![c] = StageAfter(tgt, @)]
      /\ run' = [run EXCEPT ![r].pc = run[r].back, ![r].cur = tgt]
  BY NothingRefused DEF Append
<1>2. CallHolds(r) /\ OutcomeKnown(r) /\ tgt \in State
  BY <1>1, Typed, GetFields
<1>3. SoloRun(r)'
  BY <1>1, <1>2, Typed DEF RunState, statusVars, Unconcluded, StageAfter
<1>4. LogAgrees'
  <2>1. outcome[c] = Pending \/ tgt = Kind(outcome[c])
    BY <1>1, <1>2 DEF Unconcluded
  <2>2. tgt \in Active => tgt = ActiveState(stage'[c])
    BY <1>1, Typed DEF Active, ActiveState, StageAfter
  <2> QED BY <1>1, <2>1, <2>2, Typed DEF LogAgrees, statusVars, Pending, Kind,
     Verdicts
<1> QED BY <1>3, <1>4

\* An outcome of a failure is persisted after the log says so.
LEMMA FailureIsSole ==
  ASSUME IndInv, LogAgrees, NEW r \in Runner, SoloRun(r), At(r) \in Candidate,
         SaveExhausted(r) \/ ExceptOutcome(r)
  PROVE  SoloRun(r)' /\ LogAgrees'
<1>1. /\ run[r].pc \in {"exhausted", "except_outcome"} /\ state[At(r)] = "failed"
      /\ outcome[At(r)] = Pending /\ UNCHANGED lifecycleVars
  BY DEF SaveExhausted, ExceptOutcome, Unconcluded
<1>2. PICK o : /\ Kind(o) = "failed" /\ outcome' = [outcome EXCEPT ![At(r)] = o]
  BY <1>1, Outcomes DEF SaveExhausted, ExceptOutcome, Persistable, Persist, Cause, IndInv,
     RunInv, ResultHolds
<1>3. run' = [run EXCEPT ![r].pc = "finally"]
  BY <1>1 DEF SaveExhausted, ExceptOutcome, Persistable
<1>4. SoloRun(r)'
  BY <1>1, <1>3, Typed DEF RunState, lifecycleVars, Unconcluded
<1>5. LogAgrees'
  BY <1>1, <1>2, Typed DEF LogAgrees, lifecycleVars, Verdicts
<1> QED BY <1>4, <1>5

\* What the process at a candidate knows of it outlasts its steps, if none of them fails.
LEMMA SoloStep ==
  ASSUME IndInv, MutationInv, LogAgrees, ~StoreFaults, NEW r \in Runner, SoloRun(r),
         Step(r) \/ Fault(r)
  PROVE  SoloRun(r)' /\ LogAgrees'
<1>1. ASSUME UNCHANGED <<lifecycleVars, outcome>> PROVE LogAgrees'
  BY <1>1 DEF LogAgrees, lifecycleVars
<1>2. ASSUME Transition(r) PROVE SoloRun(r)' /\ LogAgrees'
  <2>1. CASE Validate(r)
    <3>1. UNCHANGED <<lifecycleVars, outcome>>
      BY <2>1 DEF Validate, store, statusVars, lifecycleVars
    <3>2. SoloRun(r)'
      BY <2>1, Here, NothingRefused, Typed, GetFields DEF Validate, store, RunState,
         LogAgrees, IndInv,
         Unconcluded, Allowed
    <3> QED BY <1>1, <3>1, <3>2
  <2>2. CASE Append(r)
    BY <2>2, Here, AppendIsSole DEF Append
  <2>3. CASE Plan(r)
    BY <2>3, <1>1, Here, PlanIsSole DEF Plan, store, lifecycleVars
  <2> QED BY <1>2, <2>1, <2>2, <2>3 DEF Transition
<1>3. ASSUME FirstLoop(r) PROVE SoloRun(r)' /\ LogAgrees'
  <2>1. CASE Start(r)
    <3>1. UNCHANGED <<lifecycleVars, outcome>>
      BY <2>1 DEF Start, store, statusVars, lifecycleVars
    <3>2. SoloRun(r)'
      BY <2>1, Typed, GetFields DEF Start, store, Idle, RunState, LogAgrees,
         IndInv, Unconcluded, Allowed
    <3> QED BY <1>1, <3>1, <3>2
  <2>2. CASE ScanStatus(r)
    <3>1. UNCHANGED <<lifecycleVars, outcome>>
      BY <2>2 DEF ScanStatus, store, statusVars, lifecycleVars
    <3>2. SoloRun(r)'
      BY <2>2, Typed, GetFields DEF ScanStatus, store, RunState, LogAgrees, IndInv,
         Unconcluded, Allowed
    <3> QED BY <1>1, <3>1, <3>2
  <2>3. CASE ScanState(r)
    <3>1. UNCHANGED <<lifecycleVars, outcome>>
      BY <2>3 DEF ScanState, store, statusVars, lifecycleVars
    <3>2. SoloRun(r)'
      BY <2>3, Typed, GetFields DEF ScanState, store, RunState, LogAgrees, IndInv,
         Unconcluded, Allowed
    <3> QED BY <1>1, <3>1, <3>2
  <2>4. CASE ScanDone(r)
    <3>1. UNCHANGED <<lifecycleVars, outcome>>
      BY <2>4 DEF ScanDone, store, statusVars, lifecycleVars
    <3>2. SoloRun(r)'
      BY <2>4, Typed, GetFields DEF ScanDone, store, Idle, RunState, LogAgrees,
         IndInv, Unconcluded, Allowed
    <3> QED BY <1>1, <3>1, <3>2
  <2> QED BY <1>3, <2>1, <2>2, <2>3, <2>4 DEF FirstLoop
<1>4. ASSUME Reconciling(r) PROVE SoloRun(r)' /\ LogAgrees'
  <2>1. CASE Reconcile(r)
    BY <2>1, <1>1, Here, ReconcileIsSole DEF Reconcile, store, lifecycleVars
  <2>2. CASE ReconcileRead(r)
    <3>1. UNCHANGED <<lifecycleVars, outcome>>
      BY <2>2 DEF ReconcileRead, store, statusVars, lifecycleVars
    <3>2. SoloRun(r)'
      BY <2>2, Typed, GetFields DEF ReconcileRead, store, RunState, LogAgrees,
         IndInv, Unconcluded, Allowed
    <3> QED BY <1>1, <3>1, <3>2
  <2>3. CASE ReconcileStep(r)
    BY <2>3, <1>1, Here, ReconcileStepIsSole DEF ReconcileStep, store, lifecycleVars
  <2> QED BY <1>4, <2>1, <2>2, <2>3 DEF Reconciling
<1>5. ASSUME SecondLoop(r) PROVE SoloRun(r)' /\ LogAgrees'
  <2>1. CASE ClaimCandidate(r)
    <3>1. UNCHANGED <<lifecycleVars, outcome>>
      BY <2>1 DEF ClaimCandidate, store, statusVars, lifecycleVars
    <3>2. SoloRun(r)'
      BY <2>1, Typed, GetFields DEF ClaimCandidate, statusVars, lifecycleVars, RunState,
         LogAgrees, IndInv,
         Unconcluded, Allowed
    <3> QED BY <1>1, <3>1, <3>2
  <2>2. CASE RunDone(r)
    <3>1. UNCHANGED <<lifecycleVars, outcome>>
      BY <2>2 DEF RunDone, store, statusVars, lifecycleVars
    <3>2. SoloRun(r)'
      BY <2>2, Typed, GetFields DEF RunDone, store, Idle, RunState, LogAgrees,
         IndInv, Unconcluded, Allowed
    <3> QED BY <1>1, <3>1, <3>2
  <2>3. CASE ReadStatus(r)
    <3>1. UNCHANGED <<lifecycleVars, outcome>>
      BY <2>3 DEF ReadStatus, store, statusVars, lifecycleVars
    <3>2. SoloRun(r)'
      BY <2>3, Here, Typed, GetFields DEF ReadStatus, store, RunState, 
         LogAgrees, IndInv,
         Unconcluded, Allowed
    <3> QED BY <1>1, <3>1, <3>2
  <2>4. CASE Resume(r)
    <3>1. UNCHANGED <<lifecycleVars, outcome>>
      BY <2>4 DEF Resume, store, statusVars, lifecycleVars
    <3>2. SoloRun(r)'
      BY <2>4, Here, Typed, GetFields DEF Resume, store, RunState, LogAgrees,
         IndInv, Unconcluded, Allowed
    <3> QED BY <1>1, <3>1, <3>2
  <2>5. CASE Decide(r)
    BY <2>5, <1>1, Here, DecideIsSole DEF Decide, store, lifecycleVars
  <2>6. CASE Load(r)
    BY <2>6, <1>1, Here, LoadIsSole DEF Load, store, lifecycleVars
  <2> QED BY <1>5, <2>1, <2>2, <2>3, <2>4, <2>5, <2>6 DEF SecondLoop
<1>6. ASSUME OomRecovery(r) PROVE SoloRun(r)' /\ LogAgrees'
  <2>1. CASE Enter(r)
    <3>1. UNCHANGED <<lifecycleVars, outcome>>
      BY <2>1 DEF Enter, store, statusVars, lifecycleVars
    <3>2. SoloRun(r)'
      BY <2>1, Here, NothingRefused, Typed, GetFields DEF Enter, store, RunState,
         LogAgrees, IndInv,
         Unconcluded, Allowed
    <3> QED BY <1>1, <3>1, <3>2
  <2>2. CASE Attempt(r)
    <3>1. UNCHANGED <<lifecycleVars, outcome>>
      BY <2>2 DEF Attempt, store, statusVars, lifecycleVars
    <3>2. SoloRun(r)'
      BY <2>2, Here, Typed, GetFields DEF Attempt, statusVars, lifecycleVars, RunState,
         LogAgrees, IndInv,
         Unconcluded, Allowed
    <3> QED BY <1>1, <3>1, <3>2
  <2>3. CASE Operate(r)
    BY <2>3, <1>1, Here, OperateIsSole DEF Operate, store, lifecycleVars
  <2>4. CASE Retry(r)
    <3>1. UNCHANGED <<lifecycleVars, outcome>>
      BY <2>4 DEF Retry, store, statusVars, lifecycleVars
    <3>2. SoloRun(r)'
      BY <2>4, Here, Typed, GetFields DEF Retry, statusVars, lifecycleVars, RunState,
         LogAgrees, IndInv,
         Unconcluded, Allowed
    <3> QED BY <1>1, <3>1, <3>2
  <2>5. CASE Exhaust(r)
    BY <2>5, <1>1, Here, ExhaustIsSole DEF Exhaust, store, lifecycleVars
  <2> QED BY <1>6, <2>1, <2>2, <2>3, <2>4, <2>5 DEF OomRecovery
<1>7. ASSUME Saving(r) PROVE SoloRun(r)' /\ LogAgrees'
  <2>1. CASE SaveCheckpoint(r)
    BY <2>1, <1>1, Here, SaveCheckpointIsSole DEF SaveCheckpoint, store, lifecycleVars
  <2>2. CASE SaveOutcome(r)
    BY <2>2, Here, SaveOutcomeIsSole DEF SaveOutcome
  <2>3. CASE SaveExhausted(r)
    BY <2>3, Here, FailureIsSole DEF SaveExhausted
  <2> QED BY <1>7, <2>1, <2>2, <2>3 DEF Saving
<1>8. ASSUME Closing(r) PROVE SoloRun(r)' /\ LogAgrees'
  <2>1. CASE ExceptState(r)
    <3>1. UNCHANGED <<lifecycleVars, outcome>>
      BY <2>1 DEF ExceptState, store, statusVars, lifecycleVars
    <3>2. SoloRun(r)'
      BY <2>1, Here, Typed, GetFields DEF ExceptState, store, RunState, 
         LogAgrees, IndInv,
         Unconcluded, Allowed
    <3> QED BY <1>1, <3>1, <3>2
  <2>2. CASE ExceptOutcome(r)
    BY <2>2, Here, FailureIsSole DEF ExceptOutcome
  <2>3. CASE Finally(r)
    <3>1. UNCHANGED <<lifecycleVars, outcome>>
      BY <2>3 DEF Finally, store, statusVars, lifecycleVars
    <3>2. SoloRun(r)'
      BY <2>3, Typed, GetFields DEF Finally, statusVars, Idle, lifecycleVars, RunState,
         LogAgrees, IndInv,
         Unconcluded, Allowed
    <3> QED BY <1>1, <3>1, <3>2
  <2> QED BY <1>8, <2>1, <2>2, <2>3 DEF Closing
<1>9. ASSUME Fault(r) PROVE SoloRun(r)' /\ LogAgrees'
  <2>1. CASE Crash(r)
    <3>1. UNCHANGED <<lifecycleVars, outcome>>
      BY <2>1 DEF Crash, store, statusVars, lifecycleVars
    <3>2. SoloRun(r)'
      BY <2>1, Typed, GetFields DEF Crash, store, Idle, RunState, LogAgrees,
         IndInv, Unconcluded, Allowed
    <3> QED BY <1>1, <3>1, <3>2
  <2>2. CASE Interrupt(r)
    <3>1. UNCHANGED <<lifecycleVars, outcome>>
      BY <2>2 DEF Interrupt, store, statusVars, lifecycleVars
    <3>2. SoloRun(r)'
      BY <2>2, Typed, GetFields DEF Interrupt, store, RunState, LogAgrees, IndInv,
         Unconcluded, Allowed
    <3> QED BY <1>1, <3>1, <3>2
  <2>3. CASE StoreFails(r)
    BY <2>3 DEF StoreFails
  <2> QED BY <1>9, <2>1, <2>2, <2>3 DEF Fault
<1> QED BY <1>2, <1>3, <1>4, <1>5, <1>6, <1>7, <1>8, <1>9 DEF Step

\* Every step of a sole process whose transactions succeed keeps its invariant.
LEMMA SoloStays ==
  ASSUME IndInv, MutationInv, SoloInv, Sole, ~StoreFaults, [Next]_vars
  PROVE  SoloInv'
<1>1. ASSUME NEW r \in Runner, Step(r) \/ Fault(r) PROVE SoloInv'
  <2>1. SoloRun(r)' /\ LogAgrees'
    BY <1>1, SoloStep DEF SoloInv
  <2> QED BY <2>1 DEF Sole, SoloInv
<1>2. CASE (\E c \in Candidate : ExpireLease(c)) \/ UNCHANGED vars
  <2>1. UNCHANGED <<state, stage, checkpoint, outcome, run>>
    BY <1>2 DEF ExpireLease, statusVars, lifecycleVars, vars, store
  <2> QED BY <2>1 DEF SoloInv, LogAgrees, lifecycleVars, Allowed
<1> QED BY <1>1, <1>2 DEF Next

-----------------------------------------------------------------------------
\* Processes that exclude each other, and reconcile what is concluded.

USE DEF Attends

\* What a process alone at its candidate knows is enough, whoever attends it next.
LEMMA AloneIsShared ==
  ASSUME NEW r \in Runner, IndInv', LogAgrees', SoloRun(r)', Working(r)' \/ ~Attends(r)'
  PROVE  SharedRun(r)'
<1>1. CASE outcome'[At(r)'] = Pending
  BY <1>1 DEF SharedRun
<1>2. CASE Attends(r)' /\ outcome'[At(r)'] # Pending
  <2>1. At(r)' \in Candidate /\ run'[r] \in RunState /\ outcome'[At(r)'] \in Outcome
    BY <1>2 DEF IndInv, TypeOK
  <2>2. Concluded(outcome'[At(r)'])
    BY <1>2, <2>1, Outcomes
  <2>3. run'[r].pc \in Label
    BY <2>1, GetFields
  <2>4. state'[At(r)'] \in {"evaluating", Kind(outcome'[At(r)'])}
    BY <2>1, <2>2, Outcomes DEF LogAgrees, Terminal, Verdicts
  <2>5. run'[r].pc \in {"status", "resume", "decide", "reconcile", "reconcile_step",
                        "validate", "append", "finally", "unwind"}
    BY <1>2, <2>3 DEF Label, Unconcluded
  <2>6. run'[r].pc = "append" => run'[r].exp = "evaluating"
    BY <1>2, <2>1, <2>2, <2>4, Outcomes, TransitionTable DEF Unconcluded, Allowed
  <2>7. Concluding(r)'
    BY <1>2, <2>4, <2>5, <2>6 DEF Concluding, Unconcluded
  <2> QED BY <1>2, <2>7 DEF SharedRun
<1> QED BY <1>1, <1>2 DEF SharedRun

\* A process that attends no candidate changes none; it finds one to reconcile by the
\* outcome it has read, or claims one.
LEMMA ApartIsShared ==
  ASSUME IndInv, NEW r \in Runner, ~Attends(r), Step(r) \/ Fault(r), ~StoreFaults
  PROVE  SharedRun(r)' /\ UNCHANGED <<state, stage, outcome>>
<1>1. run[r].mode = "scan" /\ run[r].pc \in Apart
  BY DEF IndInv
<1>2. CASE Start(r) \/ Crash(r)
  <2>1. UNCHANGED store
    BY <1>2 DEF Start, Crash
  <2>2. CASE Start(r)
    BY <2>1, <2>2, Typed, IdleOK DEF Start, store, SharedRun, RunState
  <2>3. CASE Crash(r)
    BY <2>1, <2>3, Typed DEF Crash, Idle, store, SharedRun
  <2> QED BY <1>2, <2>2, <2>3
<1>3. CASE ScanStatus(r)
  BY <1>3, Typed DEF ScanStatus, store, SharedRun, RunState
<1>4. CASE ScanState(r)
  <2>1. At(r) \in Candidate /\ run[r].pc = "scan_state"
    BY <1>4, Here DEF ScanState
  <2>2. /\ UNCHANGED store /\ run'[r].at = run[r].at
        /\ run'[r].pc = "scan" \/ (run'[r].pc = "reconcile" /\ Concluded(run[r].seen))
    BY <1>4, Typed DEF ScanState, RunState
  <2>3. Concluded(run[r].seen) => outcome[At(r)] # Pending
    BY <2>1, Typed, GetFields, Outcomes DEF IndInv
  <2> QED BY <2>1, <2>2, <2>3 DEF SharedRun, Concluding, store
<1>5. CASE ScanDone(r) \/ RunDone(r)
  BY <1>5, Typed DEF ScanDone, RunDone, store, Idle, SharedRun
<1>6. CASE ClaimCandidate(r)
  <2>1. /\ UNCHANGED <<lifecycleVars, statusVars>>
        /\ \/ run'[r].pc = "claim"
           \/ run'[r].pc = "status" /\ run'[r].mode = "work"
    BY <1>1, <1>6, Typed DEF ClaimCandidate, RunState
  <2> QED BY <2>1 DEF SharedRun, Concluding, Unconcluded, Working, lifecycleVars, statusVars
<1> QED BY <1>1, <1>2, <1>3, <1>4, <1>5, <1>6
        DEF Step, Fault, Transition, Validate, Append, Plan, FirstLoop, Reconciling,
            Reconcile, ReconcileRead, ReconcileStep, SecondLoop, ReadStatus, Resume, Decide,
            Load, OomRecovery, Enter, Attempt, Operate, Retry, Exhaust, Saving,
            SaveCheckpoint, SaveOutcome, SaveExhausted, Closing, ExceptState, ExceptOutcome,
            Finally, Interrupt, StoreFails

\* Where the outcome is persisted, a process writes nothing but the state it says.
LEMMA ConcludingStep ==
  ASSUME IndInv, LogAgrees, NEW r \in Runner, Attends(r), outcome[At(r)] # Pending,
         Concluding(r), Step(r) \/ Fault(r), ~StoreFaults
  PROVE  /\ SharedRun(r)'
         /\ LogAgrees'
         /\ UNCHANGED outcome
         /\ state' \in {state, [state EXCEPT ![At(r)] = Kind(outcome[At(r)])]}
<1> DEFINE c == At(r)
<1> USE DEF Concluding, SharedRun
<1>0. /\ c \in Candidate /\ outcome[c] \in Outcome /\ Concluded(outcome[c])
      /\ Kind(outcome[c]) \in Terminal
  BY Here, Typed, Outcomes
<1>1. state[c] \in {"evaluating", Kind(outcome[c])}
  BY <1>0 DEF LogAgrees, Terminal, Verdicts
<1>2. ASSUME UNCHANGED <<state, stage, outcome>> PROVE LogAgrees'
  BY <1>2 DEF LogAgrees
<1>4. CASE Validate(r)
  <2>1. CASE Allowed(c, run[r].tgt)
    <3>1. state[c] = "evaluating"
      BY <1>0, <1>1, <2>1, TransitionTable DEF Allowed
    <3> QED BY <1>2, <1>4, <2>1, <3>1, Typed DEF Validate, RunState, store
  <2>2. CASE ~Allowed(c, run[r].tgt)
    <3>1. state[c] = Kind(outcome[c])
      BY <1>0, <1>1, <1>4, <2>2, TransitionTable
         DEF Allowed, Validate, Terminal, Recovery, Active, Verdicts, LogAgrees
    <3> QED BY <1>2, <1>4, <2>2, <3>1, Typed DEF Validate, Raise, OnError, Mode, RunState,
               store, Idle
  <2> QED BY <2>1, <2>2
<1>5. CASE Append(r)
  <2>1. CASE StillExpected(r)
    <3>1. /\ state' = [state EXCEPT ![c] = Kind(outcome[c])]
          /\ stage' = [stage EXCEPT ![c] = StageAfter(Kind(outcome[c]), @)]
          /\ run' = [run EXCEPT ![r].pc = run[r].back, ![r].cur = run[r].tgt]
          /\ UNCHANGED statusVars /\ run[r].back \in {"finally", "scan"}
      BY <1>5, <2>1 DEF Append
    <3>2. LogAgrees'
      BY <1>0, <3>1, Typed DEF LogAgrees, statusVars, Active, Terminal, Verdicts
    <3> QED BY <1>0, <3>1, <3>2, Typed DEF statusVars, RunState
  <2>2. CASE ~StillExpected(r)
    <3>1. UNCHANGED store /\ Raise(r)
      BY <1>5, <2>2 DEF Append, lifecycleVars, leases, statusVars, store
    <3>2. state[c] = Kind(outcome[c])
      BY <1>1, <1>5, <2>2 DEF Append, StillExpected
    <3> QED BY <1>2, <3>1, <3>2, Typed DEF Raise, OnError, Mode, RunState, store, Idle
  <2> QED BY <2>1, <2>2
<1>6. CASE Reconcile(r)
  <2>1. run[r].seen = outcome[c]
    BY <1>0, <1>6, Typed, GetFields DEF Reconcile, IndInv
  <2>2. CASE state[c] = Kind(outcome[c])
    BY <1>0, <1>2, <1>6, <2>1, <2>2, Typed DEF Reconcile, Reconciled, RunState, store
  <2>3. CASE state[c] # Kind(outcome[c])
    BY <1>0, <1>1, <1>2, <1>6, <2>1, <2>3, Typed DEF Reconcile, RunState, store, Terminal
  <2> QED BY <2>2, <2>3
<1>7. CASE ReconcileStep(r)
  <2>1. run[r].seen = outcome[c] /\ run[r].cur = "evaluating"
    BY <1>0, <1>7, Typed, GetFields DEF ReconcileStep, IndInv
  <2>2. /\ UNCHANGED store
        /\ run' = [run EXCEPT ![r].pc = "validate", ![r].tgt = Kind(outcome[c]),
                              ![r].back = Reconciled(r)]
    BY <1>7, <2>1 DEF ReconcileStep, Recovery, Terminal
  <2> QED BY <1>2, <2>2, Typed DEF RunState, store, Reconciled
<1>8. CASE ReadStatus(r)
  BY <1>2, <1>8, Typed DEF ReadStatus, RunState, store
<1>9. CASE Resume(r)
  BY <1>1, <1>2, <1>9, Typed DEF Resume, RunState, store
<1>10. CASE Decide(r)
  <2>1. Goto(r, "reconcile") /\ UNCHANGED store
    BY <1>0, <1>10 DEF Decide, Terminal
  <2> QED BY <1>2, <2>1, Typed DEF RunState, store
<1>11. CASE ExceptState(r)
  BY <1>0, <1>2, <1>11, Typed DEF ExceptState, RunState, store
<1>12. CASE ExceptOutcome(r)
  BY <1>0, <1>2, <1>12, Typed DEF ExceptOutcome, Persistable, Persist, RunState, lifecycleVars
<1>13. CASE Finally(r) \/ Crash(r)
  <2>1. UNCHANGED <<state, stage, outcome>>
    BY <1>13 DEF Finally, Crash, lifecycleVars, statusVars, store
  <2>2. CASE Finally(r)
    BY <1>2, <2>1, <2>2, Typed, IdleOK DEF Finally, Idle, RunState
  <2>3. CASE Crash(r)
    BY <1>2, <2>1, <2>3, Typed DEF Crash, Idle
  <2> QED BY <1>13, <2>2, <2>3
<1>14. CASE Interrupt(r)
  BY <1>2, <1>14, Typed DEF Interrupt, RunState, store
<1> QED BY <1>4, <1>5, <1>6, <1>7, <1>8, <1>9, <1>10, <1>11, <1>12, <1>13, <1>14
        DEF Step, Fault, Transition, Plan, FirstLoop, Start, ScanStatus, ScanState, ScanDone,
            Reconciling, ReconcileRead, SecondLoop, ClaimCandidate, RunDone, Load,
            OomRecovery, Enter, Attempt, Operate, Retry, Exhaust, Saving, SaveCheckpoint,
            SaveOutcome, SaveExhausted, Closing, StoreFails

\* A step of a process writes the log and the outcome of its own candidate only.
LEMMA WritesHere ==
  ASSUME IndInv, NEW r \in Runner, Step(r) \/ Fault(r)
  PROVE  \A d \in Candidate \ {At(r)} :
           state'[d] = state[d] /\ stage'[d] = stage[d] /\ outcome'[d] = outcome[d]
<1> USE Typed DEF store, statusVars, lifecycleVars, Persist
<1>1. CASE Transition(r)
  BY <1>1 DEF Transition, Validate, Append, Plan
<1>2. CASE FirstLoop(r)
  BY <1>2 DEF FirstLoop, Start, ScanStatus, ScanState, ScanDone
<1>3. CASE Reconciling(r)
  BY <1>3 DEF Reconciling, Reconcile, ReconcileRead, ReconcileStep
<1>4. CASE SecondLoop(r)
  BY <1>4 DEF SecondLoop, ClaimCandidate, RunDone, ReadStatus, Resume, Decide, Load
<1>5. CASE OomRecovery(r)
  BY <1>5 DEF OomRecovery, Enter, Attempt, Operate, Retry, Exhaust
<1>6. CASE Saving(r)
  BY <1>6 DEF Saving, SaveCheckpoint, SaveOutcome, SaveExhausted
<1>7. CASE Closing(r)
  BY <1>7 DEF Closing, ExceptState, ExceptOutcome, Finally
<1>8. CASE Fault(r)
  BY <1>8 DEF Fault, Crash, Interrupt, StoreFails
<1> QED BY <1>1, <1>2, <1>3, <1>4, <1>5, <1>6, <1>7, <1>8 DEF Step

\* A process at another candidate, or at one whose outcome is persisted, is not disturbed.
LEMMA OtherIsShared ==
  ASSUME IndInv, NEW q \in Runner, SharedRun(q), run'[q] = run[q],
         \/ UNCHANGED <<state, stage, outcome>>
         \/ /\ At(q) \in Candidate
            /\ state'[At(q)] = state[At(q)] /\ stage'[At(q)] = stage[At(q)]
            /\ outcome'[At(q)] = outcome[At(q)]
         \/ /\ At(q) \in Candidate /\ outcome[At(q)] # Pending /\ UNCHANGED outcome
            /\ state'[At(q)] \in {state[At(q)], Kind(outcome[At(q)])}
  PROVE  SharedRun(q)'
  BY DEF SharedRun, Concluding, Working, Allowed

\* Every step of processes that exclude each other keeps the invariant.
LEMMA SharedStays ==
  ASSUME IndInv, IndInv', MutationInv, SharedInv, Exclusive, ~StoreFaults, [Next]_vars
  PROVE  SharedInv'
<1>1. ASSUME NEW r \in Runner, Step(r) \/ Fault(r) PROVE SharedInv'
  <2>0. /\ LogAgrees /\ SharedRun(r)
        /\ \A q \in Runner \ {r} : SharedRun(q) /\ run'[q] = run[q]
        /\ \A q \in Runner : Attends(q) => At(q) \in Candidate
    BY <1>1, OthersStay, Here DEF SharedInv
  <2>1. CASE ~Attends(r)
    <3>1. SharedRun(r)' /\ UNCHANGED <<state, stage, outcome>>
      BY <1>1, <2>1, ApartIsShared
    <3>2. LogAgrees'
      BY <2>0, <3>1 DEF LogAgrees
    <3>3. \A q \in Runner \ {r} : SharedRun(q)'
      BY <2>0, <3>1, OtherIsShared
    <3> QED BY <3>1, <3>2, <3>3 DEF SharedInv
  <2>2. CASE Attends(r) /\ outcome[At(r)] = Pending
    <3>1. Working(r) /\ SoloRun(r)
      BY <2>0, <2>2 DEF SharedRun
    <3>2. SoloRun(r)' /\ LogAgrees'
      BY <1>1, <2>0, <3>1, SoloStep
    <3>3. ~ClaimCandidate(r)
      BY <2>2 DEF ClaimCandidate
    <3>4. SharedRun(r)'
      BY <1>1, <3>1, <3>2, <3>3, WorkStays, AloneIsShared
    <3>5. ASSUME NEW q \in Runner \ {r} PROVE SharedRun(q)'
      <4>1. CASE Attends(q)
        <5>1. At(q) # At(r)
          BY <2>0, <2>2, <3>1, <4>1 DEF SharedRun, Exclusive
        <5> QED BY <1>1, <2>0, <4>1, <5>1, WritesHere, OtherIsShared
      <4>2. CASE ~Attends(q)
        BY <2>0, <4>2 DEF SharedRun
      <4> QED BY <4>1, <4>2
    <3> QED BY <3>2, <3>4, <3>5 DEF SharedInv
  <2>3. CASE Attends(r) /\ outcome[At(r)] # Pending
    <3>1. /\ SharedRun(r)' /\ LogAgrees' /\ UNCHANGED outcome
          /\ state' \in {state, [state EXCEPT ![At(r)] = Kind(outcome[At(r)])]}
      BY <1>1, <2>0, <2>3, ConcludingStep DEF SharedRun
    <3>2. ASSUME NEW q \in Runner \ {r} PROVE SharedRun(q)'
      <4>1. CASE Attends(q) /\ At(q) # At(r)
        BY <1>1, <2>0, <4>1, WritesHere, OtherIsShared
      <4>2. CASE Attends(q) /\ At(q) = At(r)
        BY <2>0, <2>3, <3>1, <4>2, Typed, OtherIsShared
      <4>3. CASE ~Attends(q)
        BY <2>0, <4>3 DEF SharedRun
      <4> QED BY <4>1, <4>2, <4>3
    <3> QED BY <3>1, <3>2 DEF SharedInv
  <2> QED BY <2>1, <2>2, <2>3
<1>2. CASE (\E c \in Candidate : ExpireLease(c)) \/ UNCHANGED vars
  <2>1. UNCHANGED <<state, stage, outcome, run>>
    BY <1>2 DEF ExpireLease, statusVars, lifecycleVars, vars, store
  <2>2. LogAgrees'
    BY <2>1 DEF SharedInv, LogAgrees
  <2> QED BY <2>1, <2>2, OtherIsShared DEF SharedInv
<1> QED BY <1>1, <1>2 DEF Next

-----------------------------------------------------------------------------
\* A sole process does not mutate a candidate again whose checkpoint is persisted,
\* wherever a crash, an interrupt or a failing transaction stopped the run before
\* (persist_campaign_checkpoint, and _resume_state which reads it back).
THEOREM SoleRunDoesNotRemutate ==
  ASSUME Sole
  PROVE  Spec => []NoRemutation
<1>1. Init => MutationInv
  BY DEF Init, MutationInv, Idle
<1>2. IndInv /\ MutationInv /\ [Next]_vars => MutationInv'
  BY CheckpointStaysKnown DEF Sole, Exclusive
<1>3. MutationInv => NoRemutation
  BY DEF MutationInv, NoRemutation
<1> QED BY <1>1, <1>2, <1>3, InvariantHolds, PTL DEF Spec

\* Leases that are extended in time exclude the processes of any number from each
\* other's candidates, whatever crashes, is interrupted or fails: two processes never work
\* at one candidate (LeasedWorkQueue.claim, which refuses an unexpired lease).
THEOREM TimelyLeasesExclude ==
  TimelySpec => [](HeldInv /\ Exclusive)
<1>1. Init => HeldInv
  BY DEF Init, HeldInv, Working, Idle
<1>2. IndInv /\ HeldInv /\ [Next /\ Timely]_vars => HeldInv'
  BY HeldStays
<1>3. HeldInv => Exclusive
  BY DEF HeldInv, Exclusive
<1>4. TimelySpec => Spec
  BY PTL DEF TimelySpec, Spec
<1> QED BY <1>1, <1>2, <1>3, <1>4, InvariantHolds, PTL DEF TimelySpec

\* So no process mutates a candidate whose checkpoint is persisted, however many work on
\* the campaign, as long as the leases of those that work do not expire.
THEOREM TimelyRunsDoNotRemutate ==
  TimelySpec => []NoRemutation
<1>1. Init => MutationInv
  BY DEF Init, MutationInv, Idle
<1>2. IndInv /\ MutationInv /\ Exclusive /\ [Next /\ Timely]_vars => MutationInv'
  BY CheckpointStaysKnown
<1>3. MutationInv => NoRemutation
  BY DEF MutationInv, NoRemutation
<1>4. TimelySpec => Spec
  BY PTL DEF TimelySpec, Spec
<1> QED BY <1>1, <1>2, <1>3, <1>4, InvariantHolds, TimelyLeasesExclude, PTL DEF TimelySpec

\* The log and the outcome never disagree about how a candidate ended, for any number of
\* processes whose leases do not expire while they work and whose transactions succeed:
\* whoever reconciles a candidate without its lease writes what its outcome says
\* (_reconcile_terminal, called from the first loop of run).
THEOREM TimelyRunsAgreeWithLog ==
  ASSUME ~StoreFaults
  PROVE  TimelySpec => []StateMatchesOutcome
<1>1. Init => MutationInv /\ SharedInv
  BY Outcomes DEF Init, LifecycleInit, Idle, MutationInv, SharedInv, SharedRun, LogAgrees,
     Active, Kind, Pending, Verdicts
<1>2. IndInv /\ IndInv' /\ MutationInv /\ SharedInv /\ Exclusive /\ [Next /\ Timely]_vars
        => MutationInv' /\ SharedInv'
  BY CheckpointStaysKnown, SharedStays
<1>3. IndInv /\ SharedInv => StateMatchesOutcome
  BY Typed, Outcomes DEF SharedInv, LogAgrees, StateMatchesOutcome, Terminal, Verdicts
<1>4. TimelySpec => Spec
  BY PTL DEF TimelySpec, Spec
<1> QED BY <1>1, <1>2, <1>3, <1>4, InvariantHolds, TimelyLeasesExclude, PTL DEF TimelySpec

\* The invariant of a sole process whose transactions succeed.
THEOREM SoleRunIsOrderly ==
  ASSUME Sole, ~StoreFaults
  PROVE  Spec => []SoloInv
<1>1. Init => MutationInv /\ SoloInv
  BY Outcomes DEF Init, LifecycleInit, Idle, MutationInv, SoloInv, LogAgrees, Active,
     Kind, Pending, Verdicts, Unconcluded
<1>2. IndInv /\ MutationInv /\ SoloInv /\ [Next]_vars => MutationInv' /\ SoloInv'
  BY CheckpointStaysKnown, SoloStays DEF Sole, Exclusive
<1> QED BY <1>1, <1>2, InvariantHolds, PTL DEF Spec

\* The log and the outcome never disagree about how a candidate ended, if one
\* process works at a time and its transactions succeed: each end is written to
\* both, in either order, and a run that comes later finishes what is missing
\* (_reconcile_terminal).
THEOREM SoleRunAgreesWithLog ==
  ASSUME Sole, ~StoreFaults
  PROVE  Spec => []StateMatchesOutcome
<1>1. IndInv /\ SoloInv => StateMatchesOutcome
  BY Typed, Outcomes DEF SoloInv, LogAgrees, StateMatchesOutcome, Terminal, Verdicts
<1> QED BY <1>1, InvariantHolds, SoleRunIsOrderly, PTL

\* No exception leaves run(): none is raised outside the try block, and the
\* exceptions of the worker end with the candidate.
THEOREM SoleRunDoesNotAbort ==
  ASSUME Sole, ~StoreFaults
  PROVE  Spec => []NoAbort
<1>1. SoloInv => NoAbort
  BY DEF SoloInv, NoAbort
<1> QED BY <1>1, SoleRunIsOrderly, PTL
=============================================================================
