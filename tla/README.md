# ModelSurgeon in TLA+

A verification development for ModelSurgeon, kept beside its source: TLA+ modules of the
parts that coordinate (the campaign runner, the candidate event log, the lease queue, the
worker scheduler, the optimize orchestrator, the tool dispatcher, conversational campaigns,
the GGUF writers, the artifact registry and the search reservations), TLC configurations that
check them on small instances, and TLAPS proofs about each of them for every value of its
constants.

Paths below are relative to the repository; `experiments/` and the like are packages of
`src/modelsurgeon/`.

Contents

1. The system: components, state, operations, interactions
2. What is hard in it
3. Modules, and how they correspond to the code
4. Runs: what each checks, its bounds and its fairness
5. Theorems
6. Where the code and its documents disagree
7. What is not modelled
8. What could follow


## 1. The system

ModelSurgeon edits neural networks (it removes attention heads, MLP channels or layers),
measures the result, and keeps evidence for every claim. Most of its 140 000 lines are
data: parsers and codecs of model formats, tensor arithmetic, records with digests, studies
over finished experiments. The control is in a few places, listed first.

### Components with state

| Component | State | Operations | Correct when |
|---|---|---|---|
| Campaign runner, `experiments/campaign.py` | per candidate a status row: checkpoint, outcome and evidence, recovery history | `run`: scan and reconcile all candidates, then claim, mutate, evaluate and conclude each; persist checkpoint / outcome | a restart continues where the last run was left; no persisted mutation is made again; the log and the outcome agree; one candidate's failure is its own; every candidate ends |
| OOM recovery, `experiments/oom_recovery.py` | attempts of one stage | run the stage, on OOM record the event, adapt the configuration, retry, or exhaust | retries are bounded and each is an allowed transition |
| Candidate event log, `experiments/state_machine.py` | an append-only sequence of events per candidate | `initialize`, `transition`, `recovery_plan`, queries | events follow the transition table, whoever appends; terminal states are final |
| Lease queue, `experiments/queue.py` | a lease row per candidate: worker, generation, heartbeat, expiry, completion | `claim`, `heartbeat`, `complete` | one holder at a time until the lease expires; a stale token changes nothing; a completed candidate is not claimed |
| Metadata store, `experiments/store.py` | SQLite in WAL mode, `synchronous=NORMAL` | `IMMEDIATE` write transactions, reads | the write transactions of all processes are serialised |
| Schema migrations, `experiments/migrations.py` | schema version | ordered migrations on open, one transaction each | a store is at one version, with the tables of it |
| Artifact store and registry, `experiments/artifacts.py`, `registry.py` | files by digest; a JSON catalog with leases and references | publish, alias, lease, reference, collect | nothing protected is collected; what the catalog lists can be read |
| Resource budget, `experiments/resource_budget.py` | the spending of a stage | run a stage under a budget | the stage stops at its limit |
| Worker scheduler, `experiments/worker_scheduler.py` | profiles, budgets, a queue, assignments, results, in memory | `register`, `set_campaign_budget`, `submit`, `schedule`, `heartbeat`, `complete` | budgets and capacities hold; a result comes from the last lease; no placeable task starves |
| Optimize orchestrator, `optimization_orchestrator.py` | one JSON file per run: stages, approvals, overrides, outcome, audit chain | `run`, an invocation that starts or resumes it | completed work is kept; approvals are needed, counted and expire; only measured results are accepted |
| Campaign coordinator, `experiments/coordinator.py` | decisions on candidates | `promote`, `replan` | the gate accepts only complete, committed, measured evidence |
| Conversational campaign store, `conversation/campaign_state.py` | versioned campaign records and evidence in SQLite | lifecycle commands and transitions that name the version they read; retain evidence | nothing is written over a record that was not read; evidence is only added to; work runs under an approval |
| Chat execution, `conversation/execution.py`, `campaign.py` | handlers with their tokens, pause events and the optimize run they drive | execute, pause, resume, cancel; retain and finish | a campaign ends as what is retained about its run |
| Replanning, `conversation/replanning.py` | a proposal for a version of the parent | propose, apply in two transactions | the child is derived once, from what the proposal saw |
| Tool dispatcher and transactions, `conversation/dispatcher.py`, `transaction.py` | calls in flight, replay ledger, transaction handles | dispatch with timeout and retries; begin, commit, roll back | a supported answer stands for one commit; nothing runs twice; every call is answered |
| Search resume, `cli/search.py`, `search/resume.py` | append-only snapshots and a head per search | load, select, save | the budget holds; no candidate is granted twice; every reservation is reported |
| Search lifecycle, `search/lifecycle.py` | an immutable snapshot | reserve, materialize, accept | not used by the program itself |
| Active-learning schedule, `active_learning/scheduler.py` | a durable schedule file | read, advance, replace | no batch is lost or run twice |
| Progress store, `progress.py` | a snapshot file with a control field | worker updates, operator pauses or cancels | a request of the operator is not lost |
| GGUF writers, `adapters/gguf/resume.py`, `writer.py` | a staging file and its manifest | write tensors, commit, resume, discard, publish | the destination gets one whole model or none; a crash at any point can be resumed |
| Surgery transaction, `surgery/transaction.py`, `surgery/checkpoint_destination.py` | a model being edited; a staged checkpoint | begin, apply, validate, commit, roll back, publish | all or nothing |
| Baseline and feature caches, `evaluation/baseline_cache.py`, `features/cache.py` | files by key | publish by hard link or rename, load | first writer wins; no partial entry is read |

### Components without control state

Candidate enumeration, batch planning and identities; hardware probes and telemetry;
packages, manifests and signed evidence; clarification, intent and text-model providers;
search policies and candidate spaces; acquisition; GGUF, Hugging Face and safetensors
codecs; surgery rules, masks and repair; tiered evaluation, metrics and studies; optimize
runtimes; surgeon models and datasets; features, graph and instrumentation; explanations;
configuration, plugins and the command line. `PROJECT.json` lists each with its sources.

### Interactions

```
cli/optimize.py ──> OptimizeOrchestrator.run ──> runtime.run_stage (11 stages)
                        │  saves the run file after every step
                        └──> AutonomousCampaignCoordinator.promote

CampaignRunner.run  (any number of processes, one SQLite file)
   ├── persist_campaign_checkpoint / _outcome ──> campaign status rows
   ├── ExperimentStateMachine.transition      ──> candidate event log
   ├── PersistentWorkQueue.claim/heartbeat/complete ──> candidate leases
   └── run_with_oom_recovery ──> worker.mutate / worker.evaluate

cli/chat ──> ChatOptimizeAdapter.execute ──> ToolDispatcher.dispatch ──> handler thread
                 │ pause / resume / cancel                                 ├── CanonicalCampaignRecorder ──> CampaignStateStore
                 └── apply_replan ──> CampaignStateStore                   └── OptimizeOrchestrator.run

modelsurgeon search (any number of processes) ──> SearchResumeStore
GGUF surgery ──> write_gguf_resumably / write_gguf_transactionally ──> output path
registry commands ──> LocalArtifactRegistry ──> ContentAddressedArtifactStore

owner of a WorkerScheduler ── submit, schedule ──> WorkerScheduler <── heartbeat, complete ── workers
```

The three tables of a campaign are written in *separate* transactions. No transaction spans
two of them, and the event log is not fenced by the lease: a process whose lease was given
to somebody else can still append events and persist outcomes. Why the campaign survives
that is the subject of the core model.


## 2. What is hard in it

`PROJECT.json` lists every hazard with its line. The kinds:

- *A step of another process between a read and the write that uses it.* `transition` reads
  the log and validates outside the write transaction, and compares the state again inside.
  `run` reads a status, then the state, then acts. `claim` reads the clock before it opens
  its transaction, and may wait there for as long as SQLite's busy timeout.
- *Unfenced writes after a lost lease.* Heartbeats are sent before an attempt, not during
  it, so an attempt longer than the lease loses it, and its results are persisted anyway.
- *A crash between two of the separate transactions*: checkpoint persisted and stage not
  entered, outcome persisted and state not concluded, state concluded and lease not
  completed. The next `run` reconciles.
- *A failing transaction.* A `sqlite3.Error` is no `ExperimentStateError`; which handler it
  reaches depends on where it happens.
- *Exhausted resources*: OOM retries, attempts of a task, budgets of a campaign, capacities.
- *Calls with old tokens* after a task or candidate was given to somebody else, or after its
  worker registered again with other capabilities.
- *Two saves that belong together* in an optimize run, approvals counted in one invocation
  and looked at in the next, and a clock that is read twice in between.
- *A thread nobody can stop*: the handler of a tool call that timed out goes on, with its
  transaction handle and its campaign recorder, beside the answer and beside the next call.
- *Files that belong together*: a staging file and its manifest, an object and the catalog
  that lists it, each changed in steps a death or a power loss can part.
- *A check before the lock*: the head of a search is compared before SQLite's transaction
  begins, as the version of a campaign is read long before the transition that names it.
- *Something must end*: a candidate under crashes and lost leases, a task whose workers die,
  a run that pauses for approvals.


## 3. Modules

| Module | Models | Uses |
|---|---|---|
| `CandidateLifecycle` | abstract: what the event log promises about a candidate | |
| `LeaseTable` | abstract: what the lease queue promises, the clock reduced to expiry | |
| `CampaignRunner` | `CampaignRunner.run`, processes sharing one store | extends `CandidateLifecycle`, instantiates `LeaseTable` |
| `CampaignInvariant` | the inductive invariants of `CampaignRunner`: of any processes, of processes that their leases keep apart, of one process | extends `CampaignRunner` |
| `CandidateStore` | the event log and the lease rows over SQLite, with clock, tokens, generations | refines `CandidateLifecycle`, instantiates `LeaseTable` for each caller |
| `WorkerScheduler` | the in-process scheduler | |
| `OptimizeRun` | the optimize orchestrator, its approvals and the promotion gate | |
| `ToolDispatch` | the tool dispatcher and its transaction boundary, two threads per call | |
| `CampaignPromise` | abstract: what the documents promise of a conversational campaign | |
| `ChatCampaign` | campaign store, execution handlers, operator commands and a replan | refines `CampaignPromise` |
| `OutputPromise` | abstract: what the documents promise of an output path | |
| `GGUFWriter` | the resumable and the transactional GGUF writer on one path | refines `OutputPromise` |
| `ArtifactRegistry` | the registry over its objects, one session at a time | |
| `ReservationLedger` | abstract: batches of candidates reserved within a budget | |
| `SearchReservation` | search commands over the snapshot store | refines `ReservationLedger` |
| `*_proofs` | theorems about a module and their proofs | each extends its module; `Publication_proofs` extends `GGUFWriter` and `ArtifactRegistry` |
| `MC*` | instances for TLC | |

Definitions keep the names of the code where they can. An operator `F_What` next to an `F`,
under a comment `Mistake: ...`, is a plausible wrong version of `F`: each property is
checked to fail when `F` is replaced by one of them.

### CandidateLifecycle and LeaseTable

Two small specifications of what the two tables promise. A candidate has a `state` (of its
last event) and a `stage` (mutation or evaluation, of its last active event: that is what
`_active_stage_before_recovery` reads), and one action, `Advance`, along the transition
table `Direct`. A lease has an `owner` (the process that holds the last token), may be
`live`, may be `completed`; it expires at any time between two heartbeats.

The campaign runner uses the operators of `LeaseTable` and is shown to implement
`CandidateLifecycle`. `CandidateStore` has the log and the rows: the log is shown to implement
`CandidateLifecycle`, and each call on a row to be an action of `LeaseTable` *by its caller*.

### CampaignRunner

Any number of processes (`Runner`) execute `run` over one store. One action is one store
transaction or one call of the worker, and the locals of `run` are a record `run[r]` whose
`pc` is the place in the code. Between any two actions another process may act, a lease may
expire, the process may crash.

| Action | Code |
|---|---|
| `Start`, `ScanStatus`, `ScanState`, `ScanDone` | the first loop of `run` |
| `Reconcile`, `ReconcileRead`, `ReconcileStep` | `_reconcile_terminal`, a loop of reads and transitions |
| `ClaimCandidate`, `ReadStatus`, `Resume`, `Decide`, `Load` | the second loop, `_resume_state`, `_run_candidate` |
| `Enter`, `Attempt`, `Operate`, `Retry`, `Exhaust` | `run_with_oom_recovery` around a stage |
| `SaveCheckpoint`, `SaveOutcome`, `SaveExhausted` | `persist_campaign_checkpoint`, `persist_campaign_outcome` with their conflict checks |
| `Plan`, `Validate`, `Append` | `recovery_plan` and the two halves of `transition` |
| `ExceptState`, `ExceptOutcome`, `Finally` | the handlers of the second loop |
| `Crash`, `Interrupt`, `StoreFails`, `ExpireLease` | the environment |

An exception is a jump that depends on `mode`: in the scan it leaves `run`, in the work it
reaches the `except` clause, in that clause it is suppressed. A `KeyboardInterrupt` goes
through `finally` only. A SQLite error takes the way that Python gives it, which is not the
one of an `ExperimentStateError`.

Abstracted: the recovery history (written and never read back by the runner), the report of
a run, registration (idempotent, so part of `Init`), the baseline (its failure is a crash of
the run), the order of candidates, and which OOM adaptation is chosen (`RetryBudget` counts
how many there are). Evidence is a model value: the checkpoint a mutation made, the report
an evaluation returned; the conflict checks compare exactly these. `FailedBy("error")`
stands for every error text.

The store is durable: a process crash loses no committed transaction. With
`synchronous=NORMAL` a crash of the *machine* may lose the last commits; that returns the
store to an earlier state of the same behaviour, which is again a reachable one, but
`EvidenceIsImmutable` then holds only from the recovered state on.

### CandidateStore

The two tables in detail, with callers that use them in any order and not just as the
campaign runner does. `log` is the sequence of states, `row` the lease row with holder,
generation, heartbeat, expiry and completion; a token is a holder and a generation. A call
that needs the time is two steps, `ReadClock` and the transaction, and so is a transition,
`ReadLog` and `AppendEvent`: what was read may be old. `Crash` forgets what a process has
read and holds, `Reboot` does it for all of them and starts the monotonic clock again, as
`campaign.py:695` takes it from `time.monotonic_ns`.

### WorkerScheduler

One action per call, because every call of this in-process object ends before the next.
`Schedule` is the whole pass: it reaps what has expired, then places the queue in order, each
task on the first worker that fits after what the same pass has placed before it. What a worker
carries is counted as a set of demanded units (`Units`, `Load`), which is the sum that the code
keeps. The pass is a function `placed` from queued tasks to workers that agrees with the loop
at every task (`Greedy`); there is exactly one. What interleaves is the world: time, workers
that register again with another profile, and workers that call with the token of an old
attempt (`granted` keeps every lease ever handed out, so any of them may come back).

The clock is abstracted to the time a lease has left. A token is a task and an attempt; a
result also keeps the attempt it came from, which the code does not store and only the
properties read. Calls that raise and change nothing are not actions.

### OptimizeRun

One run and the invocations that continue it. Every save of the run file is a step. After a
save, memory and file agree, so the state is the file and the place the invocation has
reached; `Die` may happen between any two saves. `Invoke` is the part of `run` that records
approvals and overrides, refuses, pauses or starts; `StartStage`, `FinishStage`, `Reject`
and `Conclude` are the loop and the gate; `Interrupt` is the durable pause. Approvals have
a reuse policy, uses and an expiry; a `serial` tells those issued for the same code apart
(the code's `approval_id`). A fresh approval counts even if its expiry has passed, as in
the code. `starts` is a ghost that counts what each approval has started.

`_record_inputs` reads the clock for an approval when it asks what is missing (line 917) and
again when it counts the approval (line 970). `Invoke` decides the first at `clock`; by the end
of the call the clock has moved on to any later time, and each approval is counted as of before
or after that, so an approval may expire between the two. (When every approval is found active,
all were at the first of their readings, and when one is not the others do not matter: so one
time stands for the readings at line 917.)

Abstracted: the eleven stages to `StageCount`, with the Pareto stage among them; the
identities an invocation must match; the audit chain; the evidence of a result to the set of
checks of the gate it passes. One invocation runs at a time: nothing says the file may be shared, and
`docs/design/campaign-recovery-matrix.md` leaves multiple writers out.

### ToolDispatch

Two threads work on one request. The dispatcher's thread (`phase`) admits the call, begins an
attempt with a transaction handle, polls for the handler's result, the token and the clock,
closes the transaction, retries or answers, and records the answer. The handler's thread
(`handler`) ends as it likes, calls commit or rollback on its handle whenever it likes, and
goes on after the call was given up. A transaction call is three steps, because the boundary
looks the handle up under its lock, calls the participant of the engine outside it and retires
the handle under the lock again (`Participate`, `Move`, `Assign`, with `op` the place of each
thread): both threads may be in one for the same handle.

`Admit`, `Begin*`, `See*`, `Publish`, `Published`, `Accept`, `Retry`, `GiveUp` and `Record` are
the parts of `dispatch` and `_execute` between two places where the other thread can be seen.
A participant may raise, which leaves the handle active, and the copy of a request may fail
(`Faults`). `engine` is what the participant of the attempt was told, `effects` what the engine
has committed for the request: a commit that raises has not committed.

### ChatCampaign and CampaignPromise

`campaign` holds the versioned records of a root campaign and of the child a replan may derive,
`archive` the evidence retained under IDs, `file` the state file of the optimize run. Actors
are handlers of `execute_approved_plan`, which may overlap, since a handler that timed out is
not stopped; a command of the operator; and a replan. Every read of the store and every write
is a step of its own, and a write names the version its decision was read at (`Current`). The
lapse of an approval is the clock. `Crash` ends the process with all of its handlers.

A handler is: ensure the campaign exists, look at its approval (which it may write down as
expired), begin the work, drive the run stage by stage, and retain: the audit chain, each
stage, the run, then the end of the campaign. The purpose of a call tells the two calls of
`start` apart which one execution makes. `CampaignPromise` says in six actions what
`docs/design/conversational-campaign-state.md` promises; approvals only expire, evidence is
only added to, and an execution ends a campaign only over evidence of that outcome.

### GGUFWriter and OutputPromise

Every file operation of `write_gguf_resumably` is a step: create the staging file, write and
replace the manifest, write a tensor in chunks, synchronize it, link, unlink twice. Between any
two the process may die, the host may lose what was not synchronized (`Survivor`), and between
two calls the staging file may be damaged. `discard_resumable_gguf` and
`write_gguf_transactionally` work on the same destination. A file is the sequence of the plans
its whole tensors were made for, with `synced` of them safe, and a flag for bytes behind them.
`OutputPromise` is the destination alone: absent, then one whole model, for good.

### ArtifactRegistry

A session has a catalog in memory, and saves it whole after each operation; objects are renamed
into place before the catalog lists them, and a collection deletes them file by file (`torn`,
then `absent`) before the catalog that forgets them is saved. `SessionDies` may come between
any two steps. `lost` is a ghost: what a collection had taken apart when it died.

One session at a time. The code has no lock and no version to compare, so with two sessions
every property below fails at once (section 6); what is left to ask is what a death can do.

### SearchReservation and ReservationLedger

A command of the search loads the latest snapshot and selects a batch (`Load`, `Batches`),
reads the head (`CheckHead`), appends the next snapshot (`Write`) and reports (`Report`). The
head is read before SQLite's transaction begins, so two commands may pass the check; the
primary key of the snapshots is what refuses the second. `ReservationLedger` is the set of
reserved candidates, which grows by a batch within the budget.


## 4. Runs

Run one with `tlc -workers 2 -config <name>.cfg <module>`.

### Passing

`campaign_single` (`MCCampaignRunner`; 108 000 states). One process, two candidates, under
`FairSpec`, with crashes, interrupts, OOMs, restarts and expiring leases.
`StateMatchesOutcome`: log and outcome never disagree about how a candidate ended.
`NoRemutation`: a candidate with a persisted checkpoint is not mutated again, wherever the
previous run stopped. `NoAbort`: no error leaves `run`. `EveryCandidateEnds`: once crashes
stop and working processes heartbeat in time, every candidate reaches an end. Two candidates
are needed for the second loop to go on after the first one fails or is leased elsewhere; one
OOM retry for both sides of the budget. The three safety properties are about *one* process:
with two and an expiring lease a candidate may be mutated twice and its log may disagree with
its outcome, because the writes of the process that lost the lease are not fenced; with
failing transactions even one process breaks `StateMatchesOutcome` (section 6). The
theorems `SoleRun...` and `TimelyRuns...` of section 5 say exactly what each needs.

`campaign_pair` (`MCCampaignRunner`; 2 433 000 states). Two processes on one candidate, whose
lease may pass from one to the other at any moment, two possible checkpoints and two reports so
that their evidence can conflict, failing transactions on. It checks what survives the unfenced
writes of the process that lost its lease: `EvidenceIsImmutable`, the refinement
`LifecycleSpec`, and the inductive invariant `IndInv`, whose conjuncts `StageHasCheckpoint`,
`VerdictHasOutcome` and `CompletedIsTerminal` are theorems of their own. Processes are
symmetric. Every table is per candidate and a process works on one at a time, so one candidate
loses no interaction.

`candidate_store` (`MCCandidateStore`; 624 000 states). Two processes, one candidate, a lease
of two ticks, so that a heartbeat can come before, at and after half of it, a clock up to 4,
three claims and five events: enough for a lease to be claimed, extended, lost, taken over and
completed while an old call is still under way, and for a log through both stages and a
recovery. `LogImplementsLifecycle`: the log moves along the table under concurrent appends.
`OnlyHolderWrites`: a row changes only by a claim of a lease that is not live, or by a heartbeat
or a completion with the token of the last claim, each as `LeaseTable` allows it to that process
at the time the process has read; a call with a stale token, or one that comes too late, changes
nothing. `TakeoverAfterExpiry`: however old the time a claimant has read, the lease it takes has
expired by now. `StoreInv`: the inductive
invariant these rest on, of the rows and of what each process has read.

`worker_scheduler` (`MCWorkerScheduler`; 70 000 states). Three tasks of two campaigns, two
workers that may register a small or a large profile at any time, a task that fills the large
one alone, budgets that bind on either of their two limits, tasks with one attempt and with
two. `SchedulerInv`: an entry agrees with its attempts and its leases. `BudgetsHold`: the
counters equal what they count and stay within the budgets. `ResultOfLastLease`: late calls
with old leases publish nothing. `NeverOvercommits`: no pass gives a worker more than its
*present* profile allows, though what it runs was placed under another. `WorkConserving`: no
pass leaves a task waiting that a worker could take. `EveryTaskEnds`: a placeable task ends
even if every lease expires.

`optimize_run` (`MCOptimizeRun`; 288 000 states). Three stages with the Pareto stage in the
middle, one required approval, one override, every combination of approvals, policies, expiries
and overrides at each invocation, one interruption or death, and a clock that can pass an
expiry, between two calls and within one. `RunInv`: the place of the invocation fits what the
file holds, and every approval counts what it has started, but for one invocation during whose
beginning it expired; such an approval is not spent either, so it can neither start another nor
be renewed (`StartsAreCounted`). `AcceptedIsMeasured`, `CompletedIsKept`,
`OneTimeStartsOnce`, `StartIsApproved`, and `EndsUnlessLapsed`: resumed with every approval,
the run ends unless an approval lapses. Deadlock is not checked because a run that has ended
stops.

`tool_dispatch` (`MCToolDispatch`; 436 000 states). A consequential request with a participant,
whose handler may end in every way, and a read-only one that competes with it for the one
transaction of the boundary; one retry, participants and copies that fail, cancellation, a
clock. `SupportedIsCommitted`: a supported answer means the engine was told to commit and
nothing else. `EffectOnce`: retries, cancellation and late handlers together commit once,
unless a handler declared itself idempotent. `NotRunAgain`, `EveryCallIsAnswered` (even if the
handler hangs), and the inductive invariant `DispatchInv`. A dispatcher that has answered
everything stops, so deadlock is not checked.

`chat_campaign` (`MCChatCampaign`; 2.9 million states). Two handlers that may overlap, two
executions, one replan, two events out of timeouts, commands, lapses, replans and crashes, and
a run of two stages, which may be interrupted, may raise, or may be rejected after its last
stage, under either reuse policy. That is enough for a handler that timed out to meet the
execution after it, for a command or a replan to come between the read and the write of either,
and for an approval to lapse between two calls of `start`. `ChatInv` is the inductive
invariant: every write is decided on the record it replaces, an ID names one record, what a
handler is about to conclude is retained. `AcceptedIsBacked`: a campaign that ended supported
has its accepted run, every stage of it and the artifact in the archive.
`CampaignKeepsItsPromise` is the refinement. Handlers are symmetric. The run stops when all
executions are used up, so deadlock is not checked.

`gguf_writer` (`MCGGUFWriter`; 10 800 states). Three tensors, two plans of different layout and
up to four faults: a writer can die in the middle of a file, be resumed, die again, be
discarded by the other plan, and be overtaken by the transactional one. `PublishesWhole` is the
refinement of `OutputPromise`; `CommittedStays`: no committed tensor is lost or written again;
`WriterInv` the inductive invariant; `ExportEnds`: an export that is run again ends published,
unless a death between the creation of the staging file and the first manifest tore the two
apart, or committed bytes were damaged. Both exceptions need a discard by hand.

`artifact_registry` (`MCArtifactRegistry`; 57 500 states). Two digests, an alias, a lease, every
flag and reference, two deaths. `NothingProtectedIsRemoved`: no artifact loses its object that
the *saved* catalog protects, though the collection works from the one in memory and deaths
part the two. `RegistryInv`: what the saved catalog lists can be read, but for what a collection
is taking apart or took apart when it died; every alias, lease and reference has its artifact
(`NothingDangles`); and the catalog in memory is the saved one, less what the collection has
removed (`SessionAgrees`), which makes it inductive.

`search_reservation` (`MCSearchReservation`; 221 000 states). Two processes, three candidates, a
beam of two and a budget of two, so that a second batch must be cut; pools that differ from
command to command, one death. `LedgerIsKept` is the refinement, `SearchInv` the inductive
invariant (the snapshots form one line), `EveryReservationIsReported`: what a command reserved
and did not live to print is printed by a later one. Searches end, so deadlock is not checked.

### Violations

Two runs check one statement of the repository each, which the code does not keep:
`gguf_other_plan` and `chat_one_time`. Nine more configurations stand beside them for the
other statements of section 6 that have a property: `campaign_pair_abort` and
`campaign_store_fault` (`MCCampaignRunner`), `store_reboot` (`MCCandidateStore`),
`optimize_rejection`, `optimize_override`, `optimize_uncounted` and `optimize_resume`
(`MCOptimizeRun`),
`ledger_overfull` (`MCToolDispatch`) and `chat_late_pause` (`MCChatCampaign`); TLC prints a
trace for each.

One more, `campaign_timely` (`MCCampaignRunner`; 11 500 states), passes: it checks the invariants
of two processes whose leases do not expire while they work (`TimelySpec`), which section 5
proves for any number.

### Bounds

`RetryBudget` is a number of the program (retries and adaptations are finite).
`MaxTime`, `MaxGeneration` and `MaxEvents` bound the clock, the claims and the log of
`CandidateStore`; `MaxTime` and `MaxFailures` the clock and the interruptions of
`OptimizeRun`, and with them the invocations and so the approvals it can count. They only cut
behaviours off: no action behaves differently near a bound.
`MaxRetries`, `MaxReplay`, `MaxActive` are settings of the dispatcher, `Budget` and `Width` of a
search. `MaxCalls` and `MaxEvents` bound the executions and the environment of `ChatCampaign`,
`MaxFaults` the faults and discards of `GGUFWriter` and the faults of `SearchReservation`,
`MaxDeaths` those of `ArtifactRegistry`. `MaxGenerations` stops new search commands once there
are so many snapshots, except while a reservation is still to be reported, so that it does not
decide about `EveryReservationIsReported`.

### Fairness

- `CampaignRunner`: weak fairness of each process's own steps, `Start` included: `run` is
  ordinary sequential code, and a campaign is started again until it is done, which is what
  its documents say a restart is for. Weak fairness of the expiry of a lease nobody is working
  under: the clock passes a stored expiry that nothing moves. Nothing is assumed of the
  worker's results, and nothing forbids crashes: `Calm` is the hypothesis that they stop.
- `WorkerScheduler`: weak fairness of `Schedule` and of `Tick`, the owner of the scheduler and
  the clock. Nothing is assumed of workers, which may all stop; `Settled` is the hypothesis
  that from some point profiles stay and no lease is extended for ever.
- `OptimizeRun`: weak fairness of the invocation's steps, and of `Resume`, an operator who
  resumes a run that has not ended with every approval and an expiry to come.
- `ToolDispatch`: weak fairness of the dispatcher's steps and of the clock. None of the
  handler's: it may hang for ever.
- `GGUFWriter`: weak fairness of a call's own steps, strong fairness of `Begin` for each plan:
  the guide tells the user to run an interrupted export again, and other calls may keep
  occupying the path in between. Faults stop at their bound.
- `SearchReservation`: weak fairness of a command's own steps, and strong fairness of the start
  of a resumed command, with any pool, while something is unreported: a user who did not get
  the output resumes the search.


## 5. Theorems

Eight modules hold proofs. The assumptions are those named in the modules
(`CampaignAssumption`, `StoreAssumption`, `SchedulerAssumption`, `NoResultAssumption`,
`RunAssumption`, `DispatchAssumption`, `NoneAssumption`, `ChatAssumption`, `WriterAssumption`,
`RegistryAssumption`, `SearchAssumption`): null values are no members of the sets they stand
beside, bounds are natural numbers, and what a `.cfg` gives as a function has the domain and
range it should.

### CampaignRunner_proofs

It proves, for any sets of processes, candidates, checkpoints and
reports, and any retry budget, with crashes, interrupts, expiring leases and failing
transactions (`CampaignAssumption` only says that the null values are no members and that
`RetryBudget` is a natural number):

| Theorem | States |
|---|---|
| `InvariantHolds` | `Spec => []IndInv` |
| `TypeCorrect` | `Spec => []TypeOK` |
| `EvaluationIsResumable` | `Spec => []StageHasCheckpoint` |
| `VerdictsAreBacked` | `Spec => []VerdictHasOutcome` |
| `CompletedIsOver` | `Spec => []CompletedIsTerminal` |
| `EvidenceStays` | `Spec => EvidenceIsImmutable` |
| `LifecycleRefined` | `Spec => LifecycleSpec`, the runner implements the abstract lifecycle |

The argument. None of the safety properties is inductive: that a candidate in the evaluation
stage has a checkpoint depends on what a process knew when it called the transition, several
steps ago, while other processes went on. Leases cannot be the reason, since a process that
lost its lease goes on writing. The reason is that everything a process relies on is
something that cannot be undone: `Grows` says that a step of anybody writes a checkpoint at
most once, writes an outcome at most once, and leaves a terminal state as it is. `IndInv`
(module `CampaignInvariant`) is the type invariant, `StoreInv` (what holds of the store), and
for each process `RunInv`, what it may rely on at each place of its code: what it has seen
concluded still is (`SeenHolds`), the checkpoint it holds is persisted (`CheckpointHolds`),
the result it is about to save is of the right kind (`ResultHolds`), and the transition it
has under way is justified by the store (`CallJustified`). All of it is stable under `Grows`.

So the proof has three parts: every action `Grows`; every action of `r` preserves `RunInv(r)`
and a step that only `Grows` preserves it for all others; and every action preserves
`StoreInv`. `EvidenceStays` is a corollary of `Grows`, and `LifecycleRefined` holds because
every `Append` is justified and everything else stutters.

That much survives lost leases. What does not is proved from the hypothesis it needs, for
which there are two. `TimelySpec` is `Spec` with the steps left out in which a lease expires
under a process that works; `Sole` says that there is one process, whose leases may expire at
any time. `StoreFaults` is the constant that says whether a transaction may fail.

| Theorem | Hypotheses | States |
|---|---|---|
| `TimelyLeasesExclude` | | `TimelySpec => [](HeldInv /\ Exclusive)` |
| `TimelyRunsDoNotRemutate` | | `TimelySpec => []NoRemutation` |
| `TimelyRunsAgreeWithLog` | `~StoreFaults` | `TimelySpec => []StateMatchesOutcome` |
| `SoleRunDoesNotRemutate` | `Sole` | `Spec => []NoRemutation` |
| `SoleRunIsOrderly` | `Sole`, `~StoreFaults` | `Spec => []SoloInv` |
| `SoleRunAgreesWithLog` | `Sole`, `~StoreFaults` | `Spec => []StateMatchesOutcome` |
| `SoleRunDoesNotAbort` | `Sole`, `~StoreFaults` | `Spec => []NoAbort` |

None of the hypotheses can be dropped. Without `Sole` or `TimelySpec`, a process that lost its
lease mutates beside the next one. Without `~StoreFaults`, `campaign_store_fault` breaks
`StateMatchesOutcome` for one process. And `NoAbort` holds for one process only: in
`campaign_pair_abort` a run that starts meets another one that concludes, with no lease expired.

`TimelyLeasesExclude` is the promise of the lease queue carried over to the runner: `HeldInv`
says that the lease of a working process is its own and live, a claim is refused while a lease
is live, so two working processes are never at one candidate (`Exclusive`). From `Exclusive`
follows what a process knows of the checkpoint (`MutationInv`): it decides to mutate on the
checkpoint it has read, and nobody else writes one in between.

The log and the outcome need more, because a run that starts reconciles candidates *without*
their leases. The proof goes by the outcome of the candidate. While it is pending, only the
process that works there touches the log, and it is as good as alone: `SoloRun` gives the state
the log is in at each place of the code, and no transition is refused (`NothingRefused`). Once
the outcome is persisted, everybody who attends the candidate only has one event left to
append, the one the outcome says (`Concluding`); whoever comes second finds a state that is not
the one it has read, or a transition the table refuses, and neither the handler nor the end of
the run that follows changes anything. `SharedInv` puts the two together, with `LogAgrees`
about the tables. For a sole process the first half is all there is, so `SoloInv` holds, and
with it `NoAbort`.

### CandidateStore_proofs

For any number of processes and candidates, any lease duration and any bounds:

| Theorem | States |
|---|---|
| `InvariantHolds` | `Spec => [](StoreInv /\ LogIsPath)` |
| `LogsArePaths` | `Spec => []LogIsPath` |
| `TakeoversAreLate` | `Spec => TakeoverAfterExpiry` |
| `StaleTokensAreRefused` | `Spec => OnlyHolderWrites` |
| `LogRefines` | `Spec` implements `CandidateLifecycle` |

`StoreInv` is the conjunction of `RowInv`, which relates the times and the generation of a row,
and `ProcInv`, which says what a process may have read: a reading of the clock is never in the
future, a token is of a generation that was given out, and the event a process wants to append
follows the state it has read. The first makes a takeover late, for the claim compares the
expiry with an *older* time than the present. The last, with the comparison inside the
transaction, makes the appended event follow the present end of the log, though the validation
was made on an old one.

For `StaleTokensAreRefused` the lease table is instantiated at the time a caller has read
(`Leases(now)`): a lease is live to that caller if it expires later, whatever the clock says by
now. An abstraction whose state alone is compared would not do, since a heartbeat changes none
of it; the property names the process that calls.

### WorkerScheduler_proofs

For any finite sets of tasks and workers, any profiles, budgets, demands and attempts:

| Theorem | States |
|---|---|
| `EntriesAgree` | `Spec => []SchedulerInv` |
| `BudgetsRespected` | `Spec => []BudgetsHold` |
| `LastLeasePublishes` | `Spec => []ResultOfLastLease` |
| `AttemptsStayBounded` | `Spec => []AttemptsBounded` |
| `EndsStay` | `Spec => EndIsFinal` |
| `NothingOvercommitted` | `Spec => NeverOvercommits` |
| `PassIsWorkConserving` | `Spec => WorkConserving` |

The invariant is `TaskInv` for each task and `CampaignInv` for each campaign. The hard step is
`schedule`. What runs for a campaign afterwards is what ran before, without what has expired,
joined with what was placed; the two parts are disjoint, so the arithmetic of the counter,
`max(0, ...)` included, follows the cardinalities. The budget holds because of the *last* task
of the campaign that the pass placed, in the order of the queue (lemma `LastTask`): all
others of that campaign were placed before it, and it still found room.

`NothingOvercommitted` has the same shape with the last task placed on a *worker*: what the
worker runs after the pass is what it ran, what was placed before that task, and the task
itself, and for these it had room in its present profile. A load is the cardinality of a set of
units (`Units`), so that it grows with the set of tasks (`LoadGrows`) and adds up over disjoint
ones (`LoadAdds`) without an induction over sets. `PassIsWorkConserving` follows because what
was placed before a task that waits is part of what is placed in the end: a worker that refused
it then was no fuller than it is now.

### OptimizeRun_proofs

For any number of stages, kinds of approvals, overrides, checks and bounds:

| Theorem | States |
|---|---|
| `InvariantHolds` | `Spec => [](RunInv /\ AcceptedIsMeasured)` |
| `AcceptanceIsMeasured` | `Spec => []AcceptedIsMeasured` |
| `OneTimeIsOnce` | `Spec => []OneTimeStartsOnce` |
| `CompletedStays` | `Spec => CompletedIsKept` |
| `StartsAreApproved` | `Spec => StartIsApproved` |

`RunInv` ties the place of the invocation to what is saved, and the ghost count of what an
approval has started to the uses the code keeps, over renewals and deaths. An approval that is
found active has not expired, so it has started what it counts; if it then expires before it is
counted, it stays one behind for good, because it will not be found active again and, not being
spent, will not be replaced. A one-time approval is not active with a use and not spent when it
is one behind, so it starts one invocation.

### ToolDispatch_proofs

For any finite set of requests, whatever their handlers end with, any retries and limits:

| Theorem | States |
|---|---|
| `DispatchIsSafe` | `Spec => []DispatchInv` |
| `SupportedMeansCommitted` | `Spec => []SupportedIsCommitted` |
| `EffectsHappenOnce` | `Spec => []EffectOnce` |
| `OnlyUncopiedCallsLeak` | `Spec => []LeakOnlyBeforeHandler` |
| `AnsweredCallsAreNotRunAgain` | `Spec => NotRunAgain` |

The invariant is per request and says where the two threads can be at once (`ThreadsInv`), who
still holds the handle (`HandleInv`), what the engine has been told as far as either thread has
come (`EngineInv`) and what stands behind an answer (`AnswerInv`). The hard part is a close by
the dispatcher that meets a commit by the handler of the same handle; it ends well because a
supported answer is only given after the handler's thread is over.

### ChatCampaign_proofs

For any number of handlers, stages, calls and events, any results and reuse policies:

| Theorem | States |
|---|---|
| `ChatInvariant` | `Spec => []ChatInv` |
| `PromiseKept` | `Spec => CampaignKeepsItsPromise` |
| `SupportedIsBacked` | `Spec => []AcceptedIsBacked` |

What an actor knows of the record it read is no longer true when it writes. `ChatInv` says the
weaker thing that is: *if* the version of the record is still the one that was read, the copy
is the record. Evidence only grows, so what a handler has retained stays retained whoever else
writes; that is what carries `AcceptedIsBacked` over the overlap of two handlers.

### Publication_proofs

For any number of tensors, plans and faults of `GGUFWriter`, and for any digests, aliases,
leases and deaths of `ArtifactRegistry`:

| Theorem | States |
|---|---|
| `WriterInvariant` | `Spec => []WriterInv` |
| `OutputPromiseKept` | `Spec => PublishesWhole`, the writers implement `OutputPromise` |
| `CommittedTensorsStay` | `Spec => CommittedStays` |
| `CatalogBacked` | `RegistrySpec => []RegistryInv` |
| `ProtectedObjectsStay` | `RegistrySpec => NothingProtectedIsRemoved` |

`CommittedIsSynced` is the core: while a call is at work, what its manifest commits is in the
staging file and synchronized, so a power loss at any step costs one tensor at most. Nothing of
the kind holds between two calls, where the file may be damaged; a resumed call establishes it
again, by the digests it compares and by cutting the file off behind them.

For the registry, what matters is that the catalog in memory and the saved one differ only
while a collection runs, and then only in artifacts that neither protects (`SessionAgrees`). So
a collection takes apart nothing that the saved catalog protects, and dying in the middle of it
leaves nothing worse than unprotected artifacts without their objects, which `lost` names.
Every operation that saves a catalog is an instance of one lemma, `Saved`.

### SearchReservation_proofs

For any number of processes, any finite set of candidates, any budget, width and bounds:

| Theorem | States |
|---|---|
| `SearchInvariant` | `Spec => []SearchInv` |
| `LedgerKept` | `Spec => LedgerIsKept`, the commands implement `ReservationLedger` |

`SearchInv` says that the rows form one growing line up to the head, that what a command chose
fits behind the row *it has seen* (old as that may be), and that the row behind it, once
granted, is its own. The budget then follows from the row and not from the time of the check.

### What stays with TLC

The six liveness properties, since TLAPS has no rules for fairness and `ENABLED`:
`EveryCandidateEnds`, `EveryTaskEnds`, `EndsUnlessLapsed`, `EveryCallIsAnswered`, `ExportEnds`
and `EveryReservationIsReported`. Every invariant and every action property that a passing run
checks is a theorem, `StateMatchesOutcome`, `NoRemutation` and `NoAbort` from the hypotheses
named above.


## 6. Where the code and its documents disagree

Each of the first group has a configuration under which TLC finds the named property violated
and prints the trace. `gguf_other_plan` and `chat_one_time` are runs of `PROJECT.json`.

- `gguf_other_plan`, `PublishedIsOfOnePlan` of `GGUFWriter`. The guide says a resumed write
  verifies the plan (`docs/user-guides/native-gguf.md:109`). The identity is a digest of the
  output header and size (`resume.py:153-156`), which two plans share that keep the same number
  of heads: a write interrupted under one is finished under the other, and the published model
  mixes the tensors of both.
- `chat_one_time`, `OneTimeRunIsRetained` of `ChatCampaign`. The execution that has consumed a
  one-time approval looks at it again when it wants to retain its run (`campaign.py:434`),
  finds it used up, writes it down as expired and pauses the campaign
  (`docs/design/scoped-approvals.md`).
- `chat_late_pause`, `ResumedRunIsRetained`. The evidence ID of a stage digests its result, but
  the record also carries the artifact once the run has accepted it (`campaign.py:129`). A run
  that pauses behind its deciding stage retains the stage without it; the resumed and accepted
  run then conflicts with its own evidence and is not retained
  (`docs/design/chat-execution-adapter.md`: "can be resumed").
- `ledger_overfull`, `LedgerBounded` of `ToolDispatch`. The limit of the replay ledger is
  compared with completed requests alone; requests in flight together exceed it
  (`docs/design/conversational-tool-schemas.md:93`).
- `campaign_store_fault`, `StateMatchesOutcome` of `CampaignRunner`. A SQLite error in the last
  transition of a candidate makes the generic handler record FAILED in the log over an outcome
  SUCCEEDED that is already persisted. `campaign.py:639` calls that disagreement an error, and
  every later `run` of the campaign stops with it.
- `campaign_pair_abort`, `NoAbort`. The first loop reconciles outside any handler: a run that
  starts while another process concludes a candidate can lose the race for one transition and
  end with that error, against "isolating candidate failures" (`campaign.py:684`).
- `store_reboot`, `ExpiredStaysExpired` of `CandidateStore`. Lease times are readings of a clock
  that starts again when the host does, so a reboot can bring an expired lease back to life
  (`ARCHITECTURE.md:245`: "reboot-safe").
- `optimize_rejection`, `RejectionEnds` of `OptimizeRun`. The save of an unsupported stage and
  the save of the end it causes are two; a death between them makes the next invocation go on
  with the stages behind it (`docs/design/autonomous-optimize-orchestrator.md:52`).
- `optimize_override`, `OverrideNeedsLiveApproval`. An override counts as approved if any
  approval of its name was ever recorded, spent and expired ones included
  (`docs/design/scoped-approvals.md:15`).
- `optimize_uncounted`, `ConsumedBeforeWork`. An approval that expires after it was found active
  (`optimization_orchestrator.py:917`) and before it is counted (`:970`) starts the work without
  being consumed, nor is the use in the audit chain, against "consumes the approval before running
  the workflow" (`docs/design/scoped-approvals.md:13`).
- `optimize_resume`, `EveryRunEnds`. A reusable approval that expires is neither active nor
  replaced, so the run stays paused however often it is approved again (`README.md:570`).

Read in the code while modelling, without a property of its own:

- Registry. Two sessions at once undo each other's saves, and one collects what the other has
  just leased, although `docs/design/local-artifact-registry.md:23` protects what is held by a
  lease. A collection that dies inside `rmtree` leaves an object that can be neither published
  nor collected again; an alias may be given to such an artifact. References of an owner that
  was collected never go away.
- GGUF. A death between the creation of the staging file and the first manifest makes every
  rerun refuse (`Torn`), though the guide says to rerun; nothing synchronizes the directory; two
  resumable writers on one path share their staging file.
- Chat. After the timeout of an execution its handler overwrites the run file beside the next
  one, so stages may be evaluated twice; an execution started after a cancel or a failure still
  runs its stages before the store refuses it; the outcome of a completed campaign can be set
  again by a later execution. The child of a replan loses its link to the parent in its first
  transition, after which an exact replay of the proposal fails, as it does after a crash
  between the two transactions of `apply_replan`. A command repeated with its operation ID
  writes again once the state has moved on.
- Search. The candidate pool is not part of the identity of a search, so one search may reserve
  from several (`SearchReservation` takes a pool per command).
- Progress store. It reads and replaces its file without a lock, so an operator's pause can be
  lost to a worker's event, and any event that is not a pause lifts one. Replaying the
  completion of the *last* stage raises, although `docs/design/progress-resumability.md` calls
  a replay idempotent.
- Migrations. Two processes that open a new store read its version before either takes the
  write lock; the slower one fails on the tables of the other and is refused.
- The lifecycle diagram of `ARCHITECTURE.md` sends a recoverable OOM back to *planned*; the
  table in `state_machine.py` goes to the stage that was interrupted, or to failed. The models
  follow the table.


## 7. What is not modelled

- Data: formats, tensors, metrics, digests, records, statistics, policies. They are pure
  functions, and what the modelled components need of them is an input taken from a small set.
  This is most of the program: the models cover the places that keep state another actor, or
  a later call, depends on.
- The operating system: termination of process trees, file locks, the order of directory
  operations over a power loss.
- Components with state that one caller owns: the surgery transaction, the search lifecycle (not
  used by the program), the active-learning schedule, the caches, checkpoint destinations. Their
  steps cannot interleave with anything, or their one publication step is that of `GGUFWriter`.
- The progress store and the migrations, whose concurrent behaviour is in section 6.
- Of the modelled ones: tables of inputs, runs, artifacts and telemetry (written, not read by
  the control); `resource_budget.py`, which `campaign.py` does not call; `replan` and the
  decisions a coordinator keeps between calls; several invocations on one run file; the replay
  of an applied replan; sessions, specs and the schema migration of the campaign store; tags,
  bundles and signatures of the registry.


## 8. What could follow

- The progress store as a module, once it is decided what two writers of it may expect.
- A composition of `ChatCampaign` with `ToolDispatch` in full: now the first takes from the
  second that a handler may outlive its timeout, and no more.
