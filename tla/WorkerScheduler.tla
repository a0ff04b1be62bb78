----------------------------- MODULE WorkerScheduler -----------------------------
(***************************************************************************)
(* WorkerScheduler of experiments/worker_scheduler.py: one in-process      *)
(* control plane that places content-addressed tasks on registered workers *)
(* under expiring leases, and takes their results back once.               *)
(*                                                                         *)
(* Every call runs to its end before the next one, so every call is one    *)
(* action.  What interleaves is the world around the scheduler: workers    *)
(* that hold leases of attempts long given to somebody else and still call *)
(* heartbeat and complete with them, and the clock.                        *)
(*                                                                         *)
(* Abstracted: the clock to the time each lease has left, which is all the *)
(* code compares; a lease token to the task and the attempt it was made    *)
(* for; a worker's operations to the tasks they serve; calls that raise    *)
(* and change nothing.                                                     *)
(***************************************************************************)
EXTENDS Naturals, FiniteSets

CONSTANTS Task, Worker, Campaign,
          Resource,      \* ram_bytes, vram_bytes, disk_bytes, cpu_cores
          Profile,       \* the capability profiles a worker may register
          Budget,        \* the budgets a campaign may register
          Outcome,       \* the outcomes and output digests of a result
          NoWorker, NoProfile, NoBudget, NoResult,
          CampaignOf,    \* [Task -> Campaign]
          Demand,        \* [Task -> [Resource -> Nat]]
          MaxAttempts,   \* [Task -> Nat \ {0}]
          Rank,          \* [Task -> Nat], place by priority and then by task ID
          WorkerRank,    \* [Worker -> Nat], place by worker ID
          LeaseDuration

ASSUME SchedulerAssumption ==
  /\ IsFiniteSet(Task) /\ IsFiniteSet(Worker)
  /\ NoWorker \notin Worker /\ NoProfile \notin Profile /\ NoBudget \notin Budget
  /\ Profile \subseteq
       [serves : SUBSET Task, capacity : [Resource -> Nat], concurrency : Nat \ {0}]
  /\ Budget \subseteq [tasks : Nat \ {0}, concurrent : Nat \ {0}]
  /\ CampaignOf \in [Task -> Campaign]
  /\ Demand \in [Task -> [Resource -> Nat]]
  /\ MaxAttempts \in [Task -> Nat \ {0}]
  /\ Rank \in [Task -> Nat] /\ \A t, u \in Task : Rank[t] = Rank[u] => t = u
  /\ WorkerRank \in [Worker -> Nat]
  /\ \A w, v \in Worker : WorkerRank[w] = WorkerRank[v] => w = v
  /\ LeaseDuration \in Nat \ {0}

\* A result carries the attempt whose lease published it; the code keeps the worker.
Result == [outcome : Outcome, worker : Worker, attempt : Nat]
ASSUME NoResultAssumption == NoResult \notin Result

VARIABLES profile,    \* [Worker -> its registered profile]
          budget,     \* [Campaign -> its registered budget]
          entry,      \* [Task -> the task's entry]
          submitted,  \* [Campaign -> tasks accepted so far]
          active,     \* [Campaign -> the counter of running tasks]
          granted     \* the leases handed out: <<task, attempt, worker>>

vars == <<profile, budget, entry, submitted, active, granted>>

Ended == {"completed", "exhausted"}

Entry ==
  [state    : {"absent", "queued", "running"} \cup Ended,
   attempts : Nat,
   worker   : Worker \cup {NoWorker},   \* owner of the assignment, if there is one
   left     : 0..LeaseDuration,         \* time until its lease expires
   result   : Result \cup {NoResult}]

Absent == [state |-> "absent", attempts |-> 0, worker |-> NoWorker, left |-> 0,
           result |-> NoResult]

TypeOK ==
  /\ profile \in [Worker -> Profile \cup {NoProfile}]
  /\ budget \in [Campaign -> Budget \cup {NoBudget}]
  /\ entry \in [Task -> Entry]
  /\ submitted \in [Campaign -> Nat]
  /\ active \in [Campaign -> Nat]
  /\ granted \subseteq Task \X Nat \X Worker

Init ==
  /\ profile = [w \in Worker |-> NoProfile]
  /\ budget = [c \in Campaign |-> NoBudget]
  /\ entry = [t \in Task |-> Absent]
  /\ submitted = [c \in Campaign |-> 0]
  /\ active = [c \in Campaign |-> 0]
  /\ granted = {}

-----------------------------------------------------------------------------
\* register, set_campaign_budget and submit.

\* A worker may register again, with another profile, whatever it is running.
Register(w, p) ==
  /\ profile' = [profile EXCEPT ![w] = p]
  /\ UNCHANGED <<budget, entry, submitted, active, granted>>

SetBudget(c, b) ==
  /\ budget[c] \in {NoBudget, b}
  /\ budget' = [budget EXCEPT ![c] = b]
  /\ UNCHANGED <<profile, entry, submitted, active, granted>>

Accepts(c) == budget[c] # NoBudget /\ submitted[c] < budget[c].tasks

\* Submitting a task again changes nothing.
Submit(t) ==
  /\ entry[t].state = "absent"
  /\ Accepts(CampaignOf[t])
  /\ entry' = [entry EXCEPT ![t].state = "queued"]
  /\ submitted' = [submitted EXCEPT ![CampaignOf[t]] = @ + 1]
  /\ UNCHANGED <<profile, budget, active, granted>>

-----------------------------------------------------------------------------
\* schedule: _reap_expired, then one pass over the queue.

Running(t) == entry[t].state = "running"

Deduct(n, k) == IF n > k THEN n - k ELSE 0

\* Mistake: a task that is out of attempts keeps its assignment.
Expired_Retryable ==
  {t \in Task : Running(t) /\ entry[t].left = 0 /\ entry[t].attempts < MaxAttempts[t]}

Expired == {t \in Task : Running(t) /\ entry[t].left = 0}

\* Mistake: one attempt more than max_attempts.
Spent_OneMore == {t \in Expired : entry[t].attempts > MaxAttempts[t]}

Spent == {t \in Expired : entry[t].attempts >= MaxAttempts[t]}

Queued == {t \in Task : entry[t].state = "queued"} \cup (Expired \ Spent)

OfCampaign(c, S) == {t \in S : CampaignOf[t] = c}

ActiveAfterReap(c) == Deduct(active[c], Cardinality(OfCampaign(c, Expired)))

Before(t) == {u \in Queued : Rank[u] < Rank[t]}

\* placed maps each queued task to the worker it is given to, or to NoWorker; the
\* loop has decided the tasks of S so far.
Placed(placed, S) == {u \in S : placed[u] # NoWorker}

\* Mistake: what this call has placed already is not counted against the worker.
Busy_BeforeCall(w, placed, S) ==
  {u \in Task : Running(u) /\ u \notin Expired /\ entry[u].worker = w}

Busy(w, placed, S) ==
  {u \in Task : Running(u) /\ u \notin Expired /\ entry[u].worker = w}
    \cup {u \in S : placed[u] = w}

\* Mistake: what this call has placed already is not counted against the budget.
Room_BeforeCall(c, placed, S) == ActiveAfterReap(c) < budget[c].concurrent

Room(c, placed, S) ==
  ActiveAfterReap(c) + Cardinality(OfCampaign(c, Placed(placed, S))) < budget[c].concurrent

\* The units of resource r that the tasks of S hold; their number is the sum of the
\* demands.
Units(S, r) == UNION {{u} \X (1..Demand[u][r]) : u \in S}

Load(S, r) == Cardinality(Units(S, r))

Available(w, t, busy) ==
  /\ profile[w] # NoProfile
  /\ t \in profile[w].serves
  /\ Cardinality(busy) < profile[w].concurrency
  /\ \A r \in Resource : Load(busy, r) + Demand[t][r] <= profile[w].capacity[r]

\* Mistake: the pass ends at the first task that cannot be placed.
Fits_StopsEarly(t, placed) ==
  IF Placed(placed, Before(t)) = Before(t) /\ Room(CampaignOf[t], placed, Before(t))
  THEN {w \in Worker : Available(w, t, Busy(w, placed, Before(t)))}
  ELSE {}

Fits(t, placed) ==
  IF Room(CampaignOf[t], placed, Before(t))
  THEN {w \in Worker : Available(w, t, Busy(w, placed, Before(t)))}
  ELSE {}

Greedy(placed) ==
  \A t \in Queued :
    \/ Fits(t, placed) = {} /\ placed[t] = NoWorker
    \/ /\ placed[t] \in Fits(t, placed)
       /\ \A v \in Fits(t, placed) : WorkerRank[placed[t]] <= WorkerRank[v]

Assign(e, w) ==
  [e EXCEPT !.state = "running", !.attempts = @ + 1, !.worker = w, !.left = LeaseDuration]

Unassign(e, s) == [e EXCEPT !.state = s, !.worker = NoWorker, !.left = 0]

Scheduled(t, placed) ==
  CASE t \in Queued /\ placed[t] # NoWorker -> Assign(entry[t], placed[t])
    [] t \in Queued /\ placed[t] = NoWorker -> Unassign(entry[t], "queued")
    [] t \in Spent                          -> Unassign(entry[t], "exhausted")
    [] OTHER                                -> entry[t]

Schedule ==
  \E placed \in [Queued -> Worker \cup {NoWorker}] :
    /\ Greedy(placed)
    /\ entry' = [t \in Task |-> Scheduled(t, placed)]
    /\ active' = [c \in Campaign |->
                    ActiveAfterReap(c) + Cardinality(OfCampaign(c, Placed(placed, Queued)))]
    /\ granted' = granted \cup
                    {<<t, entry[t].attempts + 1, placed[t]>> : t \in Placed(placed, Queued)}
    /\ UNCHANGED <<profile, budget, submitted>>

-----------------------------------------------------------------------------
\* heartbeat and complete, called with the token of attempt n of task t.

\* Mistake: any token of the task will do.
Current_AnyAttempt(t, n) == Running(t)

Current(t, n) == Running(t) /\ entry[t].attempts = n

Heartbeat(t, n) ==
  /\ Current(t, n)
  /\ entry[t].left > 0
  /\ entry' = [entry EXCEPT ![t].left = LeaseDuration]
  /\ UNCHANGED <<profile, budget, submitted, active, granted>>

\* Publishing again changes nothing if the result is the same and raises if not.
Complete(t, n, w, o) ==
  /\ entry[t].result = NoResult
  /\ Current(t, n)
  /\ entry[t].left > 0
  /\ entry[t].worker = w
  /\ entry' = [entry EXCEPT ![t] = [Unassign(@, "completed") EXCEPT
                 !.result = [outcome |-> o, worker |-> w, attempt |-> n]]]
  /\ active' = [active EXCEPT ![CampaignOf[t]] = Deduct(@, 1)]
  /\ UNCHANGED <<profile, budget, submitted, granted>>

-----------------------------------------------------------------------------

Tick ==
  /\ entry' = [t \in Task |-> [entry[t] EXCEPT !.left = Deduct(@, 1)]]
  /\ UNCHANGED <<profile, budget, submitted, active, granted>>

WorkerCall ==
  \E g \in granted :
    \/ Heartbeat(g[1], g[2])
    \/ \E o \in Outcome : Complete(g[1], g[2], g[3], o)

Next ==
  \/ \E w \in Worker, p \in Profile : Register(w, p)
  \/ \E c \in Campaign, b \in Budget : SetBudget(c, b)
  \/ \E t \in Task : Submit(t)
  \/ Schedule
  \/ WorkerCall
  \/ Tick

Spec == Init /\ [][Next]_vars

\* The owner of the scheduler keeps calling schedule, and time passes.
FairSpec == Spec /\ WF_vars(Schedule) /\ WF_vars(Tick)

-----------------------------------------------------------------------------
\* Properties.

\* What each entry says of itself and of the leases handed out for it.
EntryInv(t) ==
  LET e == entry[t]
  IN  /\ e.worker # NoWorker <=> e.state = "running"
      /\ e.left # 0 => e.state = "running"
      /\ e.state = "running" => e.attempts > 0 /\ <<t, e.attempts, e.worker>> \in granted
      /\ e.state = "absent" => e.attempts = 0
      /\ e.state # "absent" => budget[CampaignOf[t]] # NoBudget
      /\ e.state = "queued" => e.attempts < MaxAttempts[t]
      /\ e.state = "exhausted" => e.attempts = MaxAttempts[t]
      /\ e.state = "completed" <=> e.result # NoResult
      /\ e.attempts <= MaxAttempts[t]
      /\ \A g \in granted : g[1] = t => g[2] \in 1..e.attempts

\* The inductive invariant: an entry, its attempts and its leases agree.
SchedulerInv == TypeOK /\ \A t \in Task : EntryInv(t)

RunningOf(c) == {t \in OfCampaign(c, Task) : Running(t)}

\* The counter that guards the concurrency budget is kept in step with the tasks
\* through reaping, placing and completing, and the budgets hold.
BudgetsHold ==
  \A c \in Campaign :
    /\ active[c] = Cardinality(RunningOf(c))
    /\ submitted[c] = Cardinality({t \in OfCampaign(c, Task) : entry[t].state # "absent"})
    /\ budget[c] # NoBudget => /\ active[c] <= budget[c].concurrent
                               /\ submitted[c] <= budget[c].tasks

\* A result comes from the last lease granted for its task and from the worker that
\* held it: a worker whose lease was given on never publishes.
ResultOfLastLease ==
  \A t \in Task :
    entry[t].result # NoResult =>
      /\ entry[t].state = "completed"
      /\ entry[t].result.attempt = entry[t].attempts
      /\ <<t, entry[t].attempts, entry[t].result.worker>> \in granted

\* An attempt is granted to one worker, and never beyond max_attempts.
AttemptsBounded ==
  \A g \in granted :
    /\ g[2] \in 1..MaxAttempts[g[1]]
    /\ \A h \in granted : g[1] = h[1] /\ g[2] = h[2] => g[3] = h[3]

\* A task that has ended, with a result or without, is never taken up again.
EndIsFinal == [][\A t \in Task : entry[t].state \in Ended => entry'[t] = entry[t]]_vars

OnWorker(w) == {t \in Task : Running(t) /\ entry[t].worker = w}

\* A call of schedule never overcommits a worker it gives something to, whatever
\* the worker has registered since its other tasks were placed.
NeverOvercommits ==
  [][\A w \in Worker :
       (\E g \in granted' \ granted : g[3] = w) =>
         /\ Cardinality(OnWorker(w)') <= profile[w].concurrency
         /\ \A r \in Resource : Load(OnWorker(w)', r) <= profile[w].capacity[r]]_vars

\* After a call of schedule no task is left waiting that some worker could take
\* within the budget of its campaign.
WorkConserving ==
  [][Schedule =>
       \A t \in Task, w \in Worker :
         entry'[t].state = "queued" /\ active'[CampaignOf[t]] < budget[CampaignOf[t]].concurrent
           => ~Available(w, t, OnWorker(w)')]_vars

Registers == \E w \in Worker, p \in Profile : profile[w] # p /\ Register(w, p)
Extends   == \E g \in granted : Heartbeat(g[1], g[2])

\* From some point on no worker changes its profile or extends a lease.
Settled == <>[][~Registers /\ ~Extends]_vars

Placeable(t) == \E w \in Worker : Available(w, t, {})

\* Once things settle, a task that some worker can take alone is completed or runs
\* out of attempts, however many workers die over it.
EveryTaskEnds ==
  Settled => \A t \in Task : entry[t].state = "queued" /\ Placeable(t)
                               ~> entry[t].state \in Ended \/ ~Placeable(t)

=============================================================================
