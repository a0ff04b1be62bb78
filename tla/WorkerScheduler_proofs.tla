------------------------- MODULE WorkerScheduler_proofs -------------------------
(***************************************************************************)
(* Budgets, attempts, leases and results of WorkerScheduler, and what one  *)
(* pass of schedule leaves on the workers and in the queue, for any tasks, *)
(* workers, campaigns, profiles and budgets.                               *)
(***************************************************************************)
EXTENDS WorkerScheduler, FiniteSetTheorems, WellFoundedInduction, TLAPS

-----------------------------------------------------------------------------
\* Finite sets of tasks.

LEMMA FiniteTasks ==
  ASSUME NEW S \in SUBSET Task
  PROVE  IsFiniteSet(S) /\ Cardinality(S) \in Nat
BY SchedulerAssumption, FS_Subset, FS_CardinalityType

LEMMA DisjointUnion ==
  ASSUME NEW S \in SUBSET Task, NEW T \in SUBSET Task, S \cap T = {}
  PROVE  Cardinality(S \cup T) = Cardinality(S) + Cardinality(T)
<1>1. /\ IsFiniteSet(S) /\ Cardinality(S) \in Nat
      /\ IsFiniteSet(T) /\ Cardinality(T) \in Nat
  BY FiniteTasks
<1>2. Cardinality(S \cap T) = 0
  BY FS_EmptySet
<1>3. Cardinality(S \cup T) = Cardinality(S) + Cardinality(T) - Cardinality(S \cap T)
  BY <1>1, FS_Union
<1> QED BY <1>1, <1>2, <1>3

LEMMA Removal ==
  ASSUME NEW S \in SUBSET Task, NEW T \in SUBSET S
  PROVE  /\ Cardinality(T) <= Cardinality(S)
         /\ Cardinality(S \ T) = Cardinality(S) - Cardinality(T)
<1>1. IsFiniteSet(S) /\ S \cap T = T
  BY FiniteTasks
<1>2. Cardinality(S \ T) = Cardinality(S) - Cardinality(S \cap T)
  BY <1>1, FS_Difference
<1>3. Cardinality(T) <= Cardinality(S)
  BY <1>1, FS_Subset
<1> QED BY <1>1, <1>2, <1>3

\* The last task of a set, in the order of the queue: the one with the fewest tasks
\* behind it.
LEMMA LastTask ==
  ASSUME NEW S \in SUBSET Task, S # {}
  PROVE  \E m \in S : \A u \in S \ {m} : Rank[u] < Rank[m]
<1> DEFINE Behind(t) == {u \in S : Rank[t] < Rank[u]}
           sets == {Behind(t) : t \in S}
           R == StrictSubsetOrdering(S)
<1>1. \A t \in S : Rank[t] \in Nat
  BY SchedulerAssumption
<1>2. IsWellFoundedOn(R, FiniteSubsetsOf(S))
  BY FS_StrictSubsetOrderingWellFounded
<1>3. FiniteSubsetsOf(S) = SUBSET S
  BY FiniteTasks, FS_FiniteSubsetsOfFinite
<1>4. sets \subseteq FiniteSubsetsOf(S) /\ sets # {}
  <2>1. \A t \in S : Behind(t) \in SUBSET S
    OBVIOUS
  <2> HIDE DEF Behind
  <2> QED BY <1>3, <2>1
<1>5. \E b \in sets : \A d \in sets : ~(<<d, b>> \in R)
  <2> HIDE DEF sets, R
  <2> QED BY <1>2, <1>4, WFMin
<1>6. PICK m \in S : \A t \in S : <<Behind(t), Behind(m)>> \notin R
  BY <1>5
<1>7. ASSUME NEW u \in S, Rank[m] < Rank[u] PROVE FALSE
  <2>1. Behind(u) \subseteq Behind(m)
    BY <1>1, <1>7
  <2>2. u \in Behind(m) /\ u \notin Behind(u)
    BY <1>1, <1>7
  <2>3. <<Behind(u), Behind(m)>> \in R
    BY <2>1, <2>2 DEF StrictSubsetOrdering
  <2> QED BY <1>6, <2>3
<1>8. ASSUME NEW u \in S \ {m} PROVE Rank[u] < Rank[m]
  <2>1. Rank[u] # Rank[m]
    BY SchedulerAssumption
  <2> QED BY <1>1, <1>7, <2>1
<1> QED BY <1>8

-----------------------------------------------------------------------------
\* Entries.

LEMMA AssignKind ==
  ASSUME NEW e \in Entry, NEW w \in Worker
  PROVE  /\ Assign(e, w) \in Entry
         /\ Assign(e, w).state = "running" /\ Assign(e, w).attempts = e.attempts + 1
         /\ Assign(e, w).worker = w /\ Assign(e, w).result = e.result
<1>1. LeaseDuration \in 0..LeaseDuration /\ e.attempts \in Nat
  BY SchedulerAssumption DEF Entry
<1>2. e.attempts + 1 \in Nat
  BY <1>1
<1>3. /\ Assign(e, w).state = "running" /\ Assign(e, w).attempts = e.attempts + 1
      /\ Assign(e, w).worker = w /\ Assign(e, w).result = e.result
  BY DEF Assign, Entry
<1>4. Assign(e, w) \in Entry
  BY <1>1, <1>2 DEF Assign, Entry
<1> QED BY <1>3, <1>4

LEMMA UnassignKind ==
  ASSUME NEW e \in Entry, NEW s \in {"queued", "completed", "exhausted"}
  PROVE  /\ Unassign(e, s) \in Entry
         /\ Unassign(e, s).state = s /\ Unassign(e, s).attempts = e.attempts
         /\ Unassign(e, s).worker = NoWorker /\ Unassign(e, s).result = e.result
         /\ Unassign(e, s).left = 0
<1>1. 0 \in 0..LeaseDuration
  BY SchedulerAssumption
<1>2. /\ Unassign(e, s).state = s /\ Unassign(e, s).attempts = e.attempts
      /\ Unassign(e, s).worker = NoWorker /\ Unassign(e, s).result = e.result
      /\ Unassign(e, s).left = 0
  BY DEF Unassign, Entry
<1>3. Unassign(e, s) \in Entry
  BY <1>1 DEF Unassign, Entry, Ended
<1> QED BY <1>2, <1>3

LEMMA DeductKind ==
  ASSUME NEW n \in Nat, NEW k \in Nat
  PROVE  Deduct(n, k) \in Nat /\ Deduct(n, k) <= n /\ (k <= n => Deduct(n, k) = n - k)
BY DEF Deduct

-----------------------------------------------------------------------------
\* The invariant, task by task and campaign by campaign.

ResultInv(t) ==
  entry[t].result # NoResult =>
    /\ entry[t].result.attempt = entry[t].attempts
    /\ <<t, entry[t].attempts, entry[t].result.worker>> \in granted

GrantInv(t) ==
  \A g \in granted : g[1] = t =>
    \A h \in granted : h[1] = t /\ g[2] = h[2] => g[3] = h[3]

TaskInv(t) == EntryInv(t) /\ ResultInv(t) /\ GrantInv(t)

Submitted(c) == {t \in OfCampaign(c, Task) : entry[t].state # "absent"}

CampaignInv(c) ==
  /\ active[c] = Cardinality(RunningOf(c))
  /\ submitted[c] = Cardinality(Submitted(c))
  /\ budget[c] # NoBudget => /\ active[c] <= budget[c].concurrent
                             /\ submitted[c] <= budget[c].tasks

IInv == /\ TypeOK
        /\ \A t \in Task : TaskInv(t)
        /\ \A c \in Campaign : CampaignInv(c)

LEMMA InvariantMeans ==
  ASSUME IInv
  PROVE  SchedulerInv /\ BudgetsHold /\ ResultOfLastLease /\ AttemptsBounded
<1>1. SchedulerInv
  BY DEF IInv, TaskInv, SchedulerInv
<1>2. BudgetsHold
  BY DEF IInv, CampaignInv, BudgetsHold, Submitted
<1>3. ResultOfLastLease
  BY DEF IInv, TaskInv, EntryInv, ResultInv, ResultOfLastLease
<1>4. AttemptsBounded
  <2> SUFFICES ASSUME NEW g \in granted
               PROVE  /\ g[2] \in 1..MaxAttempts[g[1]]
                      /\ \A h \in granted : g[1] = h[1] /\ g[2] = h[2] => g[3] = h[3]
    BY DEF AttemptsBounded
  <2>1. g[1] \in Task /\ entry[g[1]].attempts \in Nat /\ MaxAttempts[g[1]] \in Nat
    BY SchedulerAssumption DEF IInv, TypeOK, Entry
  <2>2. g[2] \in 1..entry[g[1]].attempts /\ entry[g[1]].attempts <= MaxAttempts[g[1]]
    BY <2>1 DEF IInv, TaskInv, EntryInv
  <2>3. \A h \in granted : h[1] = g[1] /\ g[2] = h[2] => g[3] = h[3]
    BY <2>1 DEF IInv, TaskInv, GrantInv
  <2> QED BY <2>1, <2>2, <2>3
<1> QED BY <1>1, <1>2, <1>3, <1>4

LEMMA InitHolds == Init => IInv
<1> SUFFICES ASSUME Init PROVE IInv
  OBVIOUS
<1>1. Absent \in Entry /\ Absent.state = "absent" /\ Absent.attempts = 0
      /\ Absent.worker = NoWorker /\ Absent.left = 0 /\ Absent.result = NoResult
  BY SchedulerAssumption DEF Absent, Entry
<1>2. TypeOK
  BY <1>1 DEF Init, TypeOK
<1>3. ASSUME NEW t \in Task PROVE TaskInv(t)
  <2>1. MaxAttempts[t] \in Nat \ {0}
    BY SchedulerAssumption
  <2>2. entry[t] = Absent /\ granted = {}
    BY DEF Init
  <2> QED BY <1>1, <2>1, <2>2 DEF TaskInv, EntryInv, ResultInv, GrantInv
<1>4. ASSUME NEW c \in Campaign PROVE CampaignInv(c)
  <2>1. RunningOf(c) = {} /\ Submitted(c) = {}
    BY <1>1 DEF Init, RunningOf, Submitted, OfCampaign, Running
  <2> QED BY <2>1, FS_EmptySet DEF Init, CampaignInv
<1> QED BY <1>2, <1>3, <1>4 DEF IInv

\* A task whose entry keeps all but the time left, and that gets no new lease.
LEMMA TaskStays ==
  ASSUME NEW t \in Task, TaskInv(t),
         entry'[t].state = entry[t].state, entry'[t].attempts = entry[t].attempts,
         entry'[t].worker = entry[t].worker, entry'[t].result = entry[t].result,
         entry'[t].left # 0 => entry[t].left # 0 \/ Running(t),
         \A g : g[1] = t => (g \in granted' <=> g \in granted),
         budget[CampaignOf[t]] # NoBudget => budget'[CampaignOf[t]] # NoBudget
  PROVE  TaskInv(t)'
<1>1. EntryInv(t)'
  <2>1. entry[t].state = "running"
          => <<t, entry[t].attempts, entry[t].worker>> \in granted'
    BY DEF TaskInv, EntryInv
  <2>2. \A g \in granted' : g[1] = t => g[2] \in 1..entry[t].attempts
    BY DEF TaskInv, EntryInv
  <2> QED BY <2>1, <2>2 DEF TaskInv, EntryInv, Running
<1>2. ResultInv(t)'
  <2>1. entry[t].result # NoResult
          => <<t, entry[t].attempts, entry[t].result.worker>> \in granted'
    BY DEF TaskInv, ResultInv
  <2> QED BY <2>1 DEF TaskInv, ResultInv
<1>3. GrantInv(t)'
  BY DEF TaskInv, GrantInv
<1> QED BY <1>1, <1>2, <1>3 DEF TaskInv

\* A campaign whose tasks stay in their states.
LEMMA CampaignStays ==
  ASSUME NEW c \in Campaign, CampaignInv(c),
         \A t \in Task : entry'[t].state = entry[t].state,
         active'[c] = active[c], submitted'[c] = submitted[c], budget'[c] = budget[c]
  PROVE  CampaignInv(c)'
<1>1. RunningOf(c)' = RunningOf(c) /\ Submitted(c)' = Submitted(c)
  BY DEF RunningOf, Submitted, OfCampaign, Running
<1> QED BY <1>1 DEF CampaignInv

-----------------------------------------------------------------------------
\* The calls but schedule.

LEMMA RegisterHolds ==
  ASSUME IInv, NEW w \in Worker, NEW p \in Profile, Register(w, p)
  PROVE  IInv'
<1>1. TypeOK'
  BY DEF IInv, TypeOK, Register
<1>2. \A t \in Task : TaskInv(t)'
  BY TaskStays DEF IInv, Register
<1>3. \A c \in Campaign : CampaignInv(c)'
  BY CampaignStays DEF IInv, Register
<1> QED BY <1>1, <1>2, <1>3 DEF IInv

LEMMA SetBudgetHolds ==
  ASSUME IInv, NEW c \in Campaign, NEW b \in Budget, SetBudget(c, b)
  PROVE  IInv'
<1>1. TypeOK' /\ b # NoBudget /\ b.tasks \in Nat /\ b.concurrent \in Nat
  BY SchedulerAssumption DEF IInv, TypeOK, SetBudget
<1>2. ASSUME NEW t \in Task PROVE TaskInv(t)'
  <2>1. budget[CampaignOf[t]] # NoBudget => budget'[CampaignOf[t]] # NoBudget
    BY <1>1, SchedulerAssumption DEF IInv, TypeOK, SetBudget
  <2> QED BY <2>1, TaskStays DEF IInv, SetBudget
<1>3. ASSUME NEW d \in Campaign PROVE CampaignInv(d)'
  <2>1. CASE budget'[d] = budget[d]
    BY <2>1, CampaignStays DEF IInv, SetBudget
  <2>2. CASE budget'[d] # budget[d]
    <3>1. d = c /\ budget[c] = NoBudget /\ budget'[c] = b
      BY <2>2 DEF IInv, TypeOK, SetBudget
    <3>2. \A t \in OfCampaign(c, Task) : entry[t].state = "absent"
      BY <3>1 DEF IInv, TaskInv, EntryInv, OfCampaign
    <3>3. RunningOf(c) = {} /\ Submitted(c) = {}
      BY <3>2 DEF RunningOf, Running, Submitted
    <3>4. active[c] = 0 /\ submitted[c] = 0
      BY <3>3, FS_EmptySet DEF IInv, CampaignInv
    <3>5. RunningOf(c)' = {} /\ Submitted(c)' = {}
      BY <3>3 DEF SetBudget, RunningOf, Running, Submitted
    <3> QED BY <1>1, <3>1, <3>4, <3>5, FS_EmptySet DEF SetBudget, CampaignInv
  <2> QED BY <2>1, <2>2
<1> QED BY <1>1, <1>2, <1>3 DEF IInv

LEMMA SubmitHolds ==
  ASSUME IInv, NEW t \in Task, Submit(t)
  PROVE  IInv'
<1> DEFINE c == CampaignOf[t]
           e == [entry[t] EXCEPT !.state = "queued"]
<1>1. /\ TypeOK /\ entry[t] \in Entry /\ entry[t].state = "absent" /\ c \in Campaign
      /\ budget[c] \in Budget /\ budget[c] # NoBudget /\ submitted[c] < budget[c].tasks
      /\ submitted[c] \in Nat
  BY SchedulerAssumption DEF IInv, TypeOK, Submit, Accepts
<1>2. /\ entry' = [entry EXCEPT ![t] = e]
      /\ submitted' = [submitted EXCEPT ![c] = @ + 1]
      /\ UNCHANGED <<profile, budget, active, granted>>
  BY <1>1 DEF Submit, TypeOK
<1>3. /\ e \in Entry /\ e.state = "queued" /\ e.attempts = entry[t].attempts
      /\ e.worker = entry[t].worker /\ e.left = entry[t].left
      /\ e.result = entry[t].result
  BY <1>1 DEF Entry
<1> HIDE DEF e, c
<1>4. /\ entry' \in [Task -> Entry] /\ entry'[t] = e
      /\ \A u \in Task \ {t} : entry'[u] = entry[u]
  BY <1>1, <1>2, <1>3 DEF TypeOK
<1>5. TypeOK'
  BY <1>1, <1>2, <1>4 DEF TypeOK
<1>6. TaskInv(t)'
  <2>1. TaskInv(t) /\ MaxAttempts[t] \in Nat \ {0}
    BY SchedulerAssumption DEF IInv
  <2>2. EntryInv(t)'
    BY <1>1, <1>2, <1>3, <1>4, <2>1 DEF TaskInv, EntryInv, c
  <2>3. ResultInv(t)' /\ GrantInv(t)'
    BY <1>2, <1>3, <1>4, <2>1 DEF TaskInv, ResultInv, GrantInv
  <2> QED BY <2>2, <2>3 DEF TaskInv
<1>7. ASSUME NEW u \in Task \ {t} PROVE TaskInv(u)'
  BY <1>2, <1>4, <1>7, TaskStays DEF IInv
<1>8. ASSUME NEW d \in Campaign PROVE CampaignInv(d)'
  <2>1. RunningOf(d)' = RunningOf(d)
    BY <1>1, <1>3, <1>4 DEF RunningOf, Running, OfCampaign
  <2>2. CASE d = c
    <3>1. Submitted(c)' = Submitted(c) \cup {t} /\ t \notin Submitted(c)
      BY <1>1, <1>3, <1>4 DEF Submitted, OfCampaign, c
    <3>2. Submitted(c) \in SUBSET Task
      BY DEF Submitted, OfCampaign
    <3>3. Cardinality(Submitted(c)') = Cardinality(Submitted(c)) + 1
      BY <3>1, <3>2, FiniteTasks, FS_AddElement
    <3>4. budget[c].tasks \in Nat
      BY <1>1, SchedulerAssumption
    <3> QED BY <1>1, <1>2, <2>1, <2>2, <3>3, <3>4 DEF IInv, CampaignInv, TypeOK
  <2>3. CASE d # c
    <3>1. Submitted(d)' = Submitted(d)
      BY <1>4, <2>3 DEF Submitted, OfCampaign, c
    <3> QED BY <1>1, <1>2, <2>1, <2>3, <3>1 DEF IInv, CampaignInv, TypeOK
  <2> QED BY <2>2, <2>3
<1> QED BY <1>5, <1>6, <1>7, <1>8 DEF IInv

LEMMA HeartbeatHolds ==
  ASSUME IInv, NEW t \in Task, NEW n \in Nat, Heartbeat(t, n)
  PROVE  IInv'
<1> DEFINE e == [entry[t] EXCEPT !.left = LeaseDuration]
<1>1. /\ TypeOK /\ entry[t] \in Entry /\ Running(t)
      /\ LeaseDuration \in 0..LeaseDuration
  BY SchedulerAssumption DEF IInv, TypeOK, Heartbeat, Current
<1>2. /\ entry' = [entry EXCEPT ![t] = e]
      /\ UNCHANGED <<profile, budget, submitted, active, granted>>
  BY <1>1 DEF Heartbeat, TypeOK
<1>3. /\ e \in Entry /\ e.state = entry[t].state /\ e.attempts = entry[t].attempts
      /\ e.worker = entry[t].worker /\ e.result = entry[t].result
  BY <1>1 DEF Entry
<1> HIDE DEF e
<1>4. /\ entry' \in [Task -> Entry] /\ entry'[t] = e
      /\ \A u \in Task \ {t} : entry'[u] = entry[u]
  BY <1>1, <1>2, <1>3 DEF TypeOK
<1>5. TypeOK'
  BY <1>1, <1>2, <1>4 DEF TypeOK
<1>6. ASSUME NEW u \in Task PROVE TaskInv(u)'
  <2>1. /\ entry'[u].state = entry[u].state /\ entry'[u].attempts = entry[u].attempts
        /\ entry'[u].worker = entry[u].worker /\ entry'[u].result = entry[u].result
        /\ entry'[u].left # 0 => entry[u].left # 0 \/ Running(u)
    BY <1>1, <1>3, <1>4
  <2> QED BY <1>2, <2>1, TaskStays DEF IInv
<1>7. ASSUME NEW c \in Campaign PROVE CampaignInv(c)'
  <2>1. \A u \in Task : entry'[u].state = entry[u].state
    BY <1>3, <1>4
  <2> QED BY <1>2, <2>1, CampaignStays DEF IInv
<1> QED BY <1>5, <1>6, <1>7 DEF IInv

LEMMA TickHolds ==
  ASSUME IInv, Tick
  PROVE  IInv'
<1> DEFINE e(t) == [entry[t] EXCEPT !.left = Deduct(@, 1)]
<1>1. ASSUME NEW t \in Task
      PROVE  /\ e(t) \in Entry /\ e(t).state = entry[t].state
             /\ e(t).attempts = entry[t].attempts
             /\ e(t).worker = entry[t].worker /\ e(t).result = entry[t].result
             /\ e(t).left # 0 => entry[t].left # 0
  <2>1. entry[t] \in Entry /\ entry[t].left \in 0..LeaseDuration /\ LeaseDuration \in Nat
    BY SchedulerAssumption DEF IInv, TypeOK, Entry
  <2>2. /\ Deduct(entry[t].left, 1) \in 0..LeaseDuration
        /\ Deduct(entry[t].left, 1) # 0 => entry[t].left # 0
    BY <2>1 DEF Deduct
  <2> QED BY <2>1, <2>2 DEF Entry
<1> HIDE DEF e
<1>2. entry' = [t \in Task |-> e(t)]
  BY DEF Tick, e
<1>3. UNCHANGED <<profile, budget, submitted, active, granted>>
  BY DEF Tick
<1>4. TypeOK'
  BY <1>1, <1>2, <1>3 DEF IInv, TypeOK
<1>5. ASSUME NEW t \in Task
      PROVE  /\ entry'[t].state = entry[t].state /\ entry'[t].attempts = entry[t].attempts
             /\ entry'[t].worker = entry[t].worker /\ entry'[t].result = entry[t].result
             /\ entry'[t].left # 0 => entry[t].left # 0
  BY <1>1, <1>2
<1>6. \A t \in Task : TaskInv(t)'
  BY <1>3, <1>5, TaskStays DEF IInv
<1>7. \A c \in Campaign : CampaignInv(c)'
  BY <1>3, <1>5, CampaignStays DEF IInv
<1> QED BY <1>4, <1>6, <1>7 DEF IInv

LEMMA CompleteHolds ==
  ASSUME IInv, NEW t \in Task, NEW n \in Nat, NEW w \in Worker, NEW o \in Outcome,
         Complete(t, n, w, o)
  PROVE  IInv'
<1> DEFINE c == CampaignOf[t]
           r == [outcome |-> o, worker |-> w, attempt |-> n]
           e == [Unassign(entry[t], "completed") EXCEPT !.result = r]
<1>1. /\ TypeOK /\ entry[t] \in Entry /\ c \in Campaign /\ TaskInv(t)
      /\ entry[t].state = "running" /\ entry[t].attempts = n /\ entry[t].worker = w
      /\ active[c] \in Nat
  BY SchedulerAssumption DEF IInv, TypeOK, Complete, Current, Running
<1>2. r \in Result /\ r.worker = w /\ r.attempt = n /\ r # NoResult
  BY NoResultAssumption DEF Result
<1> HIDE DEF r
<1>3. /\ e \in Entry /\ e.state = "completed" /\ e.attempts = n /\ e.worker = NoWorker
      /\ e.left = 0 /\ e.result = r
  <2>1. Unassign(entry[t], "completed") \in Entry
        /\ Unassign(entry[t], "completed").state = "completed"
        /\ Unassign(entry[t], "completed").attempts = n
        /\ Unassign(entry[t], "completed").worker = NoWorker
        /\ Unassign(entry[t], "completed").left = 0
    BY <1>1, UnassignKind
  <2> QED BY <1>2, <2>1 DEF Entry
<1>4. /\ entry' = [entry EXCEPT ![t] = e]
      /\ active' = [active EXCEPT ![c] = Deduct(@, 1)]
      /\ UNCHANGED <<profile, budget, submitted, granted>>
  BY <1>1 DEF Complete, TypeOK, r
<1> HIDE DEF e, c
<1>5. /\ entry' \in [Task -> Entry] /\ entry'[t] = e
      /\ \A u \in Task \ {t} : entry'[u] = entry[u]
  BY <1>1, <1>3, <1>4 DEF TypeOK
<1>6. Deduct(active[c], 1) \in Nat
  BY <1>1, DeductKind
<1>7. TypeOK'
  BY <1>1, <1>4, <1>5, <1>6 DEF TypeOK
<1>8. TaskInv(t)'
  <2>1. EntryInv(t) /\ ResultInv(t) /\ GrantInv(t) /\ w # NoWorker
    BY <1>1, SchedulerAssumption DEF TaskInv
  <2>2. /\ n <= MaxAttempts[t] /\ <<t, n, w>> \in granted
        /\ budget[CampaignOf[t]] # NoBudget
        /\ \A g \in granted : g[1] = t => g[2] \in 1..n
    BY <1>1, <2>1 DEF EntryInv
  <2>3. EntryInv(t)'
    BY <1>2, <1>3, <1>4, <1>5, <2>2 DEF EntryInv
  <2>4. ResultInv(t)' /\ GrantInv(t)'
    BY <1>2, <1>3, <1>4, <1>5, <2>1, <2>2 DEF ResultInv, GrantInv
  <2> QED BY <2>3, <2>4 DEF TaskInv
<1>9. ASSUME NEW u \in Task \ {t} PROVE TaskInv(u)'
  BY <1>4, <1>5, TaskStays DEF IInv
<1>10. ASSUME NEW d \in Campaign PROVE CampaignInv(d)'
  <2>1. Submitted(d)' = Submitted(d)
    BY <1>1, <1>3, <1>5 DEF Submitted, OfCampaign
  <2>2. CASE d = c
    <3>1. RunningOf(c)' = RunningOf(c) \ {t} /\ t \in RunningOf(c)
      BY <1>1, <1>3, <1>5 DEF RunningOf, Running, OfCampaign, c
    <3>2. RunningOf(c) \in SUBSET Task
      BY DEF RunningOf, OfCampaign
    <3>3. Cardinality(RunningOf(c)') = Cardinality(RunningOf(c)) - 1
      BY <3>1, <3>2, FiniteTasks, FS_RemoveElement
    <3>4. Cardinality(RunningOf(c)') \in Nat
      BY <3>1, <3>2, FiniteTasks
    <3>5. active[c] = Cardinality(RunningOf(c)) /\ submitted[c] = Cardinality(Submitted(c))
      BY <1>1 DEF IInv, CampaignInv, c, TypeOK
    <3>6. active'[c] = Cardinality(RunningOf(c)')
      BY <1>1, <1>4, <3>3, <3>4, <3>5 DEF TypeOK, Deduct
    <3>7. active'[c] \in Nat /\ active'[c] <= active[c]
      BY <1>1, <1>4, <1>6, DeductKind DEF TypeOK
    <3>8. budget[c] # NoBudget =>
            /\ active[c] <= budget[c].concurrent /\ submitted[c] <= budget[c].tasks
            /\ budget[c].concurrent \in Nat
      BY <1>1, <2>2, SchedulerAssumption DEF IInv, CampaignInv, TypeOK
    <3> QED BY <1>1, <1>4, <2>1, <2>2, <3>5, <3>6, <3>7, <3>8 DEF CampaignInv
  <2>3. CASE d # c
    <3>1. RunningOf(d)' = RunningOf(d)
      BY <1>5, <2>3 DEF RunningOf, Running, OfCampaign, c
    <3> QED BY <1>1, <1>4, <2>1, <2>3, <3>1 DEF IInv, CampaignInv, TypeOK
  <2> QED BY <2>2, <2>3
<1> QED BY <1>7, <1>8, <1>9, <1>10 DEF IInv

-----------------------------------------------------------------------------
\* schedule.

\* What the reaper makes of each task.
LEMMA Reaped ==
  ASSUME IInv
  PROVE  /\ Queued \in SUBSET Task /\ Spent \in SUBSET Expired /\ Expired \in SUBSET Task
         /\ \A t \in Expired : Running(t)
         /\ Queued \cap Spent = {} /\ Expired \subseteq Queued \cup Spent
         /\ \A t \in Queued : /\ entry[t].attempts < MaxAttempts[t]
                              /\ entry[t].result = NoResult
                              /\ entry[t].state # "absent"
                              /\ t \notin Expired => entry[t].state = "queued"
         /\ \A t \in Spent : entry[t].attempts = MaxAttempts[t]
<1>1. /\ Queued \in SUBSET Task /\ Spent \in SUBSET Expired /\ Expired \in SUBSET Task
      /\ \A t \in Expired : Running(t)
      /\ Queued \cap Spent = {} /\ Expired \subseteq Queued \cup Spent
  BY DEF Queued, Spent, Expired, Running
<1>2. \A t \in Task : /\ MaxAttempts[t] \in Nat /\ entry[t].attempts \in Nat
                      /\ EntryInv(t)
  BY SchedulerAssumption DEF IInv, TypeOK, Entry, TaskInv
<1>3. ASSUME NEW t \in Queued
      PROVE  /\ entry[t].attempts < MaxAttempts[t] /\ entry[t].result = NoResult
             /\ entry[t].state # "absent"
             /\ t \notin Expired => entry[t].state = "queued"
  <2>1. \/ entry[t].state = "queued"
        \/ /\ t \in Expired /\ ~(entry[t].attempts >= MaxAttempts[t])
           /\ entry[t].state = "running"
    BY DEF Queued, Spent, Expired, Running
  <2>2. EntryInv(t) /\ MaxAttempts[t] \in Nat /\ entry[t].attempts \in Nat
    BY <1>1, <1>2
  <2>3. entry[t].attempts < MaxAttempts[t]
    BY <2>1, <2>2 DEF EntryInv
  <2>4. entry[t].result = NoResult /\ entry[t].state # "absent"
    BY <2>1, <2>2 DEF EntryInv
  <2>5. t \notin Expired => entry[t].state = "queued"
    BY <2>1
  <2> QED BY <2>3, <2>4, <2>5
<1>4. ASSUME NEW t \in Spent PROVE entry[t].attempts = MaxAttempts[t]
  <2>1. t \in Task /\ entry[t].attempts >= MaxAttempts[t]
    BY DEF Spent, Expired
  <2>2. entry[t].attempts <= MaxAttempts[t]
    BY <1>2, <2>1 DEF EntryInv
  <2> QED BY <1>2, <2>1, <2>2
<1> QED BY <1>1, <1>3, <1>4

LEMMA ScheduledTask ==
  ASSUME IInv, NEW placed \in [Queued -> Worker \cup {NoWorker}],
         entry' = [t \in Task |-> Scheduled(t, placed)],
         granted' = granted \cup
           {<<t, entry[t].attempts + 1, placed[t]>> : t \in Placed(placed, Queued)},
         budget' = budget,
         NEW t \in Task
  PROVE  /\ entry'[t] \in Entry /\ TaskInv(t)'
         /\ entry'[t].state = "absent" <=> entry[t].state = "absent"
         /\ Running(t)' <=> \/ Running(t) /\ t \notin Expired
                            \/ t \in Placed(placed, Queued)
<1>1. /\ Queued \in SUBSET Task /\ Spent \in SUBSET Expired
      /\ \A u \in Expired : Running(u)
      /\ Queued \cap Spent = {} /\ Expired \subseteq Queued \cup Spent
      /\ \A u \in Queued : /\ entry[u].attempts < MaxAttempts[u]
                           /\ entry[u].result = NoResult
                           /\ entry[u].state # "absent"
                           /\ u \notin Expired => entry[u].state = "queued"
      /\ \A u \in Spent : entry[u].attempts = MaxAttempts[u]
  BY Reaped
<1>2. /\ entry[t] \in Entry /\ entry[t].attempts \in Nat /\ MaxAttempts[t] \in Nat
      /\ EntryInv(t) /\ ResultInv(t) /\ GrantInv(t)
  BY SchedulerAssumption DEF IInv, TypeOK, Entry, TaskInv
<1>3. entry'[t] = Scheduled(t, placed)
  OBVIOUS
<1>4. CASE t \in Placed(placed, Queued)
  <2> DEFINE w == placed[t]
  <2>1. t \in Queued /\ w \in Worker /\ w # NoWorker
    BY <1>4, SchedulerAssumption DEF Placed
  <2>2. entry'[t] = Assign(entry[t], w)
    BY <1>1, <1>3, <2>1 DEF Scheduled
  <2>3. /\ entry'[t] \in Entry /\ entry'[t].state = "running"
        /\ entry'[t].attempts = entry[t].attempts + 1 /\ entry'[t].worker = w
        /\ entry'[t].result = NoResult
    BY <1>1, <1>2, <2>1, <2>2, AssignKind
  <2>4. \A g : g[1] = t =>
          (g \in granted' <=> g \in granted \/ g = <<t, entry[t].attempts + 1, w>>)
    BY <1>4
  <2> HIDE DEF w
  <2>5. /\ entry[t].attempts + 1 <= MaxAttempts[t] /\ budget[CampaignOf[t]] # NoBudget
        /\ entry[t].attempts + 1 > 0
        /\ \A g \in granted : g[1] = t => g[2] \in 1..entry[t].attempts
    BY <1>1, <1>2, <2>1 DEF EntryInv
  <2>6. EntryInv(t)'
    <3>1. <<t, entry[t].attempts + 1, w>> \in granted'
      BY <2>4
    <3>2. \A g \in granted' : g[1] = t => g[2] \in 1..(entry[t].attempts + 1)
      <4> SUFFICES ASSUME NEW g \in granted', g[1] = t
                   PROVE  g[2] \in 1..(entry[t].attempts + 1)
        OBVIOUS
      <4>1. CASE g \in granted
        BY <1>2, <2>5, <4>1
      <4>2. CASE g = <<t, entry[t].attempts + 1, w>>
        BY <1>2, <4>2
      <4> QED BY <2>4, <4>1, <4>2
    <3> QED BY <2>1, <2>3, <2>5, <3>1, <3>2 DEF EntryInv
  <2>7. ResultInv(t)'
    BY <2>3 DEF ResultInv
  <2>8. GrantInv(t)'
    <3> SUFFICES ASSUME NEW g \in granted', NEW h \in granted',
                        g[1] = t, h[1] = t, g[2] = h[2]
                 PROVE  g[3] = h[3]
      BY DEF GrantInv
    <3>1. \A k \in granted : k[1] = t => k[2] # entry[t].attempts + 1
      BY <1>2, <2>5
    <3>2. CASE g \in granted /\ h \in granted
      BY <1>2, <3>2 DEF GrantInv
    <3>3. CASE g \notin granted \/ h \notin granted
      BY <2>4, <3>1, <3>3
    <3> QED BY <3>2, <3>3
  <2> QED BY <1>1, <1>4, <2>1, <2>3, <2>6, <2>7, <2>8 DEF TaskInv, Running
<1>5. ASSUME t \notin Placed(placed, Queued)
      PROVE  \A g : g[1] = t => (g \in granted' <=> g \in granted)
  BY <1>5
<1>6. CASE t \in Queued /\ t \notin Placed(placed, Queued)
  <2>1. entry'[t] = Unassign(entry[t], "queued")
    BY <1>1, <1>3, <1>6 DEF Scheduled, Placed
  <2>2. /\ entry'[t] \in Entry /\ entry'[t].state = "queued"
        /\ entry'[t].attempts = entry[t].attempts /\ entry'[t].worker = NoWorker
        /\ entry'[t].left = 0 /\ entry'[t].result = NoResult
    BY <1>1, <1>2, <1>6, <2>1, UnassignKind
  <2>3. /\ \A g \in granted' : g[1] = t => g[2] \in 1..entry[t].attempts
        /\ entry[t].attempts < MaxAttempts[t] /\ entry[t].attempts <= MaxAttempts[t]
        /\ budget[CampaignOf[t]] # NoBudget
    BY <1>1, <1>2, <1>5, <1>6 DEF EntryInv
  <2>4. EntryInv(t)' /\ ResultInv(t)' /\ GrantInv(t)'
    BY <1>2, <1>5, <1>6, <2>2, <2>3 DEF EntryInv, ResultInv, GrantInv
  <2>5. Running(t) => t \in Expired
    BY <1>1, <1>6 DEF Running
  <2> QED BY <1>1, <1>6, <2>2, <2>4, <2>5 DEF TaskInv, Running
<1>7. CASE t \in Spent
  <2>1. t \notin Queued /\ t \notin Placed(placed, Queued)
    BY <1>1, <1>7 DEF Placed
  <2>2. entry'[t] = Unassign(entry[t], "exhausted")
    BY <1>3, <1>7, <2>1 DEF Scheduled
  <2>3. entry[t].state = "running" /\ entry[t].result = NoResult
    BY <1>1, <1>2, <1>7 DEF Running, EntryInv
  <2>4. /\ entry'[t] \in Entry /\ entry'[t].state = "exhausted"
        /\ entry'[t].attempts = entry[t].attempts /\ entry'[t].worker = NoWorker
        /\ entry'[t].left = 0 /\ entry'[t].result = NoResult
    BY <1>2, <2>2, <2>3, UnassignKind
  <2>5. /\ \A g \in granted' : g[1] = t => g[2] \in 1..entry[t].attempts
        /\ entry[t].attempts = MaxAttempts[t] /\ entry[t].attempts <= MaxAttempts[t]
        /\ budget[CampaignOf[t]] # NoBudget
    BY <1>1, <1>2, <1>5, <1>7, <2>1, <2>3 DEF EntryInv
  <2>6. EntryInv(t)' /\ ResultInv(t)' /\ GrantInv(t)'
    BY <1>2, <1>5, <2>1, <2>4, <2>5 DEF EntryInv, ResultInv, GrantInv
  <2> QED BY <1>1, <1>7, <2>1, <2>3, <2>4, <2>6 DEF TaskInv, Running
<1>8. CASE t \notin Queued /\ t \notin Spent
  <2>1. entry'[t] = entry[t] /\ t \notin Placed(placed, Queued) /\ t \notin Expired
    BY <1>1, <1>3, <1>8 DEF Scheduled, Placed
  <2>2. TaskInv(t)'
    BY <1>2, <1>5, <2>1, TaskStays DEF TaskInv
  <2> QED BY <1>2, <2>1, <2>2 DEF Running
<1> QED BY <1>4, <1>6, <1>7, <1>8

\* The last task of a campaign that is placed found room beside all the others.
LEMMA RoomForLast ==
  ASSUME IInv, NEW placed \in [Queued -> Worker \cup {NoWorker}], Greedy(placed),
         NEW c \in Campaign, OfCampaign(c, Placed(placed, Queued)) # {},
         ActiveAfterReap(c) \in Nat, budget[c].concurrent \in Nat
  PROVE  ActiveAfterReap(c) + Cardinality(OfCampaign(c, Placed(placed, Queued)))
           <= budget[c].concurrent
<1> DEFINE P == OfCampaign(c, Placed(placed, Queued))
<1>1. Queued \in SUBSET Task /\ P \in SUBSET Task /\ P # {}
  BY Reaped DEF OfCampaign, Placed
<1>2. PICK m \in P : \A u \in P \ {m} : Rank[u] < Rank[m]
  <2> HIDE DEF P
  <2> QED BY <1>1, LastTask
<1>3. m \in Queued /\ CampaignOf[m] = c /\ placed[m] # NoWorker
  BY DEF OfCampaign, Placed
<1> DEFINE Q == OfCampaign(c, Placed(placed, Before(m)))
<1>4. P = Q \cup {m} /\ m \notin Q
  <2>1. Rank[m] \in Nat
    BY <1>1, <1>3, SchedulerAssumption
  <2>2. m \notin Before(m)
    BY <2>1 DEF Before
  <2> QED BY <1>2, <2>2 DEF OfCampaign, Placed, Before
<1>5. Room(c, placed, Before(m))
  BY <1>3 DEF Greedy, Fits
<1>6. Cardinality(Q) \in Nat /\ Cardinality(P) = Cardinality(Q) + 1
  <2>1. Q \in SUBSET Task
    BY <1>1 DEF OfCampaign, Placed, Before
  <2> HIDE DEF P, Q
  <2>2. IsFiniteSet(Q) /\ Cardinality(Q) \in Nat
    BY <2>1, FiniteTasks
  <2> QED BY <1>4, <2>2, FS_AddElement
<1>7. ActiveAfterReap(c) + Cardinality(Q) < budget[c].concurrent
  BY <1>5 DEF Room
<1> HIDE DEF P, Q
<1>8. ActiveAfterReap(c) + Cardinality(P) <= budget[c].concurrent
  BY <1>6, <1>7
<1> QED BY <1>8 DEF P

LEMMA ScheduleHolds ==
  ASSUME IInv, Schedule
  PROVE  IInv'
<1>1. PICK placed \in [Queued -> Worker \cup {NoWorker}] :
        /\ Greedy(placed)
        /\ entry' = [t \in Task |-> Scheduled(t, placed)]
        /\ active' = [c \in Campaign |->
                        ActiveAfterReap(c)
                          + Cardinality(OfCampaign(c, Placed(placed, Queued)))]
        /\ granted' = granted \cup
             {<<t, entry[t].attempts + 1, placed[t]>> : t \in Placed(placed, Queued)}
        /\ UNCHANGED <<profile, budget, submitted>>
  BY DEF Schedule
<1>2. ASSUME NEW t \in Task
      PROVE  /\ entry'[t] \in Entry /\ TaskInv(t)'
             /\ entry'[t].state = "absent" <=> entry[t].state = "absent"
             /\ Running(t)' <=> \/ Running(t) /\ t \notin Expired
                                \/ t \in Placed(placed, Queued)
  BY <1>1, ScheduledTask
<1>3. /\ Queued \in SUBSET Task /\ Expired \in SUBSET Task
      /\ \A t \in Expired : Running(t)
      /\ \A t \in Queued : t \notin Expired => entry[t].state = "queued"
  BY Reaped
<1>4. ASSUME NEW c \in Campaign
      PROVE  active'[c] \in Nat /\ CampaignInv(c)'
  <2> DEFINE X == OfCampaign(c, Expired)
             P == OfCampaign(c, Placed(placed, Queued))
             R == RunningOf(c)
  <2>1. /\ X \in SUBSET R /\ R \in SUBSET Task /\ P \in SUBSET Task
        /\ (R \ X) \cap P = {}
    BY <1>3 DEF OfCampaign, Placed, RunningOf, Running
  <2>2. RunningOf(c)' = (R \ X) \cup P
    BY <1>2, <1>3 DEF RunningOf, OfCampaign, Placed
  <2>3. Submitted(c)' = Submitted(c)
    BY <1>2 DEF Submitted, OfCampaign
  <2>4. CampaignInv(c) /\ active[c] \in Nat
    BY DEF IInv, TypeOK
  <2>5. active[c] = Cardinality(R) /\ ActiveAfterReap(c) = Deduct(active[c], Cardinality(X))
    BY <2>4 DEF CampaignInv, ActiveAfterReap
  <2>6. active'[c] = ActiveAfterReap(c) + Cardinality(P)
    BY <1>1
  <2>7. budget[c] # NoBudget => budget[c].concurrent \in Nat
    BY SchedulerAssumption DEF IInv, TypeOK
  <2>8. P # {} => budget[c] # NoBudget
    <3> SUFFICES ASSUME NEW t \in P PROVE budget[c] # NoBudget
      OBVIOUS
    <3>1. t \in Task /\ CampaignOf[t] = c /\ entry[t].state # "absent"
      BY Reaped DEF OfCampaign, Placed
    <3> QED BY <3>1 DEF IInv, TaskInv, EntryInv
  <2>9. ActiveAfterReap(c) \in Nat /\ budget[c] # NoBudget /\ P # {}
          => ActiveAfterReap(c) + Cardinality(P) <= budget[c].concurrent
    BY <1>1, <2>7, RoomForLast
  <2> HIDE DEF X, P, R
  <2>10. /\ Cardinality(X) \in Nat /\ Cardinality(R) \in Nat /\ Cardinality(P) \in Nat
         /\ Cardinality(R \ X) \in Nat
    BY <2>1, FiniteTasks
  <2>11. Cardinality(X) <= Cardinality(R)
         /\ Cardinality(R \ X) = Cardinality(R) - Cardinality(X)
    BY <2>1, Removal
  <2>12. ActiveAfterReap(c) = Cardinality(R \ X) /\ ActiveAfterReap(c) <= active[c]
    BY <2>5, <2>10, <2>11, DeductKind
  <2>13. Cardinality((R \ X) \cup P) = Cardinality(R \ X) + Cardinality(P)
    BY <2>1, DisjointUnion
  <2>14. active'[c] = Cardinality(RunningOf(c)') /\ active'[c] \in Nat
    BY <2>2, <2>6, <2>10, <2>12, <2>13
  <2>15. budget[c] # NoBudget => active'[c] <= budget[c].concurrent
    <3>1. CASE P = {}
      <4>1. Cardinality(P) = 0
        BY <3>1, FS_EmptySet
      <4> QED BY <2>4, <2>6, <2>7, <2>10, <2>12, <4>1 DEF CampaignInv
    <3>2. CASE P # {}
      BY <2>6, <2>9, <2>10, <2>12, <3>2
    <3> QED BY <3>1, <3>2
  <2> QED BY <1>1, <2>3, <2>4, <2>14, <2>15 DEF CampaignInv
<1>5. TypeOK'
  <2>1. entry' \in [Task -> Entry] /\ active' \in [Campaign -> Nat]
    BY <1>1, <1>2, <1>4
  <2>2. granted' \subseteq Task \X Nat \X Worker
    <3>1. ASSUME NEW t \in Placed(placed, Queued)
          PROVE  t \in Task /\ entry[t].attempts + 1 \in Nat /\ placed[t] \in Worker
      <4>1. t \in Queued /\ t \in Task /\ placed[t] # NoWorker
        BY <1>3, <3>1 DEF Placed
      <4>2. entry[t].attempts \in Nat
        BY <4>1 DEF IInv, TypeOK, Entry
      <4> QED BY <1>1, <4>1, <4>2
    <3> QED BY <1>1, <3>1 DEF IInv, TypeOK
  <2> QED BY <1>1, <2>1, <2>2 DEF IInv, TypeOK
<1> QED BY <1>2, <1>4, <1>5 DEF IInv

-----------------------------------------------------------------------------

LEMMA StepHolds == IInv /\ [Next]_vars => IInv'
<1> SUFFICES ASSUME IInv, [Next]_vars PROVE IInv'
  OBVIOUS
<1>1. CASE \E w \in Worker, p \in Profile : Register(w, p)
  BY <1>1, RegisterHolds
<1>2. CASE \E c \in Campaign, b \in Budget : SetBudget(c, b)
  BY <1>2, SetBudgetHolds
<1>3. CASE \E t \in Task : Submit(t)
  BY <1>3, SubmitHolds
<1>4. CASE Schedule
  BY <1>4, ScheduleHolds
<1>5. CASE WorkerCall
  <2>1. \A g \in granted : g[1] \in Task /\ g[2] \in Nat /\ g[3] \in Worker
    BY DEF IInv, TypeOK
  <2>2. CASE \E g \in granted : Heartbeat(g[1], g[2])
    BY <2>1, <2>2, HeartbeatHolds
  <2>3. CASE \E g \in granted : \E o \in Outcome : Complete(g[1], g[2], g[3], o)
    BY <2>1, <2>3, CompleteHolds
  <2> QED BY <1>5, <2>2, <2>3 DEF WorkerCall
<1>6. CASE Tick
  BY <1>6, TickHolds
<1>7. CASE UNCHANGED vars
  <2>1. TypeOK'
    BY <1>7 DEF IInv, TypeOK, vars
  <2>2. \A t \in Task : TaskInv(t)'
    BY <1>7, TaskStays DEF IInv, vars
  <2>3. \A c \in Campaign : CampaignInv(c)'
    BY <1>7, CampaignStays DEF IInv, vars
  <2> QED BY <2>1, <2>2, <2>3 DEF IInv
<1> QED BY <1>1, <1>2, <1>3, <1>4, <1>5, <1>6, <1>7 DEF Next

LEMMA InvariantHolds == Spec => []IInv
BY InitHolds, StepHolds, PTL DEF Spec

\* An entry agrees with its attempts and with the leases handed out for it, in every
\* reachable state: a task runs exactly if a worker owns it, under its last lease.
THEOREM EntriesAgree == Spec => []SchedulerInv
<1>1. IInv => SchedulerInv
  BY InvariantMeans
<1> QED BY <1>1, InvariantHolds, PTL

\* The counter that WorkerScheduler.schedule compares with max_concurrent_tasks is the
\* number of running tasks, and neither budget of a campaign is ever exceeded.
THEOREM BudgetsRespected == Spec => []BudgetsHold
<1>1. IInv => BudgetsHold
  BY InvariantMeans
<1> QED BY <1>1, InvariantHolds, PTL

\* WorkerScheduler.complete publishes under the last lease of the task alone, from the
\* worker that lease was granted to.
THEOREM LastLeasePublishes == Spec => []ResultOfLastLease
<1>1. IInv => ResultOfLastLease
  BY InvariantMeans
<1> QED BY <1>1, InvariantHolds, PTL

\* An attempt of a task is granted to one worker, and none beyond max_attempts.
THEOREM AttemptsStayBounded == Spec => []AttemptsBounded
<1>1. IInv => AttemptsBounded
  BY InvariantMeans
<1> QED BY <1>1, InvariantHolds, PTL

LEMMA EndStays ==
  ASSUME IInv, [Next]_vars, NEW t \in Task, entry[t].state \in Ended
  PROVE  entry'[t] = entry[t]
<1>1. /\ TypeOK /\ entry[t] \in Entry /\ ~Running(t) /\ entry[t].state # "queued"
      /\ entry[t].state # "absent" /\ entry[t].left = 0
  BY DEF IInv, TypeOK, TaskInv, EntryInv, Ended, Running
<1>2. CASE \E w \in Worker, p \in Profile : Register(w, p)
  BY <1>2 DEF Register
<1>3. CASE \E c \in Campaign, b \in Budget : SetBudget(c, b)
  BY <1>3 DEF SetBudget
<1>4. CASE \E u \in Task : Submit(u)
  BY <1>1, <1>4 DEF Submit, TypeOK
<1>5. CASE Schedule
  <2>1. t \notin Expired /\ t \notin Queued /\ t \notin Spent
    BY <1>1 DEF Expired, Queued, Spent
  <2> QED BY <1>5, <2>1 DEF Schedule, Scheduled
<1>6. CASE WorkerCall
  <2>1. ASSUME NEW u \in Task, NEW n, Heartbeat(u, n) PROVE entry'[t] = entry[t]
    BY <1>1, <2>1 DEF Heartbeat, Current, TypeOK
  <2>2. ASSUME NEW u \in Task, NEW n, NEW w, NEW o, Complete(u, n, w, o)
        PROVE  entry'[t] = entry[t]
    BY <1>1, <2>2 DEF Complete, Current, TypeOK
  <2>3. \A g \in granted : g[1] \in Task
    BY <1>1 DEF TypeOK
  <2> QED BY <1>6, <2>1, <2>2, <2>3 DEF WorkerCall
<1>7. CASE Tick
  <2>1. entry'[t] = [entry[t] EXCEPT !.left = 0]
    BY <1>1, <1>7 DEF Tick, Deduct
  <2> QED BY <1>1, <2>1 DEF Entry
<1>8. CASE UNCHANGED vars
  BY <1>8 DEF vars
<1> QED BY <1>2, <1>3, <1>4, <1>5, <1>6, <1>7, <1>8 DEF Next

\* A completed or exhausted entry keeps its result, its attempts and its state through
\* every later call.
THEOREM EndsStay == Spec => EndIsFinal
<1>1. IInv /\ [Next]_vars
        => [\A t \in Task : entry[t].state \in Ended => entry'[t] = entry[t]]_vars
  BY EndStays
<1> QED BY <1>1, InvariantHolds, PTL DEF Spec, EndIsFinal

-----------------------------------------------------------------------------
\* Load: the units of a resource that a set of tasks holds, which _available adds up.

LEMMA UnitsOfOne ==
  ASSUME NEW t \in Task, NEW r \in Resource
  PROVE  /\ IsFiniteSet({t} \X (1..Demand[t][r]))
         /\ Cardinality({t} \X (1..Demand[t][r])) = Demand[t][r]
         /\ Demand[t][r] \in Nat
<1> DEFINE n == Demand[t][r]
<1>1. n \in Nat
  BY SchedulerAssumption
<1> HIDE DEF n
<1>2. IsFiniteSet(1..n) /\ Cardinality(1..n) = n
  BY <1>1, FS_Interval
<1>3. IsFiniteSet({t}) /\ Cardinality({t}) = 1
  BY FS_Singleton
<1>4. /\ IsFiniteSet({t} \X (1..n))
      /\ Cardinality({t} \X (1..n)) = Cardinality({t}) * Cardinality(1..n)
  BY <1>2, <1>3, FS_Product
<1>5. Cardinality({t} \X (1..n)) = n
  BY <1>1, <1>2, <1>3, <1>4
<1> QED BY <1>1, <1>4, <1>5 DEF n

LEMMA LoadKind ==
  ASSUME NEW S \in SUBSET Task, NEW r \in Resource
  PROVE  IsFiniteSet(Units(S, r)) /\ Load(S, r) \in Nat
<1> DEFINE T == {{u} \X (1..Demand[u][r]) : u \in S}
           f == [u \in S |-> {u} \X (1..Demand[u][r])]
<1>1. f \in Surjection(S, T)
  BY DEF Surjection
<1>2. IsFiniteSet(S)
  BY FiniteTasks
<1>3. \A U \in T : IsFiniteSet(U)
  BY UnitsOfOne
<1>4. IsFiniteSet(T)
  <2> HIDE DEF T, f
  <2> QED BY <1>1, <1>2, FS_Surjection
<1>5. IsFiniteSet(UNION T)
  <2> HIDE DEF T
  <2> QED BY <1>3, <1>4, FS_UNION
<1> QED BY <1>5, FS_CardinalityType DEF Units, Load

LEMMA LoadGrows ==
  ASSUME NEW S \in SUBSET Task, NEW T \in SUBSET S, NEW r \in Resource
  PROVE  Load(T, r) <= Load(S, r)
<1>1. Units(T, r) \in SUBSET Units(S, r)
  BY DEF Units
<1> QED BY <1>1, LoadKind, FS_Subset DEF Load

LEMMA LoadAdds ==
  ASSUME NEW S \in SUBSET Task, NEW t \in Task \ S, NEW r \in Resource
  PROVE  Load(S \cup {t}, r) = Load(S, r) + Demand[t][r]
<1> DEFINE U == {t} \X (1..Demand[t][r])
<1>1. IsFiniteSet(U) /\ Cardinality(U) = Demand[t][r] /\ Demand[t][r] \in Nat
  BY UnitsOfOne
<1>2. Units(S \cup {t}, r) = Units(S, r) \cup U
  BY DEF Units
<1>3. Units(S, r) \cap U = {}
  BY DEF Units
<1>4. IsFiniteSet(Units(S, r)) /\ Cardinality(Units(S, r)) \in Nat
  BY LoadKind DEF Load
<1> HIDE DEF U
<1>5. Cardinality(Units(S, r) \cup U)
        = Cardinality(Units(S, r)) + Cardinality(U) - Cardinality(Units(S, r) \cap U)
  BY <1>1, <1>4, FS_Union
<1>6. Cardinality(Units(S, r) \cap U) = 0
  BY <1>3, FS_EmptySet
<1>7. Cardinality(Units(S, r) \cup U) = Cardinality(Units(S, r)) + Demand[t][r]
  BY <1>1, <1>4, <1>5, <1>6
<1> QED BY <1>2, <1>7 DEF Load

-----------------------------------------------------------------------------
\* What schedule leaves on each worker.

\* After the call a worker has what it kept through the reaping and what it was given.
LEMMA OnWorkerAfter ==
  ASSUME IInv, NEW placed \in [Queued -> Worker \cup {NoWorker}],
         entry' = [t \in Task |-> Scheduled(t, placed)],
         NEW w \in Worker
  PROVE  OnWorker(w)' = Busy(w, placed, Queued)
<1>1. /\ Queued \in SUBSET Task /\ Spent \in SUBSET Expired
      /\ \A u \in Expired : Running(u)
      /\ Queued \cap Spent = {} /\ Expired \subseteq Queued \cup Spent
      /\ \A u \in Queued : u \notin Expired => entry[u].state = "queued"
  BY Reaped
<1>2. ASSUME NEW t \in Task
      PROVE  entry'[t].state = "running" /\ entry'[t].worker = w
               <=> t \in Busy(w, placed, Queued)
  <2>1. entry'[t] = Scheduled(t, placed) /\ entry[t] \in Entry
    BY DEF IInv, TypeOK
  <2>2. CASE t \in Queued /\ placed[t] # NoWorker
    <3>1. entry'[t] = Assign(entry[t], placed[t]) /\ placed[t] \in Worker
      BY <1>1, <2>1, <2>2 DEF Scheduled
    <3>2. entry'[t].state = "running" /\ entry'[t].worker = placed[t]
      BY <2>1, <3>1, AssignKind
    <3> QED BY <1>1, <2>2, <3>2 DEF Busy, Running
  <2>3. CASE t \in Queued /\ placed[t] = NoWorker
    <3>1. entry'[t].state = "queued"
      BY <1>1, <2>1, <2>3, UnassignKind DEF Scheduled
    <3>2. w # NoWorker
      BY SchedulerAssumption
    <3> QED BY <1>1, <2>3, <3>1, <3>2 DEF Busy, Running
  <2>4. CASE t \in Spent
    <3>1. entry'[t].state = "exhausted" /\ t \notin Queued
      BY <1>1, <2>1, <2>4, UnassignKind DEF Scheduled
    <3> QED BY <1>1, <2>4, <3>1 DEF Busy
  <2>5. CASE t \notin Queued /\ t \notin Spent
    <3>1. entry'[t] = entry[t] /\ t \notin Expired
      BY <1>1, <2>1, <2>5 DEF Scheduled
    <3> QED BY <2>5, <3>1 DEF Busy, Running
  <2> QED BY <2>2, <2>3, <2>4, <2>5
<1>3. Busy(w, placed, Queued) \in SUBSET Task
  BY <1>1 DEF Busy
<1> QED BY <1>2, <1>3 DEF OnWorker, Running

\* The last task that a worker was given fitted beside all the others it has.
LEMMA GivenFits ==
  ASSUME IInv, NEW placed \in [Queued -> Worker \cup {NoWorker}], Greedy(placed),
         NEW w \in Worker, NEW t \in Queued, placed[t] = w
  PROVE  /\ Cardinality(Busy(w, placed, Queued)) <= profile[w].concurrency
         /\ \A r \in Resource :
               Load(Busy(w, placed, Queued), r) <= profile[w].capacity[r]
<1> DEFINE G == {u \in Queued : placed[u] = w}
<1>1. /\ Queued \in SUBSET Task /\ G \in SUBSET Task /\ G # {}
      /\ \A u \in Queued : u \notin Expired => entry[u].state = "queued"
  BY Reaped
<1>2. PICK m \in G : \A u \in G \ {m} : Rank[u] < Rank[m]
  <2> HIDE DEF G
  <2> QED BY <1>1, LastTask
<1>3. m \in Queued /\ placed[m] = w /\ m \in Task /\ w # NoWorker
  BY <1>1, SchedulerAssumption
<1> DEFINE B == Busy(w, placed, Before(m))
<1>4. /\ B \in SUBSET Task /\ m \in Task \ B
      /\ Busy(w, placed, Queued) = B \cup {m}
  <2>1. \A u \in Task : Rank[u] \in Nat
    BY SchedulerAssumption
  <2>2. m \notin Before(m)
    BY <1>3, <2>1 DEF Before
  <2>3. \A u \in Queued : placed[u] = w <=> (u = m \/ (u \in Before(m) /\ placed[u] = w))
    BY <1>2, <1>3 DEF Before
  <2>4. ~(Running(m) /\ m \notin Expired)
    BY <1>1, <1>3 DEF Running
  <2>5. Before(m) \subseteq Queued
    BY DEF Before
  <2> QED BY <1>1, <1>3, <2>2, <2>3, <2>4, <2>5 DEF Busy
<1>5. Available(w, m, B)
  BY <1>3 DEF Greedy, Fits
<1> HIDE DEF B, G
<1>6. /\ profile[w].concurrency \in Nat
      /\ Cardinality(B) < profile[w].concurrency
      /\ \A r \in Resource : Load(B, r) + Demand[m][r] <= profile[w].capacity[r]
  BY <1>5, SchedulerAssumption DEF Available, IInv, TypeOK
<1>7. Cardinality(B \cup {m}) = Cardinality(B) + 1 /\ Cardinality(B) \in Nat
  BY <1>4, FiniteTasks, FS_AddElement
<1>8. Cardinality(B \cup {m}) <= profile[w].concurrency
  BY <1>6, <1>7
<1>9. \A r \in Resource : Load(B \cup {m}, r) <= profile[w].capacity[r]
  BY <1>4, <1>6, LoadAdds
<1> QED BY <1>4, <1>8, <1>9

LEMMA GrantsOnlyInSchedule ==
  ASSUME [Next]_vars, ~Schedule
  PROVE  granted' = granted
BY DEF Next, vars, Register, SetBudget, Submit, WorkerCall, Heartbeat, Complete, Tick

LEMMA StepDoesNotOvercommit ==
  ASSUME IInv, [Next]_vars, NEW w \in Worker, NEW g \in granted' \ granted, g[3] = w
  PROVE  /\ Cardinality(OnWorker(w)') <= profile[w].concurrency
         /\ \A r \in Resource : Load(OnWorker(w)', r) <= profile[w].capacity[r]
<1>1. Schedule
  BY GrantsOnlyInSchedule
<1>2. PICK placed \in [Queued -> Worker \cup {NoWorker}] :
        /\ Greedy(placed)
        /\ entry' = [t \in Task |-> Scheduled(t, placed)]
        /\ granted' = granted \cup
             {<<t, entry[t].attempts + 1, placed[t]>> : t \in Placed(placed, Queued)}
  BY <1>1 DEF Schedule
<1>3. PICK t \in Queued : placed[t] = w
  BY <1>2 DEF Placed
<1>4. OnWorker(w)' = Busy(w, placed, Queued)
  BY <1>2, OnWorkerAfter
<1> QED BY <1>2, <1>3, <1>4, GivenFits

\* A worker that WorkerScheduler.schedule gives something to has, when the call returns,
\* no more tasks and no more of any resource than its profile allows.
THEOREM NothingOvercommitted == Spec => NeverOvercommits
<1>1. IInv /\ [Next]_vars =>
        [\A w \in Worker :
           (\E g \in granted' \ granted : g[3] = w) =>
             /\ Cardinality(OnWorker(w)') <= profile[w].concurrency
             /\ \A r \in Resource : Load(OnWorker(w)', r) <= profile[w].capacity[r]]_vars
  BY StepDoesNotOvercommit
<1> QED BY <1>1, InvariantHolds, PTL DEF Spec, NeverOvercommits

\* A task the pass left waiting had no room in its campaign or no worker that could
\* take it, and there is no more of either when the pass ends.
LEMMA LeftWaiting ==
  ASSUME IInv, Schedule, NEW t \in Task, NEW w \in Worker,
         entry'[t].state = "queued",
         active'[CampaignOf[t]] < budget[CampaignOf[t]].concurrent
  PROVE  ~Available(w, t, OnWorker(w)')
<1> DEFINE c == CampaignOf[t]
<1>1. PICK placed \in [Queued -> Worker \cup {NoWorker}] :
        /\ Greedy(placed)
        /\ entry' = [u \in Task |-> Scheduled(u, placed)]
        /\ active' = [d \in Campaign |->
                        ActiveAfterReap(d)
                          + Cardinality(OfCampaign(d, Placed(placed, Queued)))]
  BY DEF Schedule
<1>2. Queued \in SUBSET Task /\ Spent \in SUBSET Expired /\ Queued \cap Spent = {}
  BY Reaped
<1>3. t \in Queued /\ placed[t] = NoWorker
  <2>1. entry'[t] = Scheduled(t, placed) /\ entry[t] \in Entry
    BY <1>1 DEF IInv, TypeOK
  <2>2. ~(t \in Queued /\ placed[t] # NoWorker)
    <3> SUFFICES ASSUME t \in Queued, placed[t] # NoWorker PROVE FALSE
      OBVIOUS
    <3>1. entry'[t] = Assign(entry[t], placed[t]) /\ placed[t] \in Worker
      BY <1>2, <2>1 DEF Scheduled
    <3> QED BY <2>1, <3>1, AssignKind
  <2>3. t \notin Spent
    <3> SUFFICES ASSUME t \in Spent PROVE FALSE
      OBVIOUS
    <3>1. entry'[t] = Unassign(entry[t], "exhausted")
      BY <1>2, <2>1 DEF Scheduled
    <3> QED BY <2>1, <3>1, UnassignKind
  <2>4. t \in Queued \/ entry[t].state = "queued"
    BY <2>1, <2>2, <2>3 DEF Scheduled
  <2> QED BY <2>2, <2>4 DEF Queued
<1>4. Fits(t, placed) = {}
  BY <1>1, <1>3, SchedulerAssumption DEF Greedy, Fits
<1>5. Room(c, placed, Before(t))
  <2> DEFINE Q == OfCampaign(c, Placed(placed, Before(t)))
             P == OfCampaign(c, Placed(placed, Queued))
  <2>1. Q \in SUBSET P /\ P \in SUBSET Task
    BY <1>2 DEF OfCampaign, Placed, Before
  <2>2. c \in Campaign /\ ActiveAfterReap(c) \in Nat /\ budget[c].concurrent \in Nat
    <3>1. c \in Campaign /\ budget[c] # NoBudget
      BY <1>2, <1>3, Reaped, SchedulerAssumption DEF IInv, TaskInv, EntryInv
    <3>2. active[c] \in Nat /\ Cardinality(OfCampaign(c, Expired)) \in Nat
      BY <3>1, Reaped, FiniteTasks DEF IInv, TypeOK, OfCampaign
    <3> QED BY <3>1, <3>2, DeductKind, SchedulerAssumption DEF ActiveAfterReap, IInv, TypeOK
  <2>3. ActiveAfterReap(c) + Cardinality(P) < budget[c].concurrent
    BY <1>1, <2>2
  <2> HIDE DEF P, Q
  <2>4. Cardinality(Q) <= Cardinality(P) /\ Cardinality(Q) \in Nat /\ Cardinality(P) \in Nat
    BY <2>1, FiniteTasks, Removal
  <2>5. ActiveAfterReap(c) + Cardinality(Q) < budget[c].concurrent
    BY <2>2, <2>3, <2>4
  <2> QED BY <2>5 DEF Room, Q
<1> DEFINE B == Busy(w, placed, Before(t))
<1>6. ~Available(w, t, B)
  BY <1>4, <1>5 DEF Fits
<1>7. OnWorker(w)' = Busy(w, placed, Queued)
  BY <1>1, OnWorkerAfter
<1>8. Busy(w, placed, Queued) \in SUBSET Task /\ B \in SUBSET Busy(w, placed, Queued)
  BY <1>2 DEF Busy, Before
<1> HIDE DEF B
<1> DEFINE A == Busy(w, placed, Queued)
<1> HIDE DEF A
<1>9. A \in SUBSET Task /\ B \in SUBSET A
  BY <1>8 DEF A
<1>10. ASSUME Available(w, t, A) PROVE Available(w, t, B)
  <2>1. /\ profile[w].concurrency \in Nat
        /\ \A r \in Resource : profile[w].capacity[r] \in Nat
    BY <1>10, SchedulerAssumption DEF Available, IInv, TypeOK
  <2>2. Cardinality(B) <= Cardinality(A)
        /\ Cardinality(A) \in Nat /\ Cardinality(B) \in Nat
    BY <1>9, FiniteTasks, Removal
  <2>3. Cardinality(B) < profile[w].concurrency
    BY <1>10, <2>1, <2>2 DEF Available
  <2>4. ASSUME NEW r \in Resource
        PROVE  Load(B, r) + Demand[t][r] <= profile[w].capacity[r]
    <3>1. /\ Load(B, r) <= Load(A, r) /\ Load(B, r) \in Nat /\ Load(A, r) \in Nat
          /\ Demand[t][r] \in Nat
      BY <1>9, LoadGrows, LoadKind, UnitsOfOne
    <3>2. Load(A, r) + Demand[t][r] <= profile[w].capacity[r]
      BY <1>10 DEF Available
    <3> QED BY <2>1, <3>1, <3>2
  <2> QED BY <1>10, <2>3, <2>4 DEF Available
<1> QED BY <1>6, <1>7, <1>10 DEF A

\* When WorkerScheduler.schedule returns, no queued task is left that some registered
\* worker could still take within the budget of its campaign.
THEOREM PassIsWorkConserving == Spec => WorkConserving
<1>1. IInv /\ [Next]_vars =>
        [Schedule =>
           \A t \in Task, w \in Worker :
             entry'[t].state = "queued" /\ active'[CampaignOf[t]] < budget[CampaignOf[t]].concurrent
               => ~Available(w, t, OnWorker(w)')]_vars
  BY LeftWaiting
<1> QED BY <1>1, InvariantHolds, PTL DEF Spec, WorkConserving

=============================================================================
