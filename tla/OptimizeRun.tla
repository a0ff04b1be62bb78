------------------------------- MODULE OptimizeRun -------------------------------
(***************************************************************************)
(* OptimizeOrchestrator of optimization_orchestrator.py: one optimize run, *)
(* kept in one atomically replaced JSON file, and the invocations of       *)
(* `modelsurgeon optimize` that continue it one after the other.           *)
(*                                                                         *)
(* An invocation records its approvals and overrides, runs the stages that *)
(* are not completed yet, and concludes the run through the promotion gate *)
(* of experiments/coordinator.py.  After each save what it holds in memory *)
(* is what the file holds, so only the file and the place the invocation   *)
(* has reached are kept, and an invocation may die between any two saves.  *)
(*                                                                         *)
(* Abstracted: plan, operator and source identities, which an invocation   *)
(* that does not match is refused for; the audit chain; reasons and        *)
(* alternatives; the evidence of a result to the set of checks it passes.  *)
(***************************************************************************)
EXTENDS Naturals, Sequences

CONSTANTS StageCount,
          Pareto,       \* the stage whose result the promotion gate judges
          Required,     \* the approval codes the plan requires
          Override,     \* the names, and approval codes, of runtime overrides
          Value,        \* the values of overrides
          Returned,     \* [Stage -> the results the runtime may return]
          Hour,         \* the default lifetime of an approval
          MaxTime,      \* bound on the clock
          MaxFailures   \* bound on interruptions and deaths

Stage   == 1..StageCount
Code    == Required \cup Override
Reuse   == {"reusable", "one_time"}
Outcome == {"supported", "unsupported", "failed", "unknown"}

\* The checks of the promotion gate on the evidence of a result.
Check == {"measured", "complete", "constraints", "identified", "committed",
          "immutable", "distinct"}

StageResult ==
  {r \in [outcome : Outcome, passes : SUBSET Check] :
     r.outcome = "supported" => "complete" \in r.passes}

ASSUME RunAssumption ==
  /\ StageCount \in Nat /\ Pareto \in Stage
  /\ Required \cap Override = {}
  /\ Returned \in [Stage -> SUBSET StageResult]
  /\ Hour \in Nat \ {0} /\ MaxTime \in Nat
  /\ MaxFailures \in Nat

NoResult == [outcome |-> "unknown", passes |-> {}]

VARIABLES status,     \* of the run: running, paused, completed
          outcome,
          stage,      \* [Stage -> its record]
          approval,   \* [Code -> its record]
          override,   \* [Override -> its records, oldest first]
          accepted,   \* an artifact was accepted
          pc,         \* what the invocation does next
          at,         \* the stage it is at
          starts,     \* [Required -> the invocations started under its approval]
          clock, failures

run  == <<status, outcome, stage, approval, override, accepted>>
vars == <<run, pc, at, starts, clock, failures>>

StageRecord ==
  [status : {"pending", "running", "completed"}, attempts : Nat, result : StageResult]

\* serial tells the approvals issued for a code apart, 0 for none.
Approval == [serial : Nat, reuse : Reuse, uses : Nat, expires : Nat]

NoApproval == [serial |-> 0, reuse |-> "reusable", uses |-> 0, expires |-> 0]

\* An override keeps the approval it was recorded under, 0 for none.
OverrideRecord == [value : Value, serial : Nat]

TypeOK ==
  /\ status \in {"running", "paused", "completed"}
  /\ outcome \in Outcome
  /\ stage \in [Stage -> StageRecord]
  /\ approval \in [Code -> Approval]
  /\ \A c \in Code : approval[c].reuse = "one_time" => approval[c].uses <= 1
  /\ override \in [Override -> Seq(OverrideRecord)]
  /\ accepted \in BOOLEAN
  /\ pc \in {"idle", "next", "stage", "rejected"}
  /\ at \in Stage
  /\ clock \in Nat /\ failures \in Nat /\ starts \in [Required -> Nat]

Init ==
  /\ status = "running"
  /\ outcome = "unknown"
  /\ stage = [i \in Stage |->
                [status |-> "pending", attempts |-> 0, result |-> NoResult]]
  /\ approval = [c \in Code |-> NoApproval]
  /\ override = [o \in Override |-> <<>>]
  /\ accepted = FALSE
  /\ pc = "idle"
  /\ at = 1
  /\ clock = 0
  /\ starts = [c \in Required |-> 0]
  /\ failures = 0

-----------------------------------------------------------------------------
\* The inputs of an invocation: given, the approved codes; reuse, their policies;
\* expires, with explicit when the operator chose it; asked, the overrides.

Spent(a) == a.reuse = "one_time" /\ a.uses >= 1

\* Mistake: a spent approval is still active until it expires.
Active_Spent(a, now) == a.serial > 0 /\ now < a.expires

\* Mistake: the expiry of an approval is not looked at.
Active_Expired(a, now) == a.serial > 0 /\ ~Spent(a)

Active(a, now) == a.serial > 0 /\ now < a.expires /\ ~Spent(a)

\* Mistake: a spent approval is never renewed.
Fresh_Never(given) == {c \in given : approval[c].serial = 0}

\* The codes an approval is issued for: a recorded one is kept unless it is spent.
Fresh(given) == {c \in given : approval[c].serial = 0 \/ Spent(approval[c])}

\* A spent approval is renewed only with an expiry of its own.
Refused(given, expires, explicit) ==
  \E c \in given : /\ Spent(approval[c])
                   /\ ~explicit \/ approval[c].expires = expires

Issued(given, reuse, expires) ==
  [c \in Code |->
     IF c \in Fresh(given)
     THEN [serial |-> approval[c].serial + 1, reuse |-> reuse[c], uses |-> 0,
           expires |-> expires]
     ELSE approval[c]]

\* asked is a function from the overrides asked for to their values.
Recorded(approvals, asked) ==
  [o \in Override |->
     IF o \notin DOMAIN asked THEN override[o]
     ELSE LET r == [value |-> asked[o], serial |-> approvals[o].serial]
          IN  IF \E i \in DOMAIN override[o] : override[o][i] = r
              THEN override[o] ELSE Append(override[o], r)]

\* The last record of an override is the one that counts.
Latest(records) == records[Len(records)]

Missing(approvals, given) ==
  {c \in Required : c \notin Fresh(given) /\ ~Active(approvals[c], clock)}

Unapproved(overrides) ==
  {o \in Override : overrides[o] # <<>> /\ Latest(overrides[o]).serial = 0}

\* Mistake: an approval is used without being counted.
Consumed_Uncounted(approvals, overrides, given, read) == approvals

\* The approvals that count for this plan and its overrides are used once, unless they
\* have expired by read, [Code -> when the clock is read again for each].
Consumed(approvals, overrides, given, read) ==
  [c \in Code |->
     IF /\ c \in Required \/ overrides[c] # <<>>
        /\ c \in Fresh(given) \/ Active(approvals[c], read[c])
     THEN [approvals[c] EXCEPT !.uses = @ + 1]
     ELSE approvals[c]]

\* The clock is read when the call asks what is missing, and for each approval again when
\* it is counted; by the end of the call it has moved on to end.  The order of the codes,
\* in which they are counted, is left open.
Invoke(given, reuse, expires, explicit, asked) ==
  /\ pc = "idle"
  /\ status # "completed"
  /\ ~Refused(given, expires, explicit)
  /\ LET approvals == Issued(given, reuse, expires)
         overrides == Recorded(approvals, asked)
     IN  /\ override' = overrides
         /\ IF Missing(approvals, given) # {} \/ Unapproved(overrides) # {}
            THEN /\ status' = "paused"
                 /\ outcome' = "unknown"
                 /\ approval' = approvals
                 /\ starts' = [c \in Required |->
                                IF c \in Fresh(given) THEN 0 ELSE starts[c]]
                 /\ UNCHANGED <<pc, clock>>
            ELSE /\ status' = "running"
                 /\ \E end \in clock..MaxTime : \E read \in [Code -> {clock, end}] :
                      /\ approval' = Consumed(approvals, overrides, given, read)
                      /\ clock' = end
                 /\ pc' = "next"
                 /\ starts' = [c \in Required |->
                                IF c \in Fresh(given) THEN 1 ELSE starts[c] + 1]
                 /\ UNCHANGED outcome
  /\ UNCHANGED <<stage, accepted, at, failures>>

-----------------------------------------------------------------------------
\* The stages, one after the other.

Incomplete == {i \in Stage : stage[i].status # "completed"}

\* Mistake: the cursor is not moved past a completed stage.
IsNext_AtCursor(i) == i = at

IsNext(i) == i \in Incomplete /\ \A j \in Incomplete : i <= j

StartStage(i) ==
  /\ pc = "next"
  /\ IsNext(i)
  /\ stage' = [stage EXCEPT ![i].status = "running", ![i].attempts = @ + 1]
  /\ at' = i
  /\ pc' = "stage"
  /\ UNCHANGED <<status, outcome, approval, override, accepted, starts, clock, failures>>

\* The runtime returns; a result that is not supported ends the run in the next save.
FinishStage(r) ==
  /\ pc = "stage"
  /\ stage' = [stage EXCEPT ![at].status = "completed", ![at].result = r]
  /\ pc' = IF r.outcome = "supported" THEN "next" ELSE "rejected"
  /\ UNCHANGED <<status, outcome, approval, override, accepted, at, starts, clock, failures>>

Reject ==
  /\ pc = "rejected"
  /\ status' = "completed"
  /\ outcome' = stage[at].result.outcome
  /\ pc' = "idle"
  /\ UNCHANGED <<stage, approval, override, accepted, at, starts, clock, failures>>

\* Mistake: the gate asks for the evidence and not for the committed transaction.
Promoted_Uncommitted(r) == Check \ {"committed"} \subseteq r.passes

\* Measured, complete and within the constraints, with its identities and a committed
\* transaction, and an immutable artifact that is not the source.
Promoted(r) == Check \subseteq r.passes

Conclude ==
  /\ pc = "next"
  /\ Incomplete = {}
  /\ status' = "completed"
  /\ outcome' = IF Promoted(stage[Pareto].result) THEN "supported" ELSE "failed"
  /\ accepted' = Promoted(stage[Pareto].result)
  /\ pc' = "idle"
  /\ UNCHANGED <<stage, approval, override, at, starts, clock, failures>>

\* The runtime or the operator interrupts the stage: a durable pause.
Interrupt ==
  /\ pc = "stage"
  /\ failures < MaxFailures
  /\ status' = "paused"
  /\ outcome' = "unknown"
  /\ pc' = "idle"
  /\ failures' = failures + 1
  /\ UNCHANGED <<stage, approval, override, accepted, at, starts, clock>>

\* The process dies, or an exception of the runtime leaves it, between two saves.
Die ==
  /\ pc # "idle"
  /\ failures < MaxFailures
  /\ pc' = "idle"
  /\ failures' = failures + 1
  /\ UNCHANGED <<run, at, starts, clock>>

Tick ==
  /\ clock < MaxTime
  /\ clock' = clock + 1
  /\ UNCHANGED <<run, pc, at, starts, failures>>

-----------------------------------------------------------------------------

InvokeAny ==
  \E given \in SUBSET Code, O \in SUBSET Override :
  \E reuse \in [given -> Reuse], asked \in [O -> Value] :
    \/ Invoke(given, reuse, clock + Hour, FALSE, asked)
    \/ \E expires \in 0..(MaxTime + 1) : Invoke(given, reuse, expires, TRUE, asked)

\* The operator resumes with every approval, an expiry that is still to come, and the
\* overrides that the run has recorded.
Resume ==
  LET O == {o \in Override : override[o] # <<>>}
  IN  \E reuse \in [Code -> Reuse], asked \in [O -> Value],
         expires \in (clock + 1)..(MaxTime + 3) :
        Invoke(Code, reuse, expires, TRUE, asked)

Work ==
  \/ \E i \in Stage : StartStage(i)
  \/ \E r \in Returned[at] : FinishStage(r)
  \/ Reject
  \/ Conclude

Next == InvokeAny \/ Resume \/ Work \/ Interrupt \/ Die \/ Tick

Spec == Init /\ [][Next]_vars

\* An invocation runs on, and the operator resumes a run that has not ended.
FairSpec == Spec /\ WF_vars(Work) /\ WF_vars(Resume)

-----------------------------------------------------------------------------
\* Properties.

\* A completed run is not worked on, and the stage an invocation is at is running.
Control ==
  /\ status = "completed" => pc = "idle"
  /\ pc = "stage" => stage[at].status = "running"

\* The uses of an approval are the invocations it started, through pauses, deaths and
\* renewals; or it started one more, which it was not counted for because it expired
\* while that invocation began, and as it is not spent either, it starts nothing again
\* and is not renewed.
StartsAreCounted ==
  \A c \in Required :
    \/ starts[c] = approval[c].uses
    \/ /\ starts[c] = approval[c].uses + 1
       /\ approval[c].expires <= clock
       /\ ~Spent(approval[c])

\* What an invocation relies on in the file, and what the file counts.
RunInv ==
  /\ TypeOK
  /\ Control
  /\ StartsAreCounted

\* What a run was accepted for is in its records: every stage is completed, the
\* result of the Pareto stage passes every check of the gate, and the outcome says so.
AcceptedIsMeasured ==
  accepted => /\ status = "completed" /\ outcome = "supported"
              /\ Incomplete = {}
              /\ stage[Pareto].result.passes = Check

\* However often the run is resumed, a completed stage is not started again and its
\* result stays, and a run that is completed stays as it is.
CompletedIsKept ==
  [][/\ \A i \in Stage : stage[i].status = "completed" => stage'[i] = stage[i]
     /\ status = "completed" => UNCHANGED run]_vars

\* A one-time approval of a required code starts one invocation.
OneTimeStartsOnce ==
  \A c \in Required : approval[c].reuse = "one_time" => starts[c] <= 1

\* Work starts only under approvals of every required code that this invocation
\* issued, or that were issued before and have not expired.
StartIsApproved ==
  [][pc = "idle" /\ pc' = "next" =>
       \A c \in Required :
         \/ approval'[c].serial > approval[c].serial
         \/ approval[c].serial > 0 /\ clock < approval[c].expires]_vars

\* A required approval expired before it was spent.
Lapsed ==
  \E c \in Required :
    approval[c].serial > 0 /\ ~Spent(approval[c]) /\ approval[c].expires <= clock

\* Resumed with every approval until it ends, a run ends, unless an approval lapses.
EndsUnlessLapsed == <>(status = "completed" \/ Lapsed)

\* A stage that was not supported is the last one: no later stage is ever started.
RejectionEnds ==
  \A i, j \in Stage :
    stage[i].status = "completed" /\ stage[i].result.outcome # "supported" /\ i < j
      => stage[j].attempts = 0

\* An override is recorded as approved only under an approval that this invocation
\* issued, or that has neither expired nor been spent.
OverrideNeedsLiveApproval ==
  [][\A o \in Override :
       override'[o] # override[o] /\ Latest(override'[o]).serial > 0
         => approval'[o].serial > approval[o].serial \/ Active(approval[o], clock)]_vars

\* An approval is consumed before the work it approves starts.
ConsumedBeforeWork ==
  [][pc = "idle" /\ pc' = "next" =>
       \A c \in Required : approval'[c].uses > 0
                          /\ approval'[c] # approval[c]]_vars

\* Resumed with every approval until it ends, a run ends.
EveryRunEnds == <>(status = "completed")

=============================================================================
