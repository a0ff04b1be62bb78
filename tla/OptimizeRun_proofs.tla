------------------------- MODULE OptimizeRun_proofs -------------------------
(***************************************************************************)
(* The safety properties of OptimizeRun for any number of stages, approval *)
(* codes, overrides, failures and invocations, and any results of the      *)
(* runtime.                                                                *)
(***************************************************************************)
EXTENDS OptimizeRun, TLAPS

-----------------------------------------------------------------------------
\* The approvals and overrides an invocation records.

LEMMA ApprovalKinds ==
  ASSUME NEW a \in Approval
  PROVE  /\ a.serial \in Nat /\ a.uses \in Nat /\ a.expires \in Nat /\ a.reuse \in Reuse
         /\ [a EXCEPT !.uses = @ + 1] \in Approval
         /\ [a EXCEPT !.uses = @ + 1].uses = a.uses + 1
         /\ [a EXCEPT !.uses = @ + 1].reuse = a.reuse
         /\ [a EXCEPT !.uses = @ + 1].serial = a.serial
BY DEF Approval

\* A one-time approval has at most one use.
OneUse(a) == a.reuse = "one_time" => a.uses <= 1

LEMMA IssuedHolds ==
  ASSUME TypeOK, NEW given \in SUBSET Code, NEW reuse \in [given -> Reuse],
         NEW expires \in Nat
  PROVE  LET approvals == Issued(given, reuse, expires)
         IN  /\ approvals \in [Code -> Approval]
             /\ \A c \in Code : OneUse(approvals[c])
             /\ \A c \in Code \ Fresh(given) : approvals[c] = approval[c]
             /\ \A c \in Fresh(given) : /\ approvals[c].uses = 0
                                        /\ approvals[c].serial = approval[c].serial + 1
<1> DEFINE approvals == Issued(given, reuse, expires)
           fresh(c) == [serial |-> approval[c].serial + 1, reuse |-> reuse[c], uses |-> 0,
                        expires |-> expires]
<1>1. Fresh(given) \subseteq given /\ given \subseteq Code
  BY DEF Fresh
<1>2. \A c \in Code : approval[c] \in Approval /\ OneUse(approval[c])
  BY DEF TypeOK, OneUse
<1>3. \A c \in Fresh(given) : approvals[c] = fresh(c)
  BY <1>1 DEF Issued
<1>4. \A c \in Code \ Fresh(given) : approvals[c] = approval[c]
  BY <1>1 DEF Issued
<1>5. ASSUME NEW c \in Fresh(given)
      PROVE  /\ fresh(c) \in Approval /\ fresh(c).uses = 0
             /\ fresh(c).serial = approval[c].serial + 1
  <2>1. c \in given /\ c \in Code
    BY <1>1
  <2>2. approval[c].serial \in Nat
    BY <1>2, <2>1, ApprovalKinds
  <2>3. reuse[c] \in Reuse
    BY <2>1
  <2> QED BY <2>2, <2>3 DEF Approval
<1> HIDE DEF approvals, fresh
<1>6. ASSUME NEW c \in Code PROVE approvals[c] \in Approval /\ OneUse(approvals[c])
  BY <1>2, <1>3, <1>4, <1>5 DEF OneUse
<1>7. approvals \in [Code -> Approval]
  BY <1>6 DEF Issued, approvals
<1> QED BY <1>3, <1>4, <1>5, <1>6, <1>7 DEF approvals

\* An approval that an invocation is about to use is counted once, unless it expired when
\* the clock is read again.
LEMMA ConsumedHolds ==
  ASSUME TypeOK, NEW approvals \in [Code -> Approval], NEW overrides,
         NEW given \in SUBSET Code, NEW read,
         \A c \in Code : OneUse(approvals[c]),
         \A c \in Fresh(given) : approvals[c].uses = 0
  PROVE  LET consumed == Consumed(approvals, overrides, given, read)
         IN  /\ consumed \in [Code -> Approval]
             /\ \A c \in Code : /\ OneUse(consumed[c])
                                /\ consumed[c].serial = approvals[c].serial
             /\ \A c \in Required :
                  IF c \in Fresh(given) \/ Active(approvals[c], read[c])
                  THEN consumed[c].uses = approvals[c].uses + 1
                  ELSE consumed[c] = approvals[c]
<1> DEFINE consumed == Consumed(approvals, overrides, given, read)
           used(c) == [approvals[c] EXCEPT !.uses = @ + 1]
           counts(c) == /\ c \in Required \/ overrides[c] # <<>>
                        /\ c \in Fresh(given) \/ Active(approvals[c], read[c])
<1>1. consumed = [c \in Code |-> IF counts(c) THEN used(c) ELSE approvals[c]]
  BY DEF Consumed
<1>2. ASSUME NEW c \in Code
      PROVE  /\ used(c) \in Approval /\ used(c).uses = approvals[c].uses + 1
             /\ used(c).reuse = approvals[c].reuse /\ used(c).serial = approvals[c].serial
             /\ approvals[c] \in Approval /\ approvals[c].uses \in Nat
  BY ApprovalKinds
<1>3. ASSUME NEW c \in Code, counts(c) PROVE OneUse(used(c))
  <2>1. approvals[c].reuse = "one_time" => approvals[c].uses = 0
    <3>1. CASE c \in Fresh(given)
      BY <3>1
    <3>2. CASE Active(approvals[c], read[c])
      <4>1. approvals[c].uses \in Nat
        BY ApprovalKinds
      <4> QED BY <3>2, <4>1 DEF Active, Spent
    <3> QED BY <1>3, <3>1, <3>2
  <2> QED BY <1>2, <2>1 DEF OneUse
<1> HIDE DEF used, consumed
<1>6. ASSUME NEW c \in Required
      PROVE  IF c \in Fresh(given) \/ Active(approvals[c], read[c])
             THEN consumed[c].uses = approvals[c].uses + 1
             ELSE consumed[c] = approvals[c]
  <2>1. c \in Code /\ (counts(c) <=> c \in Fresh(given) \/ Active(approvals[c], read[c]))
    BY <1>6 DEF Code
  <2> HIDE DEF counts
  <2>2. CASE counts(c)
    BY <1>1, <1>2, <2>1, <2>2
  <2>3. CASE ~counts(c)
    BY <1>1, <2>1, <2>3
  <2> QED BY <2>1, <2>2, <2>3
<1> HIDE DEF counts
<1>4. ASSUME NEW c \in Code
      PROVE  /\ consumed[c] \in Approval /\ OneUse(consumed[c])
             /\ consumed[c].serial = approvals[c].serial
  BY <1>1, <1>2, <1>3
<1>5. consumed \in [Code -> Approval]
  BY <1>1, <1>4
<1> QED BY <1>4, <1>5, <1>6 DEF consumed

LEMMA RecordedHolds ==
  ASSUME TypeOK, NEW approvals \in [Code -> Approval], NEW O \in SUBSET Override,
         NEW asked \in [O -> Value]
  PROVE  Recorded(approvals, asked) \in [Override -> Seq(OverrideRecord)]
<1>1. ASSUME NEW o \in O
      PROVE  [value |-> asked[o], serial |-> approvals[o].serial] \in OverrideRecord
  <2>1. o \in Code /\ approvals[o].serial \in Nat
    BY ApprovalKinds DEF Code
  <2> QED BY <2>1 DEF OverrideRecord
<1>2. ASSUME NEW o \in O
      PROVE  Append(override[o], [value |-> asked[o], serial |-> approvals[o].serial])
               \in Seq(OverrideRecord)
  <2>1. override[o] \in Seq(OverrideRecord)
    BY DEF TypeOK
  <2> QED BY <1>1, <2>1
<1>3. \A o \in Override : override[o] \in Seq(OverrideRecord)
  BY DEF TypeOK
<1>4. DOMAIN asked = O
  OBVIOUS
<1> QED BY <1>2, <1>3, <1>4 DEF Recorded

-----------------------------------------------------------------------------
\* The invariant.

IInv == RunInv /\ AcceptedIsMeasured

LEMMA InitHolds == Init => IInv
<1> SUFFICES ASSUME Init PROVE IInv
  OBVIOUS
<1>1. /\ NoResult \in StageResult
      /\ 1 \in Stage
  BY RunAssumption DEF NoResult, StageResult, Outcome, Stage
<1>2. [status |-> "pending", attempts |-> 0, result |-> NoResult] \in StageRecord
  BY <1>1 DEF StageRecord
<1>3. NoApproval \in Approval /\ NoApproval.reuse = "reusable" /\ NoApproval.uses = 0
  BY DEF NoApproval, Approval, Reuse
<1>4. TypeOK
  <2>1. stage \in [Stage -> StageRecord] /\ at \in Stage
    BY <1>1, <1>2 DEF Init
  <2>2. approval \in [Code -> Approval] /\ \A c \in Code : approval[c].uses <= 1
    BY <1>3 DEF Init
  <2>3. <<>> \in Seq(OverrideRecord)
    OBVIOUS
  <2>4. override \in [Override -> Seq(OverrideRecord)]
    BY <2>3 DEF Init
  <2> QED BY <2>1, <2>2, <2>4 DEF Init, TypeOK, Outcome
<1>5. StartsAreCounted
  BY <1>3 DEF Init, Code, StartsAreCounted
<1> QED BY <1>4, <1>5 DEF Init, IInv, RunInv, Control, AcceptedIsMeasured

\* What an invocation does to the approvals and to what they have started.
LEMMA InvokeHolds ==
  ASSUME IInv, NEW given \in SUBSET Code, NEW reuse \in [given -> Reuse],
         NEW expires \in Nat, NEW explicit \in BOOLEAN,
         NEW O \in SUBSET Override, NEW asked \in [O -> Value],
         Invoke(given, reuse, expires, explicit, asked)
  PROVE  /\ IInv'
         /\ status # "completed" /\ stage' = stage
         /\ pc' = "next" =>
              \A c \in Required :
                \/ approval'[c].serial > approval[c].serial
                \/ approval[c].serial > 0 /\ clock < approval[c].expires
<1> DEFINE approvals == Issued(given, reuse, expires)
           overrides == Recorded(approvals, asked)
           consumed(read) == Consumed(approvals, overrides, given, read)
<1>1. /\ TypeOK /\ Required \subseteq Code /\ clock \in Nat /\ MaxTime \in Nat
      /\ \A c \in Code : approval[c] \in Approval /\ approval[c].serial \in Nat
      /\ \A c \in Required : /\ approval[c].uses \in Nat /\ approval[c].expires \in Nat
                             /\ starts[c] \in Nat
      /\ StartsAreCounted
  <2>1. TypeOK /\ Required \subseteq Code /\ StartsAreCounted
    BY DEF IInv, RunInv, Code
  <2>2. \A c \in Code : approval[c] \in Approval
    BY <2>1 DEF TypeOK
  <2>3. \A c \in Code : /\ approval[c].serial \in Nat /\ approval[c].uses \in Nat
                        /\ approval[c].expires \in Nat
    BY <2>2, ApprovalKinds
  <2> QED BY <2>1, <2>2, <2>3, RunAssumption DEF TypeOK
<1>2. /\ approvals \in [Code -> Approval]
      /\ \A c \in Code : OneUse(approvals[c])
      /\ \A c \in Code \ Fresh(given) : approvals[c] = approval[c]
      /\ \A c \in Fresh(given) : /\ approvals[c].uses = 0
                                 /\ approvals[c].serial = approval[c].serial + 1
  BY <1>1, IssuedHolds
<1>3. overrides \in [Override -> Seq(OverrideRecord)]
  BY <1>1, <1>2, RecordedHolds
<1>4. ASSUME NEW read
      PROVE  /\ consumed(read) \in [Code -> Approval]
             /\ \A c \in Code : /\ OneUse(consumed(read)[c])
                                /\ consumed(read)[c].serial = approvals[c].serial
             /\ \A c \in Required :
                  IF c \in Fresh(given) \/ Active(approvals[c], read[c])
                  THEN consumed(read)[c].uses = approvals[c].uses + 1
                  ELSE consumed(read)[c] = approvals[c]
  BY <1>1, <1>2, ConsumedHolds
<1>5. /\ pc = "idle" /\ status # "completed"
      /\ override' = overrides
      /\ UNCHANGED <<stage, accepted, at, failures>>
      /\ \/ /\ status' = "paused" /\ outcome' = "unknown" /\ approval' = approvals
            /\ starts' = [c \in Required |-> IF c \in Fresh(given) THEN 0 ELSE starts[c]]
            /\ pc' = pc /\ clock' = clock
         \/ /\ status' = "running" /\ pc' = "next" /\ outcome' = outcome
            /\ \E end \in clock..MaxTime : \E read \in [Code -> {clock, end}] :
                 approval' = consumed(read) /\ clock' = end
            /\ Missing(approvals, given) = {}
            /\ starts' = [c \in Required |-> IF c \in Fresh(given) THEN 1 ELSE starts[c] + 1]
  BY DEF Invoke
<1> HIDE DEF approvals, overrides, consumed
<1>6. ~accepted /\ AcceptedIsMeasured'
  BY <1>5 DEF IInv, AcceptedIsMeasured
<1>7. Control'
  BY <1>5 DEF Control
<1>8. CASE pc' = pc
  <2>0. pc' = "idle"
    BY <1>5, <1>8
  <2>1. /\ status' = "paused" /\ outcome' = "unknown" /\ approval' = approvals
        /\ starts' = [c \in Required |-> IF c \in Fresh(given) THEN 0 ELSE starts[c]]
        /\ clock' = clock
    BY <1>5, <2>0
  <2>2. starts' \in [Required -> Nat]
    BY <1>1, <2>1 DEF TypeOK
  <2>3. TypeOK'
    BY <1>1, <1>2, <1>3, <1>5, <2>0, <2>1, <2>2 DEF TypeOK, OneUse, Outcome
  <2>4. ASSUME NEW c \in Required
        PROVE  \/ starts'[c] = approval'[c].uses
               \/ /\ starts'[c] = approval'[c].uses + 1
                  /\ approval'[c].expires <= clock' /\ ~Spent(approval'[c])
    <3>1. CASE c \in Fresh(given)
      BY <1>2, <2>1, <3>1
    <3>2. CASE c \notin Fresh(given)
      BY <1>1, <1>2, <2>1, <3>2 DEF StartsAreCounted
    <3> QED BY <3>1, <3>2
  <2>5. StartsAreCounted'
    BY <2>4 DEF StartsAreCounted
  <2> QED BY <1>5, <1>6, <1>7, <2>0, <2>3, <2>5 DEF IInv, RunInv
<1>9. CASE pc' = "next"
  <2>1. /\ status' = "running" /\ outcome' = outcome
        /\ Missing(approvals, given) = {}
        /\ starts' = [c \in Required |-> IF c \in Fresh(given) THEN 1 ELSE starts[c] + 1]
        /\ \E end \in clock..MaxTime : \E read \in [Code -> {clock, end}] :
                 approval' = consumed(read) /\ clock' = end
    BY <1>5, <1>9
  <2>0. PICK end \in clock..MaxTime : \E read \in [Code -> {clock, end}] :
                 approval' = consumed(read) /\ clock' = end
    BY <2>1
  <2>2. PICK read \in [Code -> {clock, end}] : approval' = consumed(read) /\ clock' = end
    BY <2>0
  <2>3. clock' \in Nat /\ \A c \in Required : read[c] \in Nat /\ read[c] <= clock'
    BY <1>1, <2>2
  <2>4. /\ approval' \in [Code -> Approval]
        /\ \A c \in Code : OneUse(approval'[c]) /\ approval'[c].serial = approvals[c].serial
    BY <1>4, <2>2
  <2>5. \A c \in Required \ Fresh(given) : Active(approval[c], clock)
    BY <1>1, <1>2, <2>1 DEF Missing
  <2>6. starts' \in [Required -> Nat]
    BY <1>1, <2>1 DEF TypeOK
  <2>7. TypeOK'
    BY <1>1, <1>3, <1>5, <1>9, <2>1, <2>3, <2>4, <2>6 DEF TypeOK, OneUse
  <2>8. ASSUME NEW c \in Required
        PROVE  \/ starts'[c] = approval'[c].uses
               \/ /\ starts'[c] = approval'[c].uses + 1
                  /\ approval'[c].expires <= clock' /\ ~Spent(approval'[c])
    <3>1. CASE c \in Fresh(given)
      BY <1>2, <1>4, <2>1, <2>2, <3>1
    <3>2. CASE c \notin Fresh(given)
      \* It is active, so it has not expired yet and has started what it counts.
      <4>1. /\ starts[c] = approval[c].uses /\ ~Spent(approval[c])
            /\ approval[c].serial > 0
        BY <1>1, <2>5, <3>2 DEF StartsAreCounted, Active
      <4>2. approvals[c] = approval[c] /\ starts'[c] = starts[c] + 1
        BY <1>1, <1>2, <2>1, <3>2
      <4>3. CASE Active(approvals[c], read[c])
        BY <1>4, <2>2, <4>1, <4>2, <4>3
      <4>4. CASE ~Active(approvals[c], read[c])
        <5>1. approval'[c] = approval[c]
          BY <1>4, <2>2, <3>2, <4>2, <4>4
        <5>2. approval[c].expires <= read[c]
          BY <1>1, <2>3, <4>1, <4>2, <4>4 DEF Active
        <5> QED BY <1>1, <2>3, <4>1, <4>2, <5>1, <5>2
      <4> QED BY <4>3, <4>4
    <3> QED BY <3>1, <3>2
  <2>9. StartsAreCounted'
    BY <2>8 DEF StartsAreCounted
  <2>10. ASSUME NEW c \in Required
        PROVE  \/ approval'[c].serial > approval[c].serial
               \/ approval[c].serial > 0 /\ clock < approval[c].expires
    <3>1. CASE c \in Fresh(given)
      BY <1>1, <1>2, <2>4, <3>1
    <3>2. CASE c \notin Fresh(given)
      BY <2>5, <3>2 DEF Active
    <3> QED BY <3>1, <3>2
  <2> QED BY <1>5, <1>6, <1>7, <2>7, <2>9, <2>10 DEF IInv, RunInv
<1> QED BY <1>5, <1>8, <1>9

-----------------------------------------------------------------------------
\* The stages.

\* No step of an invocation touches a completed stage or a completed run.
Keeps == /\ \A i \in Stage : stage[i].status = "completed" => stage'[i] = stage[i]
         /\ status = "completed" => UNCHANGED run

LEMMA StartHolds ==
  ASSUME IInv, NEW i \in Stage, StartStage(i)
  PROVE  IInv' /\ Keeps
<1> DEFINE s == [stage[i] EXCEPT !.status = "running", !.attempts = @ + 1]
<1>1. /\ TypeOK /\ stage \in [Stage -> StageRecord] /\ stage[i] \in StageRecord
      /\ stage[i].status # "completed"
  BY DEF IInv, RunInv, TypeOK, StartStage, IsNext, Incomplete
<1>2. /\ stage' = [stage EXCEPT ![i] = s] /\ at' = i /\ pc = "next" /\ pc' = "stage"
      /\ UNCHANGED <<status, outcome, approval, override, accepted, starts, clock, failures>>
  BY <1>1 DEF StartStage
<1>3. s \in StageRecord /\ s.status = "running"
  <2>1. stage[i].attempts \in Nat /\ stage[i].attempts + 1 \in Nat
    BY <1>1 DEF StageRecord
  <2>2. s.status = "running"
    BY <1>1 DEF StageRecord
  <2>3. s \in StageRecord
    BY <1>1, <2>1 DEF StageRecord
  <2> QED BY <2>2, <2>3
<1> HIDE DEF s
<1>4. stage' \in [Stage -> StageRecord] /\ stage'[i] = s
      /\ \A j \in Stage \ {i} : stage'[j] = stage[j]
  BY <1>1, <1>2, <1>3
<1>5. TypeOK'
  BY <1>1, <1>2, <1>4 DEF TypeOK
<1>6. status # "completed" /\ ~accepted
  BY <1>2 DEF IInv, RunInv, Control, AcceptedIsMeasured
<1> QED BY <1>1, <1>2, <1>3, <1>4, <1>5, <1>6
      DEF IInv, RunInv, Control, AcceptedIsMeasured, StartsAreCounted, Keeps

LEMMA FinishHolds ==
  ASSUME IInv, NEW r \in Returned[at], FinishStage(r)
  PROVE  IInv' /\ Keeps
<1> DEFINE s == [stage[at] EXCEPT !.status = "completed", !.result = r]
<1>1. /\ TypeOK /\ stage \in [Stage -> StageRecord] /\ stage[at] \in StageRecord
      /\ at \in Stage /\ stage[at].status = "running" /\ status # "completed"
  BY DEF IInv, RunInv, TypeOK, Control, FinishStage
<1>0. r \in StageResult
  BY <1>1, RunAssumption
<1>2. /\ stage' = [stage EXCEPT ![at] = s] /\ pc' \in {"next", "rejected"}
      /\ UNCHANGED <<status, outcome, approval, override, accepted, at, starts, clock,
                     failures>>
  BY <1>1 DEF FinishStage
<1>3. s \in StageRecord
  BY <1>0, <1>1 DEF StageRecord
<1> HIDE DEF s
<1>4. stage' \in [Stage -> StageRecord]
      /\ \A j \in Stage \ {at} : stage'[j] = stage[j]
  BY <1>1, <1>2, <1>3
<1>5. TypeOK'
  BY <1>1, <1>2, <1>4 DEF TypeOK
<1>6. ~accepted
  BY <1>1 DEF IInv, AcceptedIsMeasured
<1> QED BY <1>1, <1>2, <1>4, <1>5, <1>6
      DEF IInv, RunInv, Control, AcceptedIsMeasured, StartsAreCounted, Keeps

LEMMA ConcludeHolds ==
  ASSUME IInv, Conclude
  PROVE  IInv' /\ Keeps
<1>1. /\ TypeOK /\ status # "completed" /\ Pareto \in Stage
      /\ stage[Pareto] \in StageRecord
  BY RunAssumption DEF IInv, RunInv, TypeOK, Control, Conclude
<1>2. stage[Pareto].result.passes \subseteq Check
  BY <1>1 DEF StageRecord, StageResult
<1>3. TypeOK'
  <2>1. outcome' \in Outcome
    BY DEF Conclude, Outcome
  <2>2. accepted' \in BOOLEAN
    BY DEF Conclude, Promoted
  <2> QED BY <1>1, <2>1, <2>2 DEF Conclude, TypeOK
<1>4. AcceptedIsMeasured'
  BY <1>2 DEF Conclude, AcceptedIsMeasured, Promoted, Incomplete
<1> QED BY <1>1, <1>3, <1>4 DEF Conclude, IInv, RunInv, Control, StartsAreCounted, Keeps

LEMMA RejectHolds ==
  ASSUME IInv, Reject
  PROVE  IInv' /\ Keeps
<1>1. /\ TypeOK /\ status # "completed" /\ ~accepted /\ stage[at] \in StageRecord
  BY DEF IInv, RunInv, TypeOK, Control, AcceptedIsMeasured, Reject
<1>2. stage[at].result.outcome \in Outcome
  BY <1>1 DEF StageRecord, StageResult
<1>3. TypeOK'
  BY <1>1, <1>2 DEF Reject, TypeOK
<1> QED BY <1>1, <1>3 DEF Reject, IInv, RunInv, Control, AcceptedIsMeasured, StartsAreCounted, Keeps

LEMMA EndHolds ==
  ASSUME IInv, Interrupt \/ Die \/ Tick
  PROVE  IInv' /\ Keeps
<1>1. TypeOK
  BY DEF IInv, RunInv
<1>2. CASE Interrupt
  <2>1. TypeOK' /\ status # "completed" /\ ~accepted
    BY <1>1, <1>2 DEF Interrupt, TypeOK, Outcome, IInv, RunInv, Control, AcceptedIsMeasured
  <2> QED BY <1>2, <2>1 DEF Interrupt, IInv, RunInv, Control, AcceptedIsMeasured, StartsAreCounted, Keeps
<1>3. CASE Die
  <2>1. TypeOK'
    BY <1>1, <1>3 DEF Die, run, TypeOK
  <2> QED BY <1>3, <2>1
        DEF Die, run, IInv, RunInv, Control, AcceptedIsMeasured, StartsAreCounted,
            Incomplete, Keeps
<1>4. CASE Tick
  <2>1. TypeOK'
    BY <1>1, <1>4 DEF Tick, run, TypeOK
  <2>2. StartsAreCounted'
    <3> SUFFICES ASSUME NEW c \in Required
                 PROVE  \/ starts[c] = approval[c].uses
                        \/ /\ starts[c] = approval[c].uses + 1
                           /\ approval[c].expires <= clock' /\ ~Spent(approval[c])
      BY <1>4 DEF Tick, run, StartsAreCounted
    <3>1. clock \in Nat /\ clock' = clock + 1 /\ approval[c].expires \in Nat
      BY <1>1, <1>4, ApprovalKinds DEF Tick, TypeOK, Code
    <3> QED BY <3>1 DEF IInv, RunInv, StartsAreCounted
  <2> QED BY <1>4, <2>1, <2>2
        DEF Tick, run, IInv, RunInv, Control, AcceptedIsMeasured, Incomplete, Keeps
<1> QED BY <1>2, <1>3, <1>4

\* What the inputs of an invocation may be does not matter.
LEMMA EveryInvoke ==
  ASSUME TypeOK, InvokeAny \/ Resume
  PROVE  \E given \in SUBSET Code, O \in SUBSET Override, expires \in Nat,
            explicit \in BOOLEAN :
         \E reuse \in [given -> Reuse], asked \in [O -> Value] :
           Invoke(given, reuse, expires, explicit, asked)
<1>1. clock \in Nat /\ Hour \in Nat /\ MaxTime \in Nat /\ clock + Hour \in Nat
  BY RunAssumption DEF TypeOK
<1>2. CASE InvokeAny
  <2>1. PICK given \in SUBSET Code, O \in SUBSET Override :
          \E reuse \in [given -> Reuse], asked \in [O -> Value] :
            \/ Invoke(given, reuse, clock + Hour, FALSE, asked)
            \/ \E expires \in 0..(MaxTime + 1) : Invoke(given, reuse, expires, TRUE, asked)
    BY <1>2 DEF InvokeAny
  <2>2. PICK reuse \in [given -> Reuse], asked \in [O -> Value] :
            \/ Invoke(given, reuse, clock + Hour, FALSE, asked)
            \/ \E expires \in 0..(MaxTime + 1) : Invoke(given, reuse, expires, TRUE, asked)
    BY <2>1
  <2>3. PICK expires \in Nat, explicit \in BOOLEAN :
            Invoke(given, reuse, expires, explicit, asked)
    <3>1. CASE Invoke(given, reuse, clock + Hour, FALSE, asked)
      BY <1>1, <3>1
    <3>2. ASSUME NEW expires \in 0..(MaxTime + 1), Invoke(given, reuse, expires, TRUE, asked)
          PROVE  \E n \in Nat, explicit \in BOOLEAN : Invoke(given, reuse, n, explicit, asked)
      <4>1. expires \in Nat
        BY <1>1
      <4> QED BY <3>2, <4>1
    <3> QED BY <2>2, <3>1, <3>2
  <2> QED BY <2>3
<1>3. CASE Resume
  <2>1. Code \in SUBSET Code /\ {o \in Override : override[o] # <<>>} \in SUBSET Override
    OBVIOUS
  <2> DEFINE O == {o \in Override : override[o] # <<>>}
  <2>2. PICK reuse \in [Code -> Reuse], asked \in [O -> Value],
             expires \in (clock + 1)..(MaxTime + 3) : Invoke(Code, reuse, expires, TRUE, asked)
    BY <1>3 DEF Resume
  <2>3. expires \in Nat
    BY <1>1
  <2> HIDE DEF O
  <2> QED BY <2>1, <2>2, <2>3 DEF O
<1> QED BY <1>2, <1>3

LEMMA StepHolds ==
  ASSUME IInv, [Next]_vars
  PROVE  /\ IInv'
         /\ Keeps \/ UNCHANGED vars
         /\ pc = "idle" /\ pc' = "next" =>
              \A c \in Required :
                \/ approval'[c].serial > approval[c].serial
                \/ approval[c].serial > 0 /\ clock < approval[c].expires
<1>1. CASE UNCHANGED vars
  <2>1. TypeOK'
    BY <1>1 DEF vars, run, IInv, RunInv, TypeOK
  <2> QED BY <1>1, <2>1
        DEF vars, run, IInv, RunInv, Control, AcceptedIsMeasured, StartsAreCounted, Incomplete
<1>2. CASE InvokeAny \/ Resume
  <2>1. PICK given \in SUBSET Code, O \in SUBSET Override, expires \in Nat,
             explicit \in BOOLEAN :
             \E reuse \in [given -> Reuse], asked \in [O -> Value] :
               Invoke(given, reuse, expires, explicit, asked)
    BY <1>2, EveryInvoke DEF IInv, RunInv
  <2>2. PICK reuse \in [given -> Reuse], asked \in [O -> Value] :
             Invoke(given, reuse, expires, explicit, asked)
    BY <2>1
  <2>3. IInv' /\ Keeps
    BY <2>2, InvokeHolds DEF Keeps
  <2> QED BY <2>2, <2>3, InvokeHolds
<1>3. CASE Work \/ Interrupt \/ Die \/ Tick
  <2>1. IInv' /\ Keeps
    BY <1>3, StartHolds, FinishHolds, ConcludeHolds, RejectHolds, EndHolds DEF Work
  <2>2. ~(pc = "idle" /\ pc' = "next")
    BY <1>3 DEF Work, StartStage, FinishStage, Conclude, Reject, Interrupt, Die, Tick
  <2> QED BY <2>1, <2>2
<1> QED BY <1>1, <1>2, <1>3 DEF Next

-----------------------------------------------------------------------------
\* The theorems.

\* The invariant holds, for any stages, codes, overrides, results, failures and
\* invocations.
THEOREM InvariantHolds == Spec => [](RunInv /\ AcceptedIsMeasured)
<1>1. IInv /\ [Next]_vars => IInv'
  BY StepHolds
<1> QED BY InitHolds, <1>1, PTL DEF Spec, IInv

\* What a run was accepted for was measured, complete and committed.
THEOREM AcceptanceIsMeasured == Spec => []AcceptedIsMeasured
BY InvariantHolds, PTL

\* However often approvals are renewed, runs paused and invocations killed, a one-time
\* approval starts one invocation.
THEOREM OneTimeIsOnce == Spec => []OneTimeStartsOnce
<1>1. RunInv => OneTimeStartsOnce
  <2> SUFFICES ASSUME RunInv, NEW c \in Required, approval[c].reuse = "one_time"
               PROVE  starts[c] <= 1
    BY DEF OneTimeStartsOnce
  <2>1. approval[c] \in Approval /\ approval[c].uses <= 1
    BY DEF RunInv, TypeOK, Code
  <2>2. approval[c].uses \in Nat
    BY <2>1, ApprovalKinds
  <2> QED BY <2>1, <2>2 DEF RunInv, StartsAreCounted, Spent
<1> QED BY <1>1, InvariantHolds, PTL

\* No invocation starts a completed stage again, changes its result, or changes a
\* completed run.
THEOREM CompletedStays == Spec => CompletedIsKept
<1>1. IInv /\ [Next]_vars =>
        [/\ \A i \in Stage : stage[i].status = "completed" => stage'[i] = stage[i]
         /\ status = "completed" => UNCHANGED run]_vars
  BY StepHolds DEF Keeps
<1>2. Spec => []IInv
  BY InvariantHolds, PTL DEF IInv
<1> QED BY <1>1, <1>2, PTL DEF Spec, CompletedIsKept

\* Work starts only under approvals that this invocation issued or that have not expired.
THEOREM StartsAreApproved == Spec => StartIsApproved
<1>1. IInv /\ [Next]_vars =>
        [pc = "idle" /\ pc' = "next" =>
           \A c \in Required :
             \/ approval'[c].serial > approval[c].serial
             \/ approval[c].serial > 0 /\ clock < approval[c].expires]_vars
  BY StepHolds
<1>2. Spec => []IInv
  BY InvariantHolds, PTL DEF IInv
<1> QED BY <1>1, <1>2, PTL DEF Spec, StartIsApproved

=============================================================================
