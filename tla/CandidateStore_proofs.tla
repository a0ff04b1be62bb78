------------------------- MODULE CandidateStore_proofs -------------------------
(***************************************************************************)
(* Any number of processes may call the event log and the lease queue in   *)
(* any order, with old readings of both, over crashes and reboots: the log *)
(* implements the candidate lifecycle and the rows implement the lease     *)
(* table.                                                                  *)
(***************************************************************************)
EXTENDS CandidateStore, TLAPS

-----------------------------------------------------------------------------
\* The transition table.

LEMMA Table ==
  /\ Direct \in [State -> SUBSET State]
  /\ Direct["none"] = {"planned"}
  /\ State = {"none", "planned", "running", "evaluating", "interrupted",
              "recoverable-oom", "succeeded", "rejected", "failed"}
BY DEF Direct, State, Lifecycle!Direct, Lifecycle!State, Lifecycle!Active,
       Lifecycle!Recovery, Lifecycle!Terminal

\* The stage of a log with one more event is the stage the lifecycle gives it.
LEMMA StageOfAppend ==
  ASSUME NEW states \in Seq(State), NEW s \in State
  PROVE  /\ LastOf(Append(states, s)) = s
         /\ StageOf(Append(states, s)) = Lifecycle!StageAfter(s, StageOf(states))
<1> DEFINE longer == Append(states, s)
<1> DEFINE n == Len(states)
<1>1. /\ n \in Nat /\ Len(longer) = n + 1
      /\ DOMAIN states = 1..n /\ DOMAIN longer = 1..(n + 1)
      /\ longer[n + 1] = s
      /\ \A i \in 1..n : longer[i] = states[i]
  OBVIOUS
<1>2. LastOf(longer) = s
  BY <1>1 DEF LastOf
<1> HIDE DEF longer, n
<1>3. CASE s \in {"planned", "running"}
  <2>1. StageOf(longer) = "mutation"
    BY <1>1, <1>3 DEF StageOf
  <2> QED BY <1>2, <1>3, <2>1 DEF Lifecycle!StageAfter, longer
<1>4. CASE s = "evaluating"
  <2>1. StageOf(longer) = "evaluation"
    BY <1>1, <1>4 DEF StageOf
  <2> QED BY <1>2, <1>4, <2>1 DEF Lifecycle!StageAfter, longer
<1>5. CASE s \notin {"planned", "running", "evaluating"}
  <2>1. StageOf(longer) = StageOf(states)
    BY <1>1, <1>5 DEF StageOf
  <2> QED BY <1>2, <1>5, <2>1 DEF Lifecycle!StageAfter, longer
<1> QED BY <1>3, <1>4, <1>5

-----------------------------------------------------------------------------
\* The invariant.

IInv == StoreInv /\ LogIsPath

LEMMA FreshProc == \A p \in Process : Fresh(p) \in Proc
BY Table, StoreAssumption DEF Fresh, Proc

LEMMA AppendIsPath ==
  ASSUME NEW states \in Seq(State), NEW s \in Direct[LastOf(states)],
         states # <<>> => states[1] = "planned",
         \A i \in 2..Len(states) : states[i] \in Direct[states[i - 1]]
  PROVE  /\ Append(states, s)[1] = "planned"
         /\ \A i \in 2..Len(Append(states, s)) :
              Append(states, s)[i] \in Direct[Append(states, s)[i - 1]]
<1>1. CASE states = <<>>
  BY <1>1, Table DEF LastOf
<1>2. CASE states # <<>>
  <2>1. Len(states) \in Nat \ {0} /\ LastOf(states) = states[Len(states)]
    BY <1>2 DEF LastOf
  <2>2. /\ Len(Append(states, s)) = Len(states) + 1
        /\ Append(states, s)[Len(states) + 1] = s
        /\ \A i \in 1..Len(states) : Append(states, s)[i] = states[i]
    OBVIOUS
  <2> QED BY <1>2, <2>1, <2>2
<1> QED BY <1>1, <1>2

LEMMA InitHolds == Init => IInv
<1> SUFFICES ASSUME Init PROVE IInv
  OBVIOUS
<1>1. TypeOK
  BY FreshProc, StoreAssumption DEF Init, TypeOK, NoRow, Row
<1>2. ASSUME NEW c \in Candidate PROVE RowInv(c)
  <2>1. row[c].generation = 0 /\ row[c].done = FALSE
    BY DEF Init, NoRow
  <2> QED BY <2>1 DEF RowInv
<1>3. \A p \in Process : ProcInv(p)
  <2>1. \A p \in Process : Fresh(p).token = 0 /\ Fresh(p).now = 0 /\ Fresh(p).pc = "idle"
    BY DEF Fresh
  <2>2. \A p \in Process : proc[p].at \in Candidate
    BY <1>1 DEF TypeOK, Proc
  <2> QED BY <2>1, <2>2 DEF Init, ProcInv, NoRow
<1>4. LogIsPath
  <2>1. ASSUME NEW c \in Candidate PROVE log[c] = <<>> /\ 2..Len(log[c]) = {}
    BY DEF Init
  <2> QED BY <2>1 DEF LogIsPath
<1> QED BY <1>1, <1>2, <1>3, <1>4 DEF IInv, StoreInv

-----------------------------------------------------------------------------
\* What a step owes to the processes.

\* A process that only sees tokens being minted and the clock moving on keeps what it
\* relies on.
LEMMA OthersHold ==
  ASSUME TypeOK, NEW q \in Process, ProcInv(q), proc'[q] = proc[q],
         clock' \in Nat, clock <= clock', row' \in [Candidate -> Row],
         \A c \in Candidate : row[c].generation <= row'[c].generation
  PROVE  ProcInv(q)'
<1>1. /\ proc[q].at \in Candidate /\ proc[q].token \in Nat /\ proc[q].now \in Nat
      /\ \A c \in Candidate : row[c].generation \in Nat /\ row'[c].generation \in Nat
  BY DEF TypeOK, Proc, Row
<1> QED BY <1>1 DEF ProcInv, TypeOK

LEMMA ReturnedProc ==
  \A q \in Proc :
    [q EXCEPT !.pc = "idle", !.now = 0, !.expected = "none", !.target = "none"] \in Proc
<1>1. "none" \in State
  BY Table
<1> QED BY <1>1 DEF Proc

\* A call that returns keeps its token and forgets what it has read.
LEMMA ReturnHolds ==
  ASSUME TypeOK, \A q \in Process : ProcInv(q), NEW p \in Process, Return(p),
         UNCHANGED clock, row' \in [Candidate -> Row],
         \A c \in Candidate : row[c].generation = row'[c].generation
  PROVE  proc' \in [Process -> Proc] /\ \A q \in Process : ProcInv(q)'
<1>1. proc[p] \in Proc
  BY DEF TypeOK
<1>2. proc'[p] = [proc[p] EXCEPT !.pc = "idle", !.now = 0, !.expected = "none",
                                 !.target = "none"]
  BY <1>1 DEF TypeOK, Return
<1>3. \A q \in Process \ {p} : proc'[q] = proc[q]
  BY DEF TypeOK, Return
<1>4. /\ proc'[p].pc = "idle" /\ proc'[p].now = 0
      /\ proc'[p].at = proc[p].at /\ proc'[p].token = proc[p].token
  BY <1>1, <1>2 DEF Proc
<1>5. proc' \in [Process -> Proc]
  BY <1>1, <1>2, <1>3, ReturnedProc DEF TypeOK, Return
<1>6. ASSUME NEW q \in Process \ {p} PROVE ProcInv(q)'
  <2>1. clock \in Nat /\ \A c \in Candidate : row[c].generation \in Nat
    BY DEF TypeOK, Row
  <2> QED BY <1>3, <1>6, <2>1, OthersHold
<1>7. ProcInv(p)'
  <2>1. proc[p].at \in Candidate /\ clock \in Nat
    BY <1>1 DEF TypeOK, Proc
  <2> QED BY <1>4, <2>1 DEF ProcInv
<1> QED BY <1>5, <1>6, <1>7

\* The steps of the queue do not touch the log.
LEMMA QueueStepHolds ==
  ASSUME IInv, UNCHANGED log, clock' \in Nat, row' \in [Candidate -> Row],
         \A c \in Candidate : RowInv(c)',
         proc' \in [Process -> Proc], \A q \in Process : ProcInv(q)'
  PROVE  IInv'
BY DEF IInv, StoreInv, TypeOK, LogIsPath

LEMMA ClaimedProc ==
  \A q \in Proc, c \in Candidate, n \in Nat :
    [q EXCEPT !.pc = "idle", !.now = 0, !.at = c, !.token = n] \in Proc
BY DEF Proc

LEMMA RenewedRow ==
  ASSUME NEW r \in Row, NEW n \in Nat
  PROVE  /\ Renewed(r, n) \in Row
         /\ Renewed(r, n).generation = r.generation
         /\ Renewed(r, n).holder = r.holder
         /\ Renewed(r, n).expires = Renewed(r, n).heartbeat + LeaseDuration
         /\ Renewed(r, n).done = r.done
<1>1. n + LeaseDuration \in Nat
  BY StoreAssumption
<1>2. /\ Renewed(r, n).generation = r.generation
      /\ Renewed(r, n).holder = r.holder
      /\ Renewed(r, n).done = r.done
      /\ Renewed(r, n).heartbeat = n
      /\ Renewed(r, n).expires = n + LeaseDuration
  BY DEF Row, Renewed
<1>3. Renewed(r, n) \in Row
  BY <1>1 DEF Row, Renewed
<1> QED BY <1>2, <1>3

LEMMA ClaimHolds ==
  ASSUME IInv, NEW p \in Process, NEW c \in Candidate, Claim(p, c)
  PROVE  IInv'
<1> DEFINE r == [holder |-> p, generation |-> row[c].generation + 1,
                 heartbeat |-> proc[p].now, expires |-> proc[p].now + LeaseDuration,
                 done |-> FALSE]
           q == [proc[p] EXCEPT !.pc = "idle", !.now = 0, !.at = c,
                                !.token = row[c].generation + 1]
<1>1. /\ TypeOK /\ proc[p] \in Proc /\ row[c] \in Row /\ clock \in Nat
      /\ proc[p].now \in Nat /\ row[c].generation \in Nat
      /\ \A d \in Candidate : RowInv(d)
      /\ \A s \in Process : ProcInv(s)
  BY DEF IInv, StoreInv, TypeOK, Proc, Row
<1>2. /\ row' = [row EXCEPT ![c] = r]
      /\ proc' = [proc EXCEPT ![p] = q]
      /\ UNCHANGED <<log, clock>>
  BY <1>1 DEF Claim, TypeOK
<1>3. /\ r \in Row /\ r.generation = row[c].generation + 1 /\ r.holder = p
      /\ r.expires = r.heartbeat + LeaseDuration
  BY <1>1, StoreAssumption DEF Row
<1>4. q \in Proc
  <2>1. row[c].generation + 1 \in Nat
    BY <1>1
  <2> QED BY <1>1, <2>1, ClaimedProc
<1>10. q.at = c /\ q.token = row[c].generation + 1 /\ q.now = 0 /\ q.pc = "idle"
  BY <1>1 DEF Proc
<1> HIDE DEF r, q
<1>5. row' \in [Candidate -> Row] /\ row'[c] = r
      /\ \A d \in Candidate \ {c} : row'[d] = row[d]
  BY <1>1, <1>2, <1>3 DEF TypeOK
<1>6. proc' \in [Process -> Proc] /\ proc'[p] = q
      /\ \A s \in Process \ {p} : proc'[s] = proc[s]
  BY <1>1, <1>2, <1>4 DEF TypeOK
<1>7. \A d \in Candidate : RowInv(d)'
  BY <1>1, <1>3, <1>5 DEF RowInv
<1>8. ProcInv(p)'
  BY <1>1, <1>2, <1>3, <1>10, <1>5, <1>6 DEF ProcInv
<1>9. ASSUME NEW s \in Process \ {p} PROVE ProcInv(s)'
  <2>1. \A d \in Candidate : row[d].generation <= row'[d].generation
    <3>1. \A d \in Candidate : row[d].generation \in Nat
      BY <1>1 DEF TypeOK, Row
    <3> QED BY <1>3, <1>5, <3>1
  <2> QED BY <1>1, <1>2, <1>5, <1>6, <1>9, <2>1, OthersHold
<1> QED BY <1>1, <1>2, <1>5, <1>6, <1>7, <1>8, <1>9, QueueStepHolds

LEMMA HeartbeatHolds ==
  ASSUME IInv, NEW p \in Process, NEW c \in Candidate, Heartbeat(p, c)
  PROVE  IInv'
<1> DEFINE r == Renewed(row[c], proc[p].now)
<1>1. /\ TypeOK /\ row[c] \in Row /\ clock \in Nat /\ proc[p].now \in Nat
      /\ \A d \in Candidate : RowInv(d)
      /\ \A s \in Process : ProcInv(s)
  BY DEF IInv, StoreInv, TypeOK, Proc, Row
<1>2. row' = [row EXCEPT ![c] = r] /\ Return(p) /\ UNCHANGED <<log, clock>>
  BY DEF Heartbeat
<1>3. /\ r \in Row /\ r.generation = row[c].generation /\ r.holder = row[c].holder
      /\ r.done = row[c].done
      /\ r.expires = r.heartbeat + LeaseDuration
  BY <1>1, RenewedRow
<1> HIDE DEF r
<1>4. row' \in [Candidate -> Row] /\ row'[c] = r
      /\ \A d \in Candidate \ {c} : row'[d] = row[d]
  BY <1>1, <1>2, <1>3 DEF TypeOK
<1>5. \A d \in Candidate : RowInv(d)' /\ row[d].generation = row'[d].generation
  BY <1>1, <1>3, <1>4 DEF RowInv
<1> QED BY <1>1, <1>2, <1>4, <1>5, ReturnHolds, QueueStepHolds

LEMMA CompleteHolds ==
  ASSUME IInv, NEW p \in Process, NEW c \in Candidate, Complete(p, c)
  PROVE  IInv'
<1>1. /\ TypeOK /\ row[c] \in Row /\ clock \in Nat
      /\ \A d \in Candidate : RowInv(d)
      /\ \A s \in Process : ProcInv(s)
  BY DEF IInv, StoreInv, TypeOK
<1>2. row' = [row EXCEPT ![c].done = TRUE] /\ Return(p) /\ UNCHANGED <<log, clock>>
  BY DEF Complete
<1>3. row' \in [Candidate -> Row]
      /\ \A d \in Candidate : /\ row'[d].holder = row[d].holder
                              /\ row'[d].generation = row[d].generation
                              /\ row'[d].heartbeat = row[d].heartbeat
                              /\ row'[d].expires = row[d].expires
                              /\ d # c => row'[d].done = row[d].done
  BY <1>1, <1>2 DEF TypeOK, Row
<1>4. ASSUME NEW d \in Candidate PROVE RowInv(d)' /\ row[d].generation = row'[d].generation
  <2>1. row[c].generation > 0
    BY <1>1 DEF Complete, HoldsToken, TypeOK, Row
  <2> QED BY <1>1, <1>3, <2>1 DEF RowInv
<1> QED BY <1>1, <1>2, <1>3, <1>4, ReturnHolds, QueueStepHolds

LEMMA RefusedHolds ==
  ASSUME IInv, NEW p \in Process, NEW c \in Candidate, Refused(p, c)
  PROVE  IInv'
<1>1. /\ TypeOK /\ row \in [Candidate -> Row] /\ clock \in Nat
      /\ \A d \in Candidate : RowInv(d)
      /\ \A s \in Process : ProcInv(s)
  BY DEF IInv, StoreInv, TypeOK
<1>2. Return(p) /\ UNCHANGED <<log, row, clock>>
  BY DEF Refused
<1>3. \A d \in Candidate : RowInv(d)'
  BY <1>1, <1>2 DEF RowInv
<1> QED BY <1>1, <1>2, <1>3, ReturnHolds, QueueStepHolds

-----------------------------------------------------------------------------
\* The steps of the log, of a process and of the host.

LEMMA AppendHolds ==
  ASSUME IInv, NEW p \in Process, AppendEvent(p)
  PROVE  IInv'
<1> DEFINE c == proc[p].on
<1>1. /\ TypeOK /\ c \in Candidate /\ log[c] \in Seq(State) /\ proc[p].target \in State
      /\ \A d \in Candidate : RowInv(d)
      /\ \A s \in Process : ProcInv(s)
  BY DEF IInv, StoreInv, TypeOK, Proc
<1>2. Return(p) /\ UNCHANGED <<row, clock>>
  BY DEF AppendEvent
<1>3. proc' \in [Process -> Proc] /\ \A s \in Process : ProcInv(s)'
  BY <1>1, <1>2, ReturnHolds DEF TypeOK
<1>4. \A d \in Candidate : RowInv(d)'
  BY <1>1, <1>2 DEF RowInv
<1>5. CASE log' = log
  BY <1>1, <1>2, <1>3, <1>4, <1>5 DEF IInv, StoreInv, TypeOK, LogIsPath
<1>6. CASE /\ LastOf(log[c]) = proc[p].expected
           /\ log' = [log EXCEPT ![c] = Append(@, proc[p].target)]
  <2>1. proc[p].target \in Direct[LastOf(log[c])]
    BY <1>1, <1>6 DEF AppendEvent, ProcInv
  <2>2. /\ log'[c] = Append(log[c], proc[p].target)
        /\ \A d \in Candidate \ {c} : log'[d] = log[d]
        /\ log' \in [Candidate -> Seq(State)]
    BY <1>1, <1>6 DEF TypeOK
  <2>3. /\ log'[c][1] = "planned"
        /\ \A i \in 2..Len(log'[c]) : log'[c][i] \in Direct[log'[c][i - 1]]
    <3>1. /\ log[c] # <<>> => log[c][1] = "planned"
          /\ \A i \in 2..Len(log[c]) : log[c][i] \in Direct[log[c][i - 1]]
      BY <1>1 DEF IInv, LogIsPath
    <3> HIDE DEF c
    <3> QED BY <1>1, <2>1, <2>2, <3>1, AppendIsPath
  <2>4. LogIsPath'
    BY <2>2, <2>3 DEF IInv, LogIsPath
  <2> QED BY <1>1, <1>2, <1>3, <1>4, <2>2, <2>4 DEF IInv, StoreInv, TypeOK
<1> QED BY <1>5, <1>6 DEF AppendEvent, StillExpected

\* A step that changes one process, which holds and reads nothing it should not.
LEMMA ProcessStepHolds ==
  ASSUME IInv, NEW p \in Process, NEW q \in Proc,
         proc' = [proc EXCEPT ![p] = q], UNCHANGED <<log, row, clock>>,
         q.token <= row[q.at].generation, q.now <= clock,
         q.pc = "append" => q.target \in Direct[q.expected]
  PROVE  IInv'
<1>1. TypeOK'
  BY DEF IInv, StoreInv, TypeOK
<1>2. \A c \in Candidate : RowInv(c)'
  BY DEF IInv, StoreInv, RowInv
<1>3. ASSUME NEW s \in Process PROVE ProcInv(s)'
  <2>1. proc'[s] = IF s = p THEN q ELSE proc[s]
    BY DEF IInv, StoreInv, TypeOK
  <2> QED BY <2>1 DEF IInv, StoreInv, ProcInv
<1>4. LogIsPath'
  BY DEF IInv, LogIsPath
<1> QED BY <1>1, <1>2, <1>3, <1>4 DEF IInv, StoreInv

LEMMA ReadClockHolds ==
  ASSUME IInv, NEW p \in Process, ReadClock(p)
  PROVE  IInv'
<1> DEFINE q == [proc[p] EXCEPT !.pc = "queue", !.now = clock]
<1>1. proc[p] \in Proc /\ clock \in Nat /\ ProcInv(p)
  BY DEF IInv, StoreInv, TypeOK
<1>2. q \in Proc /\ q.now = clock /\ q.pc = "queue"
      /\ q.token = proc[p].token /\ q.at = proc[p].at
  BY <1>1 DEF Proc
<1>3. proc' = [proc EXCEPT ![p] = q] /\ UNCHANGED <<log, row, clock>>
  BY DEF ReadClock, IInv, StoreInv, TypeOK
<1>4. q.token <= row[q.at].generation /\ q.now <= clock
  BY <1>1, <1>2 DEF ProcInv
<1> HIDE DEF q
<1> QED BY <1>2, <1>3, <1>4, ProcessStepHolds

LEMMA ReadLogHolds ==
  ASSUME IInv, NEW p \in Process, NEW c \in Candidate, NEW s \in State, ReadLog(p, c, s)
  PROVE  IInv'
<1> DEFINE q == [proc[p] EXCEPT !.pc = "append", !.on = c, !.expected = LastOf(log[c]),
                                !.target = s]
<1>1. proc[p] \in Proc /\ ProcInv(p) /\ log[c] \in Seq(State) /\ proc[p].now <= clock
  BY DEF IInv, StoreInv, TypeOK, ProcInv
<1>2. LastOf(log[c]) \in State
  BY <1>1, Table DEF LastOf
<1>3. s \in Direct[LastOf(log[c])]
  BY DEF ReadLog, Allowed
<1>4. q \in Proc
  BY <1>1, <1>2 DEF Proc
<1>5. q.now = proc[p].now /\ q.token = proc[p].token /\ q.at = proc[p].at
      /\ q.expected = LastOf(log[c]) /\ q.target = s
  BY <1>1 DEF Proc
<1>6. proc' = [proc EXCEPT ![p] = q] /\ UNCHANGED <<log, row, clock>>
  BY DEF ReadLog, IInv, StoreInv, TypeOK
<1> HIDE DEF q
<1> QED BY <1>1, <1>3, <1>4, <1>5, <1>6, ProcessStepHolds DEF ProcInv

LEMMA FreshHolds ==
  ASSUME NEW p \in Process
  PROVE  /\ Fresh(p).token = 0 /\ Fresh(p).now = 0 /\ Fresh(p).pc = "idle"
         /\ Fresh(p).at \in Candidate
BY StoreAssumption DEF Fresh

LEMMA CrashHolds ==
  ASSUME IInv, NEW p \in Process, Crash(p)
  PROVE  IInv'
<1>1. Fresh(p) \in Proc /\ clock \in Nat /\ \A c \in Candidate : row[c].generation \in Nat
  BY FreshProc DEF IInv, StoreInv, TypeOK, Row
<1> DEFINE q == Fresh(p)
<1>2. q \in Proc /\ q.token <= row[q.at].generation /\ q.now <= clock /\ q.pc # "append"
  BY <1>1, FreshHolds
<1>3. proc' = [proc EXCEPT ![p] = q] /\ UNCHANGED <<log, row, clock>>
  BY DEF Crash
<1> HIDE DEF q
<1> QED BY <1>2, <1>3, ProcessStepHolds

LEMMA RebootHolds ==
  ASSUME IInv, Reboot
  PROVE  IInv'
<1>1. TypeOK'
  BY FreshProc DEF Reboot, IInv, StoreInv, TypeOK
<1>2. \A c \in Candidate : RowInv(c)'
  BY DEF Reboot, IInv, StoreInv, RowInv
<1>3. ASSUME NEW p \in Process PROVE ProcInv(p)'
  <2>1. proc'[p] = Fresh(p) /\ row' = row /\ clock' = 0
    BY DEF Reboot
  <2>2. \A c \in Candidate : row[c].generation \in Nat
    BY DEF IInv, StoreInv, TypeOK, Row
  <2> QED BY <2>1, <2>2, FreshHolds DEF ProcInv
<1>4. LogIsPath'
  BY DEF Reboot, IInv, LogIsPath
<1> QED BY <1>1, <1>2, <1>3, <1>4 DEF IInv, StoreInv

LEMMA TickHolds ==
  ASSUME IInv, Tick
  PROVE  IInv'
<1>1. TypeOK' /\ clock \in Nat /\ clock' = clock + 1 /\ UNCHANGED <<log, row, proc>>
  BY DEF Tick, IInv, StoreInv, TypeOK
<1>2. ASSUME NEW p \in Process PROVE ProcInv(p)'
  <2>1. ProcInv(p) /\ proc[p].now \in Nat
    BY DEF IInv, StoreInv, TypeOK, Proc
  <2> QED BY <1>1, <2>1 DEF ProcInv
<1>3. LogIsPath' /\ \A c \in Candidate : RowInv(c)'
  BY <1>1 DEF IInv, StoreInv, LogIsPath, RowInv
<1> QED BY <1>1, <1>2, <1>3 DEF IInv, StoreInv

LEMMA StepHolds == IInv /\ [Next]_vars => IInv'
<1> SUFFICES ASSUME IInv, [Next]_vars PROVE IInv'
  OBVIOUS
<1>1. CASE UNCHANGED vars
  BY <1>1 DEF vars, IInv, StoreInv, TypeOK, RowInv, ProcInv, LogIsPath
<1>2. ASSUME NEW p \in Process, Call(p) \/ Crash(p) PROVE IInv'
  BY <1>2, ReadClockHolds, AppendHolds, ClaimHolds, HeartbeatHolds, CompleteHolds,
     RefusedHolds, ReadLogHolds, CrashHolds DEF Call
<1> QED BY <1>1, <1>2, TickHolds, RebootHolds DEF Next

\* The rows, the readings and the log stay consistent in every behaviour.
THEOREM InvariantHolds == Spec => [](StoreInv /\ LogIsPath)
BY InitHolds, StepHolds, PTL DEF Spec, IInv

-----------------------------------------------------------------------------
\* What the invariant gives.

\* Every log is a path through the transition table, whichever processes wrote it.
THEOREM LogsArePaths == Spec => []LogIsPath
BY InvariantHolds, PTL

\* A row is only changed by a call for its candidate.
LEMMA RowChanges ==
  ASSUME IInv, [Next]_vars, NEW c \in Candidate, row'[c] # row[c]
  PROVE  \E p \in Process : Claim(p, c) \/ Heartbeat(p, c) \/ Complete(p, c)
<1>1. PICK p \in Process, d \in Candidate : Claim(p, d) \/ Heartbeat(p, d) \/ Complete(p, d)
  BY DEF Next, Call, vars, ReadClock, AppendEvent, Refused, ReadLog, Crash, Tick, Reboot
<1>2. d = c
  BY <1>1 DEF Claim, Heartbeat, Complete, IInv, StoreInv, TypeOK
<1> QED BY <1>1, <1>2

LEMMA ClaimedRow ==
  ASSUME IInv, NEW p \in Process, NEW c \in Candidate, Claim(p, c)
  PROVE  /\ row'[c].holder = p /\ row'[c].generation = row[c].generation + 1
         /\ ~row'[c].done /\ row[c].generation \in Nat
         /\ row[c].generation > 0 => row[c].expires <= clock /\ ~row[c].done
<1>1. row \in [Candidate -> Row] /\ row[c].generation \in Nat /\ row[c].expires \in Nat
      /\ proc[p].now \in Nat /\ clock \in Nat /\ proc[p].now <= clock
  BY DEF IInv, StoreInv, TypeOK, Row, Proc, ProcInv
<1>2. /\ row'[c].holder = p /\ row'[c].generation = row[c].generation + 1 /\ ~row'[c].done
  BY <1>1 DEF Claim
<1>3. row[c].generation > 0 => row[c].expires <= proc[p].now /\ ~row[c].done
  BY <1>1 DEF Claim, Claimable, Lapsed
<1> QED BY <1>1, <1>2, <1>3

LEMMA ExtendedRow ==
  ASSUME IInv, NEW p \in Process, NEW c \in Candidate, Heartbeat(p, c) \/ Complete(p, c)
  PROVE  /\ row'[c].holder = row[c].holder /\ row'[c].generation = row[c].generation
         /\ row[c].generation \in Nat /\ row[c].generation > 0 /\ row[c].holder = p
         /\ proc[p].at = c /\ proc[p].token = row[c].generation
         /\ proc[p].pc = "queue" /\ proc'[p].pc = "idle"
<1>1. row \in [Candidate -> Row] /\ row[c] \in Row /\ row[c].generation \in Nat
      /\ proc \in [Process -> Proc] /\ proc[p] \in Proc
  BY DEF IInv, StoreInv, TypeOK, Row
<1>2. row'[c].holder = row[c].holder /\ row'[c].generation = row[c].generation
  BY <1>1 DEF Heartbeat, Complete, Renewed, Row
<1>3. HoldsToken(p, c) /\ proc[p].pc = "queue" /\ Return(p)
  BY DEF Heartbeat, Complete
<1>4. proc'[p].pc = "idle"
  BY <1>1, <1>3 DEF Return, Proc
<1> QED BY <1>1, <1>2, <1>3, <1>4 DEF HoldsToken

\* A lease changes hands only when the clock has passed the expiry its holder last asked
\* for, for any number of claimants with readings of any age, over any reboots.
THEOREM TakeoversAreLate == Spec => TakeoverAfterExpiry
<1>1. ASSUME IInv, [Next]_vars, NEW c \in Candidate,
             row'[c].generation > row[c].generation, row[c].generation > 0
      PROVE  row[c].expires <= clock /\ ~row[c].done
  <2>1. PICK p \in Process : Claim(p, c) \/ Heartbeat(p, c) \/ Complete(p, c)
    <3>1. row[c].generation \in Nat
      BY <1>1 DEF IInv, StoreInv, TypeOK, Row
    <3>2. row'[c] # row[c]
      BY <1>1, <3>1
    <3> QED BY <1>1, <3>2, RowChanges
  <2> QED BY <1>1, <2>1, ClaimedRow, ExtendedRow
<1>2. IInv /\ [Next]_vars =>
        [\A c \in Candidate :
           row'[c].generation > row[c].generation /\ row[c].generation > 0
             => row[c].expires <= clock /\ ~row[c].done]_vars
  BY <1>1
<1>3. Spec => []IInv
  BY InitHolds, StepHolds, PTL DEF Spec
<1> QED BY <1>2, <1>3, PTL DEF Spec, TakeoverAfterExpiry

-----------------------------------------------------------------------------
\* The rows follow the lease table, as it is at the time their writer has read.

Holders   == [c \in Candidate |-> row[c].holder]
Live(now) == {c \in Candidate : row[c].generation > 0 /\ now < row[c].expires}
Done      == {c \in Candidate : row[c].done}

LEMMA ClaimMaps ==
  ASSUME IInv, NEW p \in Process, NEW c \in Candidate, NEW now \in Nat,
         now = proc[p].now, Claim(p, c)
  PROVE  Leases(now)!Claim(p, c)
<1>1. /\ row \in [Candidate -> Row] /\ row[c] \in Row
      /\ LeaseDuration \in Nat \ {0}
  BY StoreAssumption DEF IInv, StoreInv, TypeOK
<1>2. \A d \in Candidate \ {c} : row'[d] = row[d]
  BY <1>1 DEF Claim
<1>3. /\ row'[c].generation > 0 /\ now < row'[c].expires
      /\ row'[c].holder = p /\ ~row'[c].done
  BY <1>1 DEF Claim, Row
<1>4. c \notin Live(now) /\ c \notin Done
  <2>1. row[c].generation > 0 => row[c].expires <= now /\ ~row[c].done
    BY <1>1 DEF Claim, Claimable, Lapsed, Row
  <2>2. row[c].done => row[c].generation > 0
    BY DEF IInv, StoreInv, RowInv
  <2>3. row[c].expires \in Nat
    BY <1>1 DEF Row
  <2> QED BY <2>1, <2>2, <2>3 DEF Live, Done
<1>5. Holders' = [Holders EXCEPT ![c] = p]
  BY <1>2, <1>3 DEF Holders
<1>6. {d \in Candidate : row'[d].generation > 0 /\ now < row'[d].expires} = Live(now) \cup {c}
  BY <1>2, <1>3 DEF Live
<1>7. Done' = Done
  BY <1>2, <1>3, <1>4 DEF Done
<1> QED BY <1>4, <1>5, <1>6, <1>7 DEF Leases!Claim, Leases!Claimable, Holders, Live, Done

\* What the token and the time allow the holder of a lease to do.
LEMMA HeldLease ==
  ASSUME IInv, NEW p \in Process, NEW c \in Candidate, NEW now \in Nat,
         now = proc[p].now, HoldsToken(p, c), InTime(c, now)
  PROVE  Holders[c] = p /\ c \in Live(now)
<1>1. /\ row[c] \in Row /\ proc[p] \in Proc
      /\ row[c].holder = p /\ row[c].generation > 0
  BY DEF HoldsToken, IInv, StoreInv, TypeOK
<1>2. now < row[c].expires
  <2>1. row[c].expires \in Nat
    BY <1>1 DEF Row
  <2> QED BY <2>1 DEF InTime, Lapsed
<1> QED BY <1>1, <1>2 DEF Holders, Live

LEMMA HeartbeatMaps ==
  ASSUME IInv, NEW p \in Process, NEW c \in Candidate, NEW now \in Nat,
         now = proc[p].now, Heartbeat(p, c)
  PROVE  Leases(now)!Heartbeat(p, c)
<1>1. /\ row \in [Candidate -> Row] /\ row[c] \in Row /\ LeaseDuration \in Nat \ {0}
      /\ row' = [row EXCEPT ![c] = Renewed(row[c], now)]
  BY StoreAssumption DEF Heartbeat, IInv, StoreInv, TypeOK
<1>2. Holders[c] = p /\ c \in Live(now) /\ c \notin Done
  BY HeldLease DEF Heartbeat, Done
<1>3. \A d \in Candidate \ {c} : row'[d] = row[d]
  BY <1>1
<1>4. /\ row'[c].holder = row[c].holder /\ row'[c].generation = row[c].generation
      /\ row'[c].done = row[c].done /\ row'[c].expires = now + LeaseDuration
  BY <1>1 DEF Renewed, Row
<1>5. Holders' = Holders /\ Done' = Done
  BY <1>3, <1>4 DEF Holders, Done
<1>6. {d \in Candidate : row'[d].generation > 0 /\ now < row'[d].expires} = Live(now)
  BY <1>1, <1>2, <1>3, <1>4 DEF Live
<1> QED BY <1>2, <1>5, <1>6 DEF Leases!Heartbeat, Leases!Current, Holders, Live, Done

LEMMA CompleteMaps ==
  ASSUME IInv, NEW p \in Process, NEW c \in Candidate, NEW now \in Nat,
         now = proc[p].now, Complete(p, c)
  PROVE  Leases(now)!Complete(p, c)
<1>1. /\ row \in [Candidate -> Row] /\ row[c] \in Row
      /\ row' = [row EXCEPT ![c].done = TRUE]
  BY DEF Complete, IInv, StoreInv, TypeOK
<1>2. Holders[c] = p /\ (c \in Live(now) \/ c \in Done)
  <2>1. Holders[c] = p
    BY DEF Complete, HoldsToken, Holders
  <2>2. row[c].done \/ InTime(c, now)
    BY DEF Complete
  <2>3. CASE row[c].done
    BY <2>1, <2>3 DEF Done
  <2>4. CASE InTime(c, now)
    BY <2>4, HeldLease DEF Complete
  <2> QED BY <2>2, <2>3, <2>4
<1>3. \A d \in Candidate : /\ row'[d].holder = row[d].holder
                          /\ row'[d].generation = row[d].generation
                          /\ row'[d].expires = row[d].expires
  BY <1>1 DEF Row
<1>4. row'[c].done /\ \A d \in Candidate \ {c} : row'[d].done = row[d].done
  BY <1>1 DEF Row
<1>5. Holders' = Holders /\ Done' = Done \cup {c}
  BY <1>3, <1>4 DEF Holders, Done
<1>6. {d \in Candidate : row'[d].generation > 0 /\ now < row'[d].expires} = Live(now)
  BY <1>3 DEF Live
<1> QED BY <1>2, <1>5, <1>6 DEF Leases!Complete, Leases!Completable, Holders, Live, Done

\* A row changes only by what the lease table lets the process do that calls, with the
\* token of the last claim and at the time it has read, for any number of processes with
\* readings of any age.
THEOREM StaleTokensAreRefused == Spec => OnlyHolderWrites
<1>1. ASSUME IInv, [Next]_vars, NEW c \in Candidate, row'[c] # row[c]
      PROVE  \E p \in Process : \E now \in {proc[p].now} :
               /\ proc[p].pc = "queue" /\ proc'[p].pc = "idle"
               /\ \/ /\ row'[c].generation = row[c].generation + 1
                     /\ Leases(now)!Claim(p, c)
                  \/ /\ row'[c].generation = row[c].generation
                     /\ proc[p].at = c /\ proc[p].token = row[c].generation
                     /\ Leases(now)!Heartbeat(p, c) \/ Leases(now)!Complete(p, c)
  <2>1. PICK p \in Process : Claim(p, c) \/ Heartbeat(p, c) \/ Complete(p, c)
    BY <1>1, RowChanges
  <2>2. PICK now \in Nat : now = proc[p].now
    BY <1>1 DEF IInv, StoreInv, TypeOK, Proc
  <2>3. CASE Claim(p, c)
    <3>1. proc[p].pc = "queue" /\ proc'[p].pc = "idle"
      BY <1>1, <2>3 DEF Claim, IInv, StoreInv, TypeOK, Proc
    <3>2. row'[c].generation = row[c].generation + 1 /\ Leases(now)!Claim(p, c)
      BY <1>1, <2>2, <2>3, ClaimMaps, ClaimedRow
    <3> QED BY <2>2, <3>1, <3>2
  <2>4. CASE Heartbeat(p, c) \/ Complete(p, c)
    <3>1. /\ row'[c].generation = row[c].generation
          /\ proc[p].at = c /\ proc[p].token = row[c].generation
          /\ proc[p].pc = "queue" /\ proc'[p].pc = "idle"
      BY <1>1, <2>4, ExtendedRow
    <3>2. Leases(now)!Heartbeat(p, c) \/ Leases(now)!Complete(p, c)
      BY <1>1, <2>2, <2>4, HeartbeatMaps, CompleteMaps
    <3> QED BY <2>2, <3>1, <3>2
  <2> QED BY <2>1, <2>3, <2>4
<1>2. IInv /\ [Next]_vars =>
        [\A c \in Candidate :
           row'[c] # row[c] =>
             \E p \in Process : \E now \in {proc[p].now} :
               /\ proc[p].pc = "queue" /\ proc'[p].pc = "idle"
               /\ \/ /\ row'[c].generation = row[c].generation + 1
                     /\ Leases(now)!Claim(p, c)
                  \/ /\ row'[c].generation = row[c].generation
                     /\ proc[p].at = c /\ proc[p].token = row[c].generation
                     /\ Leases(now)!Heartbeat(p, c) \/ Leases(now)!Complete(p, c)]_vars
  BY <1>1
<1>3. Spec => []IInv
  BY InitHolds, StepHolds, PTL DEF Spec
<1> QED BY <1>2, <1>3, PTL DEF Spec, OnlyHolderWrites

-----------------------------------------------------------------------------
\* The log implements the lifecycle.

LEMMA OnlyAppends ==
  ASSUME [Next]_vars, log' # log
  PROVE  \E p \in Process : AppendEvent(p)
<1>1. ASSUME NEW p \in Process, Call(p) \/ Crash(p) PROVE AppendEvent(p)
  BY <1>1 DEF Call, ReadClock, Claim, Heartbeat, Complete, Refused, ReadLog, Crash
<1> QED BY <1>1 DEF Next, vars, Tick, Reboot

\* An event that is appended advances its candidate in the abstract specification.
LEMMA AppendAdvances ==
  ASSUME IInv, NEW p \in Process, AppendEvent(p), log' # log
  PROVE  Lifecycle!Advance(proc[p].on, proc[p].target)
<1> DEFINE c == proc[p].on
           s == proc[p].target
<1>1. /\ c \in Candidate /\ s \in State /\ log[c] \in Seq(State)
      /\ log \in [Candidate -> Seq(State)]
  BY DEF IInv, StoreInv, TypeOK, Proc
<1>2. LastOf(log[c]) = proc[p].expected /\ log' = [log EXCEPT ![c] = Append(@, s)]
  BY DEF AppendEvent, StillExpected
<1>3. s \in Direct[LastOf(log[c])]
  BY <1>2 DEF AppendEvent, IInv, StoreInv, ProcInv
<1>4. /\ log'[c] = Append(log[c], s)
      /\ \A d \in Candidate \ {c} : log'[d] = log[d]
  BY <1>1, <1>2
<1> HIDE DEF c, s
<1>5. State0' = [State0 EXCEPT ![c] = s]
  <2>1. LastOf(log'[c]) = s
    BY <1>1, <1>4, StageOfAppend
  <2> QED BY <1>1, <1>4, <2>1 DEF State0
<1>6. Stage0' = [Stage0 EXCEPT ![c] = Lifecycle!StageAfter(s, @)]
  <2>1. StageOf(log'[c]) = Lifecycle!StageAfter(s, StageOf(log[c]))
    BY <1>1, <1>4, StageOfAppend
  <2> QED BY <1>1, <1>4, <2>1 DEF Stage0
<1>7. s \in Lifecycle!Direct[State0[c]]
  BY <1>1, <1>3 DEF State0, Direct
<1> QED BY <1>5, <1>6, <1>7 DEF Lifecycle!Advance, c, s

\* The log, written by any number of processes from readings of any age, implements
\* the candidate lifecycle.
THEOREM LogRefines == Spec => LogImplementsLifecycle
<1>1. Init => Lifecycle!LifecycleInit
  BY DEF Init, Lifecycle!LifecycleInit, State0, Stage0, LastOf, StageOf
<1>2. IInv /\ [Next]_vars => [Lifecycle!LifecycleNext]_(Lifecycle!lifecycleVars)
  <2> SUFFICES ASSUME IInv, [Next]_vars
               PROVE  [Lifecycle!LifecycleNext]_(Lifecycle!lifecycleVars)
    OBVIOUS
  <2>1. CASE log' = log
    BY <2>1 DEF Lifecycle!lifecycleVars, State0, Stage0
  <2>2. CASE log' # log
    <3>1. PICK p \in Process : AppendEvent(p)
      BY <2>2, OnlyAppends
    <3>2. proc[p].on \in Candidate /\ proc[p].target \in Lifecycle!State
      BY DEF IInv, StoreInv, TypeOK, Proc, State
    <3> QED BY <2>2, <3>1, <3>2, AppendAdvances DEF Lifecycle!LifecycleNext
  <2> QED BY <2>1, <2>2
<1>3. Spec => []IInv
  BY InitHolds, StepHolds, PTL DEF Spec
<1> QED BY <1>1, <1>2, <1>3, PTL
      DEF Spec, LogImplementsLifecycle, Lifecycle!LifecycleSpec


=============================================================================
