------------------------------ MODULE CandidateStore ------------------------------
(***************************************************************************)
(* The event log of experiments/state_machine.py and the lease table of    *)
(* experiments/queue.py over the SQLite store they share, with the         *)
(* processes that call them in any order.                                  *)
(*                                                                         *)
(* A call that needs the time reads the clock before it opens its write    *)
(* transaction, and a transition reads the log before it opens its own, so *)
(* each such call is two steps and what it read may be old when it writes. *)
(* The clock is the host's monotonic clock: it starts again when the host  *)
(* does, while the rows that hold its readings stay.                       *)
(*                                                                         *)
(* The log implements CandidateLifecycle, and what a call does to a row is *)
(* a step of LeaseTable by the caller, at the time the caller has read.    *)
(***************************************************************************)
EXTENDS Naturals, Sequences

CONSTANTS Candidate,
          Process,        \* the callers
          NoProcess,      \* the holder of a lease that was never claimed
          LeaseDuration,
          MaxTime,        \* bound on the clock
          MaxGeneration,  \* bound on the claims of a candidate
          MaxEvents       \* bound on the log of a candidate

ASSUME StoreAssumption ==
  /\ Candidate # {}
  /\ NoProcess \notin Process
  /\ LeaseDuration \in Nat \ {0}
  /\ MaxTime \in Nat /\ MaxGeneration \in Nat /\ MaxEvents \in Nat

VARIABLES log,    \* [Candidate -> the states of its events, in sequence order]
          row,    \* [Candidate -> its row of the lease table]
          clock,  \* the monotonic clock
          proc    \* [Process -> what the process has read and holds]

vars == <<log, row, clock, proc>>

-----------------------------------------------------------------------------
\* The states of an event log, from its last event and the events before it.

LastOf(states) == IF states = <<>> THEN "none" ELSE states[Len(states)]

\* The last active event decides the stage; an empty log counts as mutation.
StageOf(states) ==
  IF \E i \in DOMAIN states :
       /\ states[i] = "evaluating"
       /\ \A j \in DOMAIN states : j > i => states[j] \notin {"running", "planned"}
  THEN "evaluation" ELSE "mutation"

State0 == [c \in Candidate |-> LastOf(log[c])]
Stage0 == [c \in Candidate |-> StageOf(log[c])]

Lifecycle == INSTANCE CandidateLifecycle WITH state <- State0, stage <- Stage0

State    == Lifecycle!State
Direct   == Lifecycle!Direct
Terminal == Lifecycle!Terminal

-----------------------------------------------------------------------------

\* Generation 0 is a candidate without a row.
Row == [holder : Process \cup {NoProcess}, generation : Nat, heartbeat : Nat,
        expires : Nat, done : BOOLEAN]

NoRow == [holder |-> NoProcess, generation |-> 0, heartbeat |-> 0, expires |-> 0,
          done |-> FALSE]

\* A lease token is the holder and the generation it was minted for; token is the
\* generation the process holds of candidate at, 0 for none.
Proc == [pc : {"idle", "queue", "append"}, now : Nat, at : Candidate, token : Nat,
         on : Candidate, expected : State, target : State]

TypeOK ==
  /\ log \in [Candidate -> Seq(State)]
  /\ row \in [Candidate -> Row]
  /\ clock \in Nat
  /\ proc \in [Process -> Proc]

Fresh(p) ==
  LET c == CHOOSE c \in Candidate : TRUE
  IN  [pc |-> "idle", now |-> 0, at |-> c, token |-> 0, on |-> c, expected |-> "none",
       target |-> "none"]

Init ==
  /\ log = [c \in Candidate |-> <<>>]
  /\ row = [c \in Candidate |-> NoRow]
  /\ clock = 0
  /\ proc = [p \in Process |-> Fresh(p)]

\* The call of p returns and its locals are gone.
Return(p) ==
  proc' = [proc EXCEPT ![p].pc = "idle", ![p].now = 0, ![p].expected = "none",
                       ![p].target = "none"]

-----------------------------------------------------------------------------
\* claim, heartbeat and complete, with the time their caller has read.

ReadClock(p) ==
  /\ proc[p].pc = "idle"
  /\ proc' = [proc EXCEPT ![p].pc = "queue", ![p].now = clock]
  /\ UNCHANGED <<log, row, clock>>

\* Mistake: a lease counts from its last heartbeat only.
Lapsed_AtHeartbeat(c, now) == row[c].heartbeat <= now

Lapsed(c, now) == row[c].expires <= now

Claimable(c, now) ==
  /\ LastOf(log[c]) \notin Terminal
  /\ row[c].generation = 0 \/ (~row[c].done /\ Lapsed(c, now))

Claim(p, c) ==
  /\ proc[p].pc = "queue"
  /\ Claimable(c, proc[p].now)
  /\ row[c].generation < MaxGeneration
  /\ row' = [row EXCEPT ![c] =
               [holder |-> p, generation |-> row[c].generation + 1,
                heartbeat |-> proc[p].now, expires |-> proc[p].now + LeaseDuration,
                done |-> FALSE]]
  /\ proc' = [proc EXCEPT ![p].pc = "idle", ![p].now = 0, ![p].at = c,
                          ![p].token = row[c].generation + 1]
  /\ UNCHANGED <<log, clock>>

\* Mistake: the token is not compared with the row.
HoldsToken_AnyToken(p, c) == proc[p].token > 0 /\ proc[p].at = c

HoldsToken(p, c) ==
  /\ proc[p].token > 0
  /\ proc[p].at = c
  /\ row[c].holder = p
  /\ row[c].generation = proc[p].token

\* The time of the call is neither before the last heartbeat nor past the expiry.
InTime(c, now) == row[c].heartbeat <= now /\ ~Lapsed(c, now)

\* Mistake: the heartbeat is recorded and the expiry is not moved.
Renewed_SameExpiry(r, now) == [r EXCEPT !.heartbeat = now]

Renewed(r, now) == [r EXCEPT !.heartbeat = now, !.expires = now + LeaseDuration]

Heartbeat(p, c) ==
  /\ proc[p].pc = "queue"
  /\ HoldsToken(p, c)
  /\ ~row[c].done
  /\ InTime(c, proc[p].now)
  /\ row' = [row EXCEPT ![c] = Renewed(row[c], proc[p].now)]
  /\ Return(p)
  /\ UNCHANGED <<log, clock>>

Complete(p, c) ==
  /\ proc[p].pc = "queue"
  /\ HoldsToken(p, c)
  /\ row[c].done \/ InTime(c, proc[p].now)
  /\ row' = [row EXCEPT ![c].done = TRUE]
  /\ Return(p)
  /\ UNCHANGED <<log, clock>>

\* claim returned None, or heartbeat or complete raised.
Refused(p, c) ==
  /\ proc[p].pc = "queue"
  /\ \/ ~Claimable(c, proc[p].now)
     \/ ~HoldsToken(p, c)
     \/ ~row[c].done /\ ~InTime(c, proc[p].now)
  /\ Return(p)
  /\ UNCHANGED <<log, row, clock>>

-----------------------------------------------------------------------------
\* initialize and transition.

Allowed(states, target) ==
  LET current == LastOf(states)
  IN  /\ target \in Direct[current]
      /\ current \in Lifecycle!Recovery /\ target \in Lifecycle!Active
           => target = Lifecycle!ActiveState(StageOf(states))

ReadLog(p, c, target) ==
  /\ proc[p].pc = "idle"
  /\ Len(log[c]) < MaxEvents
  /\ Allowed(log[c], target)
  /\ proc' = [proc EXCEPT ![p].pc = "append", ![p].on = c,
                          ![p].expected = LastOf(log[c]), ![p].target = target]
  /\ UNCHANGED <<log, row, clock>>

\* Mistake: the event is appended without comparing the state again.
StillExpected_NoCompare(p) == TRUE

StillExpected(p) == LastOf(log[proc[p].on]) = proc[p].expected

AppendEvent(p) ==
  /\ proc[p].pc = "append"
  /\ IF StillExpected(p) /\ Len(log[proc[p].on]) < MaxEvents
     THEN log' = [log EXCEPT ![proc[p].on] = Append(@, proc[p].target)]
     ELSE UNCHANGED log
  /\ Return(p)
  /\ UNCHANGED <<row, clock>>

-----------------------------------------------------------------------------

Tick ==
  /\ clock < MaxTime
  /\ clock' = clock + 1
  /\ UNCHANGED <<log, row, proc>>

Crash(p) ==
  /\ proc' = [proc EXCEPT ![p] = Fresh(p)]
  /\ UNCHANGED <<log, row, clock>>

\* Every process dies, and the monotonic clock starts again.
Reboot ==
  /\ clock' = 0
  /\ proc' = [p \in Process |-> Fresh(p)]
  /\ UNCHANGED <<log, row>>

Call(p) ==
  \/ ReadClock(p)
  \/ AppendEvent(p)
  \/ \E c \in Candidate :
       \/ Claim(p, c) \/ Heartbeat(p, c) \/ Complete(p, c) \/ Refused(p, c)
       \/ \E s \in State : ReadLog(p, c, s)

Next ==
  \/ \E p \in Process : Call(p) \/ Crash(p)
  \/ Tick
  \/ Reboot

Spec == Init /\ [][Next]_vars

-----------------------------------------------------------------------------
\* Properties.

\* Each event of a log follows from the one before it by the transition table, and
\* the first one is the plan, whichever processes appended them.
LogIsPath ==
  \A c \in Candidate :
    /\ log[c] # <<>> => log[c][1] = "planned"
    /\ \A i \in 2..Len(log[c]) : log[c][i] \in Direct[log[c][i - 1]]

\* The expiry belongs to the heartbeat of the row, and a row that is not there is
\* not completed.
RowInv(c) ==
  /\ row[c].generation > 0 => /\ row[c].holder \in Process
                              /\ row[c].expires = row[c].heartbeat + LeaseDuration
  /\ row[c].done => row[c].generation > 0

\* A process holds no token that was not minted yet and has read no time that is
\* still to come, and the event it is about to append follows what it has read.
ProcInv(p) ==
  /\ proc[p].token <= row[proc[p].at].generation
  /\ proc[p].now <= clock
  /\ proc[p].pc = "append" => proc[p].target \in Direct[proc[p].expected]

\* What a caller may rely on about the rows and about its own readings.
StoreInv ==
  /\ TypeOK
  /\ \A c \in Candidate : RowInv(c)
  /\ \A p \in Process : ProcInv(p)

\* A lease changes hands only when the clock has passed the expiry that its holder
\* last asked for, however old the claimant's reading of the clock is.
TakeoverAfterExpiry ==
  [][\A c \in Candidate :
       row'[c].generation > row[c].generation /\ row[c].generation > 0
         => row[c].expires <= clock /\ ~row[c].done]_vars

\* The log, with its readers and its compare-and-append, moves the candidate as the
\* lifecycle allows.
LogImplementsLifecycle == Lifecycle!LifecycleSpec

\* The lease table as it is to a caller that has read the time now.
Leases(now) == INSTANCE LeaseTable
  WITH Runner <- Process, NoRunner <- NoProcess,
       owner <- [c \in Candidate |-> row[c].holder],
       live <- {c \in Candidate : row[c].generation > 0 /\ now < row[c].expires},
       completed <- {c \in Candidate : row[c].done}

\* A row changes only by what the lease table lets the caller do at the time the caller
\* has read: claim a lease that is neither live nor completed, or, with the token of the
\* last claim, extend or complete a live one.  So a process whose lease was taken over
\* can no longer change the row, nor can one that comes too late with its own token.
OnlyHolderWrites ==
  [][\A c \in Candidate :
       row'[c] # row[c] =>
         \E p \in Process : \E now \in {proc[p].now} :
           /\ proc[p].pc = "queue" /\ proc'[p].pc = "idle"
           /\ \/ /\ row'[c].generation = row[c].generation + 1
                 /\ Leases(now)!Claim(p, c)
              \/ /\ row'[c].generation = row[c].generation
                 /\ proc[p].at = c /\ proc[p].token = row[c].generation
                 /\ Leases(now)!Heartbeat(p, c) \/ Leases(now)!Complete(p, c)]_vars

\* A lease that has expired can be claimed from then on: it does not come back to
\* life until somebody claims it.
ExpiredStaysExpired ==
  [][\A c \in Candidate :
       row[c].generation > 0 /\ row[c].expires <= clock /\ row'[c] = row[c]
         => row'[c].expires <= clock']_vars

=============================================================================
