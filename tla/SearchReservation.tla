---------------------------- MODULE SearchReservation ----------------------------
(***************************************************************************)
(* run_search_plan of cli/search.py over the SearchResumeStore of          *)
(* search/resume.py: commands of several processes that reserve candidates *)
(* of one search, and the append-only snapshots they share.                *)
(*                                                                         *)
(* A command loads the latest snapshot, selects a batch, reads the head of *)
(* the search, and appends the next snapshot.  The head is read before     *)
(* SQLite's transaction begins (it begins with the INSERT), so each of     *)
(* these is a step of its own.                                             *)
(*                                                                         *)
(* Abstracted: the ranking, to any batch of its size; a snapshot, to the   *)
(* set of its selected candidates, which its budget counts and its pending *)
(* evaluations list (nothing in src takes one off that list); the policy,  *)
(* the lineage and the frontier, which the identity of a search fixes.     *)
(* The candidate pool is not part of that identity: each command comes     *)
(* with a pool of its own.  Generation g of the code is row g + 1.         *)
(***************************************************************************)
EXTENDS Naturals, Sequences, FiniteSets

CONSTANTS Process,
          Candidate,
          Budget, Width,   \* evaluation_budget, and beam_width (1 for a greedy policy)
          MaxGenerations,  \* bound: commands start while there are fewer snapshots
          MaxFaults        \* bound: deaths and database errors

ASSUME SearchAssumption ==
  /\ IsFiniteSet(Candidate)
  /\ Budget \in Nat \ {0} /\ Width \in Nat \ {0}
  /\ MaxGenerations \in Nat /\ MaxFaults \in Nat

VARIABLES
  snapshots,  \* the rows of search_resume_snapshots
  head,       \* the row search_resume_heads points at, 0 if there is none
  command,    \* [Process -> where its command stands, and what it has read and chosen]
  reported,   \* candidates that some command has listed as pending in its output
  faults

vars == <<snapshots, head, command, reported, faults>>

Idle == [pc |-> "idle", resume |-> FALSE, pool |-> {}, base |-> {}, batch |-> {}, seen |-> 0]

Init ==
  /\ snapshots = << >> /\ head = 0 /\ reported = {} /\ faults = 0
  /\ command = [p \in Process |-> Idle]

\* The candidates reserved so far.
Reserved == IF head = 0 THEN {} ELSE snapshots[head]

At(p, pc) == command[p].pc = pc
Ended(p) == command' = [command EXCEPT ![p] = Idle]

Lesser(m, n) == IF m <= n THEN m ELSE n

\* Mistake: the width of the beam is not cut to the remaining budget.
Batches_Overspent(pool, base) ==
  {b \in SUBSET (pool \ base) : Cardinality(b) = Lesser(Width, Cardinality(pool \ base))}

\* What select may choose: the best candidates of the pool that are not selected
\* yet, as many as the beam and the remaining budget allow.
Batches(pool, base) ==
  LET n == Lesser(Width, Lesser(Budget - Cardinality(base), Cardinality(pool \ base)))
  IN  {b \in SUBSET (pool \ base) : Cardinality(b) = n}
-----------------------------------------------------------------------------
(* A command *)

\* A command starts, with those of its configuration's candidates that pass the
\* constraints.  Commands go on beyond the bound while a reservation is still to
\* be reported.
Start(p, resume, pool) ==
  /\ At(p, "idle")
  /\ Len(snapshots) < MaxGenerations \/ reported # Reserved
  /\ command' = [command EXCEPT ![p] = [Idle EXCEPT !.pc = "load", !.resume = resume,
                                                    !.pool = pool]]
  /\ UNCHANGED <<snapshots, head, reported, faults>>

\* Mistake: a command that finds nothing left to select ends.
Load_NothingLeft(p) ==
  /\ At(p, "load")
  /\ LET seen == IF command[p].resume THEN head ELSE 0
         base == IF command[p].resume THEN Reserved ELSE {}
     IN  \E batch \in Batches(command[p].pool, base) :
           IF batch = {}
           THEN Ended(p)
           ELSE command' = [command EXCEPT ![p] = [Idle EXCEPT !.pc = "check", !.base = base,
                                                    !.batch = batch, !.seen = seen]]
  /\ UNCHANGED <<snapshots, head, reported, faults>>

\* A resumed command reads the latest snapshot, and a new one assumes there is none.
Load(p) ==
  /\ At(p, "load")
  /\ IF command[p].resume /\ head = 0
     THEN Ended(p)
     ELSE LET seen == IF command[p].resume THEN head ELSE 0
              base == IF command[p].resume THEN Reserved ELSE {}
          IN  \E batch \in Batches(command[p].pool, base) :
                command' = [command EXCEPT ![p] = [Idle EXCEPT !.pc = "check", !.base = base,
                                                    !.batch = batch, !.seen = seen]]
  /\ UNCHANGED <<snapshots, head, reported, faults>>

\* save: the head is still where the command found it ...
CheckHead(p) ==
  /\ At(p, "check")
  /\ IF head = command[p].seen
     THEN command' = [command EXCEPT ![p].pc = "write"]
     ELSE Ended(p)
  /\ UNCHANGED <<snapshots, head, reported, faults>>

\* Mistake: rows are replaced, and the update of the head is not guarded.
Write_Replacing(p) ==
  /\ At(p, "write")
  /\ LET row == command[p].seen + 1
         chosen == command[p].base \cup command[p].batch
     IN  /\ snapshots' = IF row \in DOMAIN snapshots THEN [snapshots EXCEPT ![row] = chosen]
                                                     ELSE Append(snapshots, chosen)
         /\ head' = row
  /\ command' = [command EXCEPT ![p].pc = "report"]
  /\ UNCHANGED <<reported, faults>>

\* ... and in one transaction the row is inserted, unless the table has it, and
\* the head is moved, unless it is somewhere else.
Write(p) ==
  /\ At(p, "write")
  /\ LET row == command[p].seen + 1
     IN  IF row \in DOMAIN snapshots \/ head # command[p].seen
         THEN Ended(p) /\ UNCHANGED <<snapshots, head>>
         ELSE /\ snapshots' = Append(snapshots, command[p].base \cup command[p].batch)
              /\ head' = row
              /\ command' = [command EXCEPT ![p].pc = "report"]
  /\ UNCHANGED <<reported, faults>>

\* The output lists all pending evaluations, those of earlier commands included.
Report(p) ==
  /\ At(p, "report")
  /\ reported' = reported \cup command[p].base \cup command[p].batch
  /\ Ended(p)
  /\ UNCHANGED <<snapshots, head, faults>>

\* A command dies, finds the database locked, or cannot write its output file.
Fail(p) ==
  /\ ~At(p, "idle") /\ faults < MaxFaults
  /\ Ended(p) /\ faults' = faults + 1
  /\ UNCHANGED <<snapshots, head, reported>>
-----------------------------------------------------------------------------
Work(p) == Load(p) \/ CheckHead(p) \/ Write(p) \/ Report(p)

Begin(p) == \E resume \in BOOLEAN, pool \in SUBSET Candidate : Start(p, resume, pool)

Next == \E p \in Process : Begin(p) \/ Work(p) \/ Fail(p)

Spec == Init /\ [][Next]_vars

\* A command that runs goes on.  While reservations are not reported the operator
\* resumes the search now and then, and not only starts it anew.
FairSpec ==
  /\ Spec
  /\ \A p \in Process : WF_vars(Work(p))
  /\ SF_vars(/\ reported # Reserved
             /\ \E p \in Process, pool \in SUBSET Candidate : Start(p, TRUE, pool))
-----------------------------------------------------------------------------
(***************************************************************************)
(* The inductive invariant                                                 *)
(***************************************************************************)

Commands ==
  [pc : {"idle", "load", "check", "write", "report"}, resume : BOOLEAN, pool : SUBSET Candidate,
   base : SUBSET Candidate, batch : SUBSET Candidate, seen : Nat]

TypeOK ==
  /\ snapshots \in Seq(SUBSET Candidate)
  /\ head \in Nat
  /\ command \in [Process -> Commands]
  /\ reported \subseteq Candidate
  /\ faults \in Nat

\* What row n holds; row 0 stands for the search that has not begun.
Row(n) == IF n = 0 THEN {} ELSE snapshots[n]

\* The snapshots are one line that ends at the head.
HistoryInv ==
  /\ head = Len(snapshots)
  /\ \A n \in 0..head : \A m \in 0..n : Row(m) \subseteq Row(n)
  /\ \A n \in 0..head : Cardinality(Row(n)) <= Budget

\* What a command chose fits behind the row it has seen ...
Chosen(c) ==
  /\ c.seen <= head /\ c.base = Row(c.seen)
  /\ c.batch \cap c.base = {}
  /\ Cardinality(c.batch) <= Width
  /\ Cardinality(c.base) + Cardinality(c.batch) <= Budget

\* ... and what it was granted is in the next row, which is its own.
CommandInv ==
  /\ \A p \in Process : command[p].pc \in {"check", "write", "report"} => Chosen(command[p])
  /\ \A p \in Process : At(p, "report") =>
       /\ command[p].seen < head
       /\ Row(command[p].seen + 1) = command[p].base \cup command[p].batch
  /\ \A p, q \in Process : p # q /\ At(p, "report") /\ At(q, "report") =>
       command[p].seen # command[q].seen

\* No two commands are granted the same candidate.
GrantsAreDisjoint ==
  \A p, q \in Process : p # q /\ At(p, "report") /\ At(q, "report") =>
    command[p].batch \cap command[q].batch = {}

\* The snapshots, what the commands make of them, and what they are granted.
SearchInv == TypeOK /\ HistoryInv /\ CommandInv /\ GrantsAreDisjoint
-----------------------------------------------------------------------------
(***************************************************************************)
(* Properties                                                              *)
(***************************************************************************)
Ledger == INSTANCE ReservationLedger WITH reserved <- Reserved

\* Whatever the commands of several processes do at once, wherever they die, and
\* whatever pools they come with: batches are added to one ledger, and a command
\* whose snapshot is stale adds nothing.
LedgerIsKept == Ledger!Spec

\* A reservation does not get lost: a command that reserved a candidate and died
\* before it said so is made up for by a later one.
EveryReservationIsReported ==
  \A c \in Candidate : c \in Reserved ~> c \in reported
===================================================================================
