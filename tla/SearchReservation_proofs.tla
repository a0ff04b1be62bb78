------------------------- MODULE SearchReservation_proofs -------------------------
(***************************************************************************)
(* The safety properties of SearchReservation for any processes, any       *)
(* finite set of candidates, any budget and width, and without bounds on   *)
(* the number of snapshots and faults.                                     *)
(***************************************************************************)
EXTENDS SearchReservation, FiniteSetTheorems, TLAPS

-----------------------------------------------------------------------------
(* Batches *)

\* Sets of candidates are finite.
LEMMA Finite ==
  ASSUME NEW S, S \subseteq Candidate
  PROVE  IsFiniteSet(S) /\ Cardinality(S) \in Nat
  BY SearchAssumption, FS_Subset, FS_CardinalityType

\* What is selected behind a row within the budget stays within it.
LEMMA BatchFits ==
  ASSUME NEW base \in SUBSET Candidate, NEW pool \in SUBSET Candidate,
         NEW batch \in Batches(pool, base), Cardinality(base) <= Budget
  PROVE  /\ batch \in SUBSET Candidate /\ batch \cap base = {}
         /\ Cardinality(batch) <= Width
         /\ Cardinality(base) + Cardinality(batch) <= Budget
<1>1. batch \subseteq pool \ base
  BY DEF Batches
<1> DEFINE n == Lesser(Width, Lesser(Budget - Cardinality(base), Cardinality(pool \ base)))
<1>2. Cardinality(batch) = n
  BY DEF Batches
<1>3. Cardinality(base) \in Nat /\ Cardinality(pool \ base) \in Nat
  BY Finite
<1>4. n <= Width /\ n <= Budget - Cardinality(base) /\ n \in Int
  BY <1>3, SearchAssumption DEF Lesser
<1> HIDE DEF n
<1>5. Cardinality(base) + n <= Budget
  BY <1>3, <1>4, SearchAssumption
<1> QED
  BY <1>1, <1>2, <1>4, <1>5

\* The size of a row with a batch added.
LEMMA UnionSize ==
  ASSUME NEW base \in SUBSET Candidate, NEW batch \in SUBSET Candidate, batch \cap base = {}
  PROVE  Cardinality(base \cup batch) = Cardinality(base) + Cardinality(batch)
<1>1. IsFiniteSet(base) /\ IsFiniteSet(batch)
  BY Finite
<1>2. base \cap batch = {}
  OBVIOUS
<1>3. Cardinality(base \cup batch) =
        Cardinality(base) + Cardinality(batch) - Cardinality(base \cap batch)
  BY <1>1, FS_Union
<1>4. Cardinality({}) = 0 /\ Cardinality(base) \in Nat /\ Cardinality(batch) \in Nat
  BY FS_EmptySet, Finite
<1> QED
  <2>1. Cardinality(base \cap batch) = 0
    BY <1>2, <1>4
  <2> QED
    BY <1>3, <1>4, <2>1
-----------------------------------------------------------------------------
(* The invariant *)

\* Rows are sets of candidates.
LEMMA RowType ==
  ASSUME TypeOK, HistoryInv
  PROVE  \A n \in 0..head : Row(n) \in SUBSET Candidate
  BY DEF TypeOK, HistoryInv, Row

\* The reserved candidates are the last row.
LEMMA ReservedIsRow == Reserved = Row(head)
  BY DEF Reserved, Row

\* Nothing is stored, and no command runs.
LEMMA InitInv == Init => SearchInv
<1> SUFFICES ASSUME Init PROVE SearchInv
  OBVIOUS
<1>1. Idle \in Commands
  BY DEF Idle, Commands
<1>2. TypeOK
  BY <1>1 DEF Init, TypeOK
<1>3. Cardinality({}) = 0
  BY FS_EmptySet
<1>4. HistoryInv
  BY <1>3, SearchAssumption DEF Init, HistoryInv, Row
<1>5. CommandInv /\ GrantsAreDisjoint
  BY DEF Init, CommandInv, GrantsAreDisjoint, At, Idle
<1> QED
  BY <1>2, <1>4, <1>5 DEF SearchInv

\* A step that only changes one command, to one that has been granted nothing,
\* keeps the invariant.
LEMMA OneCommand ==
  ASSUME SearchInv, NEW p \in Process, NEW c \in Commands,
         command' = [command EXCEPT ![p] = c], UNCHANGED <<snapshots, head>>,
         c.pc # "report", c.pc \in {"check", "write"} => Chosen(c),
         reported' \subseteq Candidate, faults' \in Nat
  PROVE  SearchInv'
<1> USE DEF SearchInv
<1>1. TypeOK'
  BY DEF TypeOK
<1>2. HistoryInv'
  BY DEF HistoryInv, Row
<1>3. \A q \in Process : command'[q] = IF q = p THEN c ELSE command[q]
  BY DEF TypeOK
<1>4. \A q \in Process : Chosen(command[q])' <=> Chosen(command'[q])
  BY DEF Chosen, Row
<1>5. \A q \in Process : command'[q].pc \in {"check", "write", "report"} => Chosen(command'[q])
  BY <1>3 DEF CommandInv
<1>6. \A q \in Process : At(q, "report")' => q # p /\ At(q, "report") /\ command'[q] = command[q]
  BY <1>3 DEF At
<1>7. CommandInv'
  BY <1>4, <1>5, <1>6 DEF CommandInv, Row
<1>8. GrantsAreDisjoint'
  BY <1>6 DEF GrantsAreDisjoint
<1> QED
  BY <1>1, <1>2, <1>7, <1>8

\* A command starts.
LEMMA StartStep ==
  ASSUME SearchInv, NEW p \in Process, NEW resume \in BOOLEAN, NEW pool \in SUBSET Candidate,
         Start(p, resume, pool)
  PROVE  SearchInv'
<1> DEFINE c == [Idle EXCEPT !.pc = "load", !.resume = resume, !.pool = pool]
<1>1. c \in Commands /\ c.pc = "load"
  BY DEF Idle, Commands
<1>2. command' = [command EXCEPT ![p] = c] /\ UNCHANGED <<snapshots, head, reported, faults>>
  BY DEF Start
<1>3. reported' \subseteq Candidate /\ faults' \in Nat
  BY <1>2 DEF SearchInv, TypeOK
<1> HIDE DEF c
<1> QED
  BY <1>1, <1>2, <1>3, OneCommand

\* A command ends.
LEMMA EndStep ==
  ASSUME SearchInv, NEW p \in Process, Ended(p), UNCHANGED <<snapshots, head>>,
         reported' \subseteq Candidate, faults' \in Nat
  PROVE  SearchInv'
<1>1. Idle \in Commands /\ Idle.pc = "idle"
  BY DEF Idle, Commands
<1> QED
  BY <1>1, OneCommand DEF Ended

\* A command loads the latest snapshot and chooses its batch.
LEMMA LoadStep ==
  ASSUME SearchInv, NEW p \in Process, Load(p)
  PROVE  SearchInv'
<1>1. UNCHANGED <<snapshots, head, reported, faults>>
  BY DEF Load
<1>2. reported' \subseteq Candidate /\ faults' \in Nat
  BY <1>1 DEF SearchInv, TypeOK
<1>3. CASE Ended(p)
  BY <1>1, <1>2, <1>3, EndStep
<1>4. ASSUME NEW seen, NEW base, NEW batch \in Batches(command[p].pool, base),
             (seen = head /\ base = Reserved) \/ (seen = 0 /\ base = {}),
             command' = [command EXCEPT ![p] = [Idle EXCEPT !.pc = "check", !.base = base,
                                                 !.batch = batch, !.seen = seen]]
      PROVE  SearchInv'
  <2>1. head \in Nat /\ command[p].pool \in SUBSET Candidate
    BY DEF SearchInv, TypeOK, Commands
  <2>2. seen \in 0..head /\ base = Row(seen)
    BY <1>4, <2>1, ReservedIsRow DEF Row
  <2>3. base \in SUBSET Candidate /\ Cardinality(base) <= Budget
    BY <2>2, RowType DEF SearchInv, HistoryInv
  <2>4. /\ batch \in SUBSET Candidate /\ batch \cap base = {}
        /\ Cardinality(batch) <= Width
        /\ Cardinality(base) + Cardinality(batch) <= Budget
    BY <2>1, <2>3, BatchFits
  <2> DEFINE c == [Idle EXCEPT !.pc = "check", !.base = base, !.batch = batch, !.seen = seen]
  <2>5. c.pc = "check" /\ c.base = base /\ c.batch = batch /\ c.seen = seen
    BY DEF Idle
  <2>6. c \in Commands
    <3>1. seen \in Nat /\ {} \in SUBSET Candidate
      BY <2>1, <2>2
    <3> QED
      BY <3>1, <2>3, <2>4 DEF Commands, Idle
  <2>7. Chosen(c)
    BY <2>2, <2>4, <2>5, <2>1 DEF Chosen
  <2> HIDE DEF c
  <2>8. command' = [command EXCEPT ![p] = c]
    BY <1>4 DEF c
  <2> QED
    BY <1>1, <1>2, <2>5, <2>6, <2>7, <2>8, OneCommand
<1>5. CASE ~(command[p].resume /\ head = 0)
  <2> DEFINE seen == IF command[p].resume THEN head ELSE 0
             base == IF command[p].resume THEN Reserved ELSE {}
  <2>1. PICK batch \in Batches(command[p].pool, base) :
          command' = [command EXCEPT ![p] = [Idle EXCEPT !.pc = "check", !.base = base,
                                              !.batch = batch, !.seen = seen]]
    BY <1>5 DEF Load
  <2>2. (seen = head /\ base = Reserved) \/ (seen = 0 /\ base = {})
    OBVIOUS
  <2> HIDE DEF seen, base
  <2> QED
    BY <2>1, <2>2, <1>4
<1> QED
  BY <1>3, <1>5 DEF Load

\* A command finds the head where it was, or ends.
LEMMA CheckStep ==
  ASSUME SearchInv, NEW p \in Process, CheckHead(p)
  PROVE  SearchInv'
<1>1. UNCHANGED <<snapshots, head, reported, faults>>
  BY DEF CheckHead
<1>2. reported' \subseteq Candidate /\ faults' \in Nat
  BY <1>1 DEF SearchInv, TypeOK
<1>3. CASE Ended(p)
  BY <1>1, <1>2, <1>3, EndStep
<1>4. CASE command' = [command EXCEPT ![p].pc = "write"]
  <2> DEFINE c == [command[p] EXCEPT !.pc = "write"]
  <2>1. command[p] \in Commands
    BY DEF SearchInv, TypeOK
  <2>2. /\ c \in Commands /\ c.pc = "write"
        /\ c.seen = command[p].seen /\ c.base = command[p].base /\ c.batch = command[p].batch
    BY <2>1 DEF Commands
  <2>3. Chosen(command[p])
    BY DEF CheckHead, SearchInv, CommandInv, At
  <2>4. command' = [command EXCEPT ![p] = c]
    BY <1>4
  <2> HIDE DEF c
  <2>5. Chosen(c)
    BY <2>2, <2>3 DEF Chosen
  <2> QED
    BY <1>1, <1>2, <2>2, <2>4, <2>5, OneCommand
<1> QED
  BY <1>3, <1>4 DEF CheckHead

\* A row behind the head keeps the older rows, and is the new last one.
LEMMA RowsAfterAppend ==
  ASSUME TypeOK, HistoryInv, NEW new \in SUBSET Candidate,
         snapshots' = Append(snapshots, new), head' = head + 1
  PROVE  /\ snapshots' \in Seq(SUBSET Candidate) /\ head' = Len(snapshots')
         /\ \A n \in 0..head : Row(n)' = Row(n)
         /\ Row(head)' = new
<1>1. snapshots \in Seq(SUBSET Candidate) /\ head = Len(snapshots) /\ head \in Nat
  BY DEF TypeOK, HistoryInv
<1>2. /\ snapshots' \in Seq(SUBSET Candidate) /\ Len(snapshots') = head + 1
      /\ \A n \in 1..head : snapshots'[n] = snapshots[n]
      /\ snapshots'[head + 1] = new
  BY <1>1
<1> QED
  BY <1>1, <1>2 DEF Row

\* A command's row is appended, and the head moves onto it.
LEMMA AppendStep ==
  ASSUME SearchInv, NEW p \in Process, At(p, "write"), head = command[p].seen,
         snapshots' = Append(snapshots, command[p].base \cup command[p].batch),
         head' = head + 1,
         command' = [command EXCEPT ![p].pc = "report"], UNCHANGED <<reported, faults>>
  PROVE  SearchInv'
<1> DEFINE c == command[p]
           new == c.base \cup c.batch
<1>1. /\ c \in Commands /\ c.base \in SUBSET Candidate /\ c.batch \in SUBSET Candidate
      /\ head \in Nat
  BY DEF SearchInv, TypeOK, Commands
<1>2. Chosen(c)
  BY DEF SearchInv, CommandInv, At
<1>3. new \in SUBSET Candidate /\ snapshots' = Append(snapshots, new) /\ c.seen = head
  BY <1>1
<1>4. Cardinality(new) <= Budget
  BY <1>1, <1>2, UnionSize DEF Chosen
<1>5. Row(head) = c.base /\ c.batch \cap c.base = {}
  BY <1>2, <1>3 DEF Chosen
<1>6. /\ \A q \in Process : q # p => command'[q] = command[q]
      /\ command'[p].pc = "report" /\ command'[p].seen = head
      /\ command'[p].base = c.base /\ command'[p].batch = c.batch /\ command'[p] \in Commands
  BY <1>1, <1>3 DEF SearchInv, TypeOK, Commands
<1>11. \A q \in Process : c.base = Row(head) /\ (q # p /\ At(q, "report") => command[q].seen < head)
  BY <1>5 DEF SearchInv, CommandInv
<1> HIDE DEF c, new
<1>7. /\ snapshots' \in Seq(SUBSET Candidate) /\ head' = Len(snapshots')
      /\ \A n \in 0..head : Row(n)' = Row(n)
      /\ Row(head)' = new
  BY <1>3, RowsAfterAppend DEF SearchInv
<1>8. TypeOK'
  <2>1. command' \in [Process -> Commands]
    BY <1>6 DEF SearchInv, TypeOK
  <2>2. head' \in Nat
    BY <1>1
  <2> QED
    BY <1>7, <2>1, <2>2 DEF SearchInv, TypeOK
<1>9. HistoryInv'
  <2>1. \A n \in 0..head : \A m \in 0..n : Row(m) \subseteq Row(n)
    BY DEF SearchInv, HistoryInv
  <2>2. Row(head) \subseteq new
    BY <1>5 DEF new
  <2>3. ASSUME NEW n \in 0..head', NEW m \in 0..n PROVE Row(m)' \subseteq Row(n)'
    <3>1. CASE n \in 0..head
      BY <3>1, <1>1, <1>7, <2>1
    <3>2. CASE n = head + 1 /\ m \in 0..head
      <4>1. Row(m) \subseteq Row(head) /\ Row(m)' = Row(m)
        BY <3>2, <1>1, <1>7, <2>1
      <4>2. Row(n)' = new
        BY <3>2, <1>7 DEF Row
      <4> QED
        BY <2>2, <4>1, <4>2
    <3>3. CASE n = head + 1 /\ m = head + 1
      BY <3>3
    <3> QED
      BY <1>1, <3>1, <3>2, <3>3
  <2>4. ASSUME NEW n \in 0..head' PROVE Cardinality(Row(n)') <= Budget
    <3>1. CASE n \in 0..head
      BY <3>1, <1>7 DEF SearchInv, HistoryInv
    <3>2. CASE n = head + 1
      BY <3>2, <1>4, <1>7 DEF Row
    <3>3. n \in 0..head \/ n = head + 1
      BY <1>1
    <3> QED
      BY <3>1, <3>2, <3>3
  <2> QED
    BY <1>7, <2>3, <2>4 DEF HistoryInv
<1>10. CommandInv' /\ GrantsAreDisjoint'
  <2>1. ASSUME NEW q \in Process, command'[q].pc \in {"check", "write", "report"}
        PROVE  Chosen(command[q])'
    <3>1. Chosen(command[q])
      BY <2>1, <1>2, <1>6 DEF SearchInv, CommandInv, c
    <3>2. command[q] \in Commands
      BY DEF SearchInv, TypeOK
    <3>3. command[q].seen \in 0..head
      BY <3>1, <3>2, <1>1 DEF Chosen, Commands
    <3>4. /\ command'[q].seen = command[q].seen /\ command'[q].base = command[q].base
          /\ command'[q].batch = command[q].batch
      BY <1>6, <1>3 DEF c
    <3>5. Row(command[q].seen)' = Row(command[q].seen)
      BY <3>3, <3>4, <1>7 DEF Row
    <3> QED
      BY <3>1, <3>3, <3>4, <3>5, <1>1 DEF Chosen
  <2>2. ASSUME NEW q \in Process, q # p, At(q, "report")
        PROVE  /\ command[q].seen + 1 \in 0..head
               /\ command[q].batch \subseteq Row(command[q].seen + 1)
               /\ Row(command[q].seen + 1) \subseteq c.base
               /\ Row(command[q].seen + 1) = command[q].base \cup command[q].batch
    <3>1. command[q].seen < head /\ command[q].seen \in Nat
      BY <2>2 DEF SearchInv, CommandInv, TypeOK, Commands
    <3>2. command[q].seen + 1 \in 0..head /\ head \in 0..head
      BY <3>1, <1>1
    <3>3. Row(command[q].seen + 1) = command[q].base \cup command[q].batch
      BY <2>2 DEF SearchInv, CommandInv
    <3> QED
      BY <3>2, <3>3, <1>5 DEF SearchInv, HistoryInv
  <2>3. ASSUME NEW q \in Process, At(q, "report")'
        PROVE  /\ command'[q].seen < head'
               /\ Row(command[q].seen + 1)' = command'[q].base \cup command'[q].batch
    <3>1. CASE q = p
      BY <3>1, <1>1, <1>6, <1>7 DEF Row, new
    <3>2. CASE q # p
      <4>1. At(q, "report") /\ command'[q] = command[q]
        BY <2>3, <3>2, <1>6 DEF At
      <4>2. Row(command[q].seen + 1)' = Row(command[q].seen + 1)
        BY <4>1, <3>2, <2>2, <1>7 DEF Row
      <4>3. command[q].seen < head /\ command[q].seen \in Nat
        BY <4>1 DEF SearchInv, CommandInv, TypeOK, Commands
      <4> QED
        BY <3>2, <4>1, <4>2, <4>3, <2>2, <1>1
    <3> QED
      BY <3>1, <3>2
  <2>4. ASSUME NEW q \in Process, NEW r \in Process, q # r, At(q, "report")', At(r, "report")'
        PROVE  /\ command'[q].seen # command'[r].seen
               /\ command'[q].batch \cap command'[r].batch = {}
    <3>1. \A t \in Process : t # p /\ At(t, "report")' =>
            At(t, "report") /\ command'[t] = command[t]
      BY <1>6 DEF At
    <3>2. \A t \in Process : t # p /\ At(t, "report")' =>
            /\ command'[t].seen < head /\ command'[t].seen \in Nat
            /\ command'[t].batch \subseteq c.base
      BY <3>1, <2>2, <1>11 DEF SearchInv, TypeOK, Commands
    <3>3. CASE q = p
      BY <3>3, <3>2, <1>1, <1>5, <1>6, <2>4
    <3>4. CASE r = p
      BY <3>4, <3>2, <1>1, <1>5, <1>6, <2>4
    <3>5. CASE q # p /\ r # p
      BY <3>1, <3>5, <2>4 DEF SearchInv, CommandInv, GrantsAreDisjoint
    <3> QED
      BY <3>3, <3>4, <3>5
  <2> QED
    BY <2>1, <2>3, <2>4 DEF CommandInv, GrantsAreDisjoint
<1> QED
  BY <1>8, <1>9, <1>10 DEF SearchInv

\* A command writes its row, or finds that it is not the next one.
LEMMA WriteStep ==
  ASSUME SearchInv, NEW p \in Process, Write(p)
  PROVE  SearchInv'
<1>1. CASE Ended(p) /\ UNCHANGED <<snapshots, head>>
  <2>1. reported' \subseteq Candidate /\ faults' \in Nat
    BY DEF Write, SearchInv, TypeOK
  <2> QED
    BY <1>1, <2>1, EndStep
<1>2. CASE /\ head = command[p].seen
           /\ snapshots' = Append(snapshots, command[p].base \cup command[p].batch)
           /\ head' = command[p].seen + 1
           /\ command' = [command EXCEPT ![p].pc = "report"]
  BY <1>2, AppendStep DEF Write
<1> QED
  BY <1>1, <1>2 DEF Write

\* A command says what is pending, and ends.
LEMMA ReportStep ==
  ASSUME SearchInv, NEW p \in Process, Report(p)
  PROVE  SearchInv'
<1>1. reported' \subseteq Candidate /\ faults' \in Nat
  BY DEF Report, SearchInv, TypeOK, Commands
<1> QED
  BY <1>1, EndStep DEF Report

\* A command fails.
LEMMA FailStep ==
  ASSUME SearchInv, NEW p \in Process, Fail(p)
  PROVE  SearchInv'
<1>1. reported' \subseteq Candidate /\ faults' \in Nat
  BY DEF Fail, SearchInv, TypeOK
<1> QED
  BY <1>1, EndStep DEF Fail

\* Every step keeps the invariant.
LEMMA StepInv == SearchInv /\ [Next]_vars => SearchInv'
<1> SUFFICES ASSUME SearchInv, [Next]_vars PROVE SearchInv'
  OBVIOUS
<1>1. CASE UNCHANGED vars
  BY <1>1 DEF vars, SearchInv, TypeOK, HistoryInv, CommandInv, GrantsAreDisjoint, At, Row, Chosen
<1>2. CASE Next
  BY <1>2, StartStep, LoadStep, CheckStep, WriteStep, ReportStep, FailStep DEF Next, Begin, Work
<1> QED
  BY <1>1, <1>2

\* In every behaviour the snapshots are one line, and the commands agree with it.
THEOREM SearchInvariant == Spec => []SearchInv
<1>1. Init => SearchInv
  BY InitInv
<1>2. SearchInv /\ [Next]_vars => SearchInv'
  BY StepInv
<1> QED
  BY <1>1, <1>2, PTL DEF Spec
-----------------------------------------------------------------------------
(* The ledger *)

\* A step adds one batch to the ledger, or leaves it alone.
LEMMA StepLedger == SearchInv /\ [Next]_vars => [Ledger!Reserve]_Reserved
<1> SUFFICES ASSUME SearchInv, [Next]_vars PROVE [Ledger!Reserve]_Reserved
  OBVIOUS
<1>1. CASE UNCHANGED <<snapshots, head>>
  BY <1>1 DEF Reserved
<1>2. ASSUME NEW p \in Process, Write(p), ~UNCHANGED <<snapshots, head>>
      PROVE  [Ledger!Reserve]_Reserved
  <2>1. /\ At(p, "write") /\ head = command[p].seen
        /\ snapshots' = Append(snapshots, command[p].base \cup command[p].batch)
        /\ head' = head + 1
    BY <1>2 DEF Write
  <2> DEFINE base == command[p].base
             batch == command[p].batch
  <2>2. base \in SUBSET Candidate /\ batch \in SUBSET Candidate /\ head \in Nat
    BY DEF SearchInv, TypeOK, Commands
  <2>3. Chosen(command[p])
    BY <2>1 DEF SearchInv, CommandInv, At
  <2>4. Reserved = base
    BY <2>1, <2>3, ReservedIsRow DEF Chosen
  <2>5. Reserved' = base \cup batch
    <3>1. base \cup batch \in SUBSET Candidate
      BY <2>2
    <3>2. Row(head)' = base \cup batch
      BY <2>1, <3>1, RowsAfterAppend DEF SearchInv
    <3> QED
      BY <2>1, <2>2, <3>2 DEF Reserved, Row
  <2>6. CASE batch = {}
    BY <2>4, <2>5, <2>6
  <2>7. CASE batch # {}
    <3>1. batch \in SUBSET (Candidate \ Reserved)
      BY <2>2, <2>3, <2>4 DEF Chosen
    <3>2. /\ Cardinality(batch) <= Width
          /\ Cardinality(Reserved) + Cardinality(batch) <= Budget
          /\ Reserved' = Reserved \cup batch
      BY <2>3, <2>4, <2>5 DEF Chosen
    <3>3. /\ Ledger!Cardinality(batch) = Cardinality(batch)
          /\ Ledger!Cardinality(Reserved) = Cardinality(Reserved)
      BY DEF Cardinality, Ledger!Cardinality
    <3> HIDE DEF batch
    <3> QED
      BY <3>1, <3>2, <3>3, <2>7 DEF Ledger!Reserve
  <2> QED
    BY <2>6, <2>7
<1> QED
  BY <1>1, <1>2 DEF Next, Begin, Work, vars, Start, Load, CheckHead, Report, Fail

\* The commands keep the ledger: batches are added to it one after the other, and
\* none is reserved twice, given up, or beyond the budget.
THEOREM LedgerKept == Spec => LedgerIsKept
<1>1. Init => Ledger!Init
  BY DEF Init, Ledger!Init, Reserved
<1> QED
  BY <1>1, SearchInvariant, StepLedger, PTL DEF Spec, LedgerIsKept, Ledger!Spec
==================================================================================
