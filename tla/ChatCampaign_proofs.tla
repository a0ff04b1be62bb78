--------------------------- MODULE ChatCampaign_proofs ---------------------------
(***************************************************************************)
(* ChatCampaign for any number of overlapping executions, commands,        *)
(* replans, timeouts and crashes.  A write that names the version it was   *)
(* decided on changes the record it was decided on; everything else        *)
(* follows from what each actor knows of the record it has read.           *)
(***************************************************************************)
EXTENDS ChatCampaign, TLAPS

-----------------------------------------------------------------------------
\* Records only grow in version, and archives in evidence.
Grows ==
  \A c \in Campaign :
    campaign'[c] = campaign[c] \/ campaign'[c].version > campaign[c].version

Gains == \A c \in Campaign : archive[c] \subseteq archive'[c]

\* The child appears once, and is not taken for absent afterwards.
ChildStays == campaign'[Child] = campaign[Child] \/ campaign[Child].lifecycle # "none"

StoreOK ==
  /\ campaign \in [Campaign -> CampaignState]
  /\ \A c \in Campaign : CampaignOK(campaign[c])

ActorsOK == (\A h \in Handler : HandlerOK(h)) /\ CommandOK /\ ReplanOK

\* The records that stand for absence are records, and consistent.
LEMMA Absent ==
  /\ NoCampaign \in CampaignState /\ CampaignOK(NoCampaign)
  /\ NoRun \in OptimizeRun /\ RunOK(NoRun)
<1>1. 0 \in 0..Stages /\ 0 < Stages
  BY ChatAssumption
<1>2. NoCampaign \in CampaignState /\ CampaignOK(NoCampaign)
  BY DEF NoCampaign, CampaignState, Lifecycle, Outcome, CampaignOK
<1>3. NoRun \in OptimizeRun /\ RunOK(NoRun)
  BY <1>1 DEF NoRun, OptimizeRun, Outcome, RunOK, Accepted
<1> QED
  BY <1>2, <1>3

LEMMA RootChild == Root \in Campaign /\ Child \in Campaign /\ Root # Child
BY ChatAssumption DEF Campaign

\* A copy stays one: its version is never used again.
LEMMA CopyKept ==
  ASSUME StoreOK, StoreOK', Grows, NEW c \in Campaign, NEW s \in CampaignState, IsCopy(c, s)
  PROVE  IsCopy(c, s)'
<1>1. s.version \in Int /\ campaign[c].version \in Int /\ campaign'[c].version \in Int
  BY DEF StoreOK, CampaignState
<1>2. CASE campaign'[c] = campaign[c]
  BY <1>2 DEF IsCopy
<1>3. CASE campaign'[c].version > campaign[c].version
  BY <1>1, <1>3 DEF IsCopy
<1> QED
  BY <1>2, <1>3 DEF Grows

LEMMA CopyOfNone ==
  ASSUME StoreOK, NEW c \in Campaign
  PROVE  IsCopy(c, NoCampaign)
<1>1. campaign[c] \in CampaignState /\ CampaignOK(campaign[c])
  BY DEF StoreOK
<1>2. NoCampaign.version = -1 /\ campaign[c].version \in Int
  BY <1>1 DEF NoCampaign, CampaignState
<1> QED
  BY <1>1, <1>2 DEF IsCopy, CampaignOK

\* A write of a consistent record at the version of the one it replaces.
LEMMA WriteIsSafe ==
  ASSUME StoreOK, NEW c \in Campaign, NEW s \in CampaignState, CampaignOK(s),
         s.lifecycle # "none", campaign[c].lifecycle # "none",
         s.version = campaign[c].version, Write(c, s)
  PROVE  /\ StoreOK' /\ Grows /\ ChildStays
         /\ campaign' = [campaign EXCEPT ![c] = Written(s)]
         /\ campaign'[c] = Written(s)
         /\ Written(s) \in CampaignState /\ CampaignOK(Written(s))
         /\ IsCopy(c, Written(s))'
         /\ Written(s).lifecycle = s.lifecycle /\ Written(s).outcome = s.outcome
         /\ Written(s).approval = s.approval
<1>1. s.version \in Int /\ s.version + 1 \in Int /\ s.version >= 0
  BY DEF CampaignState, CampaignOK
<1>2. /\ Written(s).lifecycle = s.lifecycle /\ Written(s).outcome = s.outcome
      /\ Written(s).approval = s.approval /\ Written(s).version = s.version + 1
      /\ Written(s) \in CampaignState
  BY <1>1 DEF Written, CampaignState
<1>3. CampaignOK(Written(s))
  BY <1>1, <1>2 DEF CampaignOK
<1>4. /\ campaign' = [campaign EXCEPT ![c] = Written(s)]
      /\ campaign'[c] = Written(s)
      /\ \A d \in Campaign : d # c => campaign'[d] = campaign[d]
  BY DEF Write, StoreOK
<1>5. StoreOK'
  <2>1. campaign' \in [Campaign -> CampaignState]
    BY <1>2, <1>4 DEF StoreOK
  <2>2. \A d \in Campaign : CampaignOK(campaign'[d])
    BY <1>3, <1>4 DEF StoreOK
  <2> QED
    BY <2>1, <2>2 DEF StoreOK, CampaignOK
<1>6. Grows
  BY <1>1, <1>2, <1>4 DEF Grows
<1>7. ChildStays
  BY <1>4, RootChild DEF ChildStays
<1>8. IsCopy(c, Written(s))'
  BY <1>1, <1>2, <1>4 DEF IsCopy
<1> QED
  BY <1>2, <1>3, <1>4, <1>5, <1>6, <1>7, <1>8

\* What an actor that does not move knows stays true.
LEMMA HandlerStays ==
  ASSUME StoreOK, StoreOK', Grows, Gains, NEW h \in Handler, HandlerOK(h),
         handler[h] \in Call, handler'[h] = handler[h]
  PROVE  HandlerOK(h)'
<1>1. handler[h].seen \in CampaignState
  BY DEF Call
<1>2. IsCopy(Root, handler[h].seen)'
  BY <1>1, CopyKept, RootChild DEF HandlerOK
<1>3. archive[Root] \subseteq archive'[Root]
  BY RootChild DEF Gains
<1> QED
  BY <1>2, <1>3 DEF HandlerOK, RunRetained, RunOK, CampaignOK

LEMMA CommandStays ==
  ASSUME StoreOK, StoreOK', Grows, CommandOK, command.seen \in CampaignState,
         command.on \in Campaign, command' = command
  PROVE  CommandOK'
<1>1. IsCopy(command.on, command.seen)'
  BY CopyKept DEF CommandOK
<1> QED
  BY <1>1 DEF CommandOK, CampaignOK

LEMMA ReplanStays ==
  ASSUME StoreOK, StoreOK', Grows, ChildStays, ReplanOK, replan.seen \in CampaignState,
         replan' = replan
  PROVE  ReplanOK'
<1>1. IsCopy(Root, replan.seen)'
  BY CopyKept, RootChild DEF ReplanOK
<1> QED
  BY <1>1 DEF ReplanOK, CampaignOK, ChildStays

\* The call that has ended.
LEMMA EndedIsSafe ==
  ASSUME StoreOK', NEW h \in Handler,
         NEW why \in End,
         handler'[h] = [Idle EXCEPT !.end = why]
  PROVE  handler'[h] \in Call /\ HandlerOK(h)'
<1>1. /\ handler'[h].pc = "idle" /\ handler'[h].seen = NoCampaign
      /\ handler'[h].run = NoRun /\ handler'[h].purpose = "work"
  BY DEF Idle
<1>2. handler'[h] \in Call
  <2>1. handler'[h] = [pc |-> "idle", purpose |-> "work", resume |-> FALSE,
                       seen |-> NoCampaign, run |-> NoRun, next |-> 0, token |-> FALSE,
                       pause |-> FALSE, end |-> why]
    BY DEF Idle
  <2>2. NoCampaign \in CampaignState /\ NoRun \in OptimizeRun
    BY Absent
  <2>3. "idle" \in Step /\ "work" \in Purpose
    BY DEF Step, Purpose
  <2>4. \A p \in Step, q \in Purpose, s \in CampaignState, r \in OptimizeRun, e \in End :
          [pc |-> p, purpose |-> q, resume |-> FALSE, seen |-> s, run |-> r, next |-> 0,
           token |-> FALSE, pause |-> FALSE, end |-> e] \in Call
    BY DEF Call
  <2> QED
    BY <2>1, <2>2, <2>3, <2>4
<1>3. IsCopy(Root, NoCampaign)'
  <2>1. campaign'[Root] \in CampaignState /\ CampaignOK(campaign'[Root])
    BY RootChild DEF StoreOK, CampaignOK
  <2>2. NoCampaign.version = -1 /\ campaign'[Root].version \in Int
    BY <2>1 DEF NoCampaign, CampaignState
  <2> QED
    BY <2>1, <2>2 DEF IsCopy, CampaignOK
<1> QED
  BY <1>1, <1>2, <1>3, Absent DEF HandlerOK, CampaignOK, RunOK, NoRun

-----------------------------------------------------------------------------
\* A step of one call, and what it has to establish.
StepOK(h) ==
  /\ StoreOK' /\ Grows /\ Gains /\ ChildStays
  /\ archive' \in [Campaign -> SUBSET Evidence] /\ OneRecordPerId'
  /\ lapsed' \subseteq Campaign
  /\ file' \in OptimizeRun /\ RunOK(file)'
  /\ handler'[h] \in Call /\ HandlerOK(h)'
  /\ handler' = [handler EXCEPT ![h] = handler'[h]]
  /\ registered' \subseteq Handler
  /\ supported' \in BOOLEAN /\ answered' \in BOOLEAN
  /\ command' = command /\ replan' = replan
  /\ calls' \in Nat /\ events' \in Nat

LEMMA CallFields ==
  ASSUME NEW call \in Call
  PROVE  /\ call.pc \in Step /\ call.purpose \in Purpose /\ call.seen \in CampaignState
         /\ call.run \in OptimizeRun /\ call.next \in Nat
BY DEF Call

\* The invariant in the pieces the steps use.
LEMMA InvParts ==
  ASSUME ChatInv, NEW h \in Handler
  PROVE  /\ StoreOK /\ HandlerOK(h) /\ handler[h] \in Call /\ RunOK(file)
         /\ campaign[Root] \in CampaignState /\ CampaignOK(campaign[Root])
         /\ file \in OptimizeRun /\ archive \in [Campaign -> SUBSET Evidence]
         /\ OneRecordPerId /\ lapsed \subseteq Campaign /\ registered \subseteq Handler
         /\ supported \in BOOLEAN /\ answered \in BOOLEAN
         /\ calls \in Nat /\ events \in Nat
BY RootChild DEF ChatInv, TypeOK, StoreOK

\* A step that leaves the store alone.
LEMMA StoreStays ==
  ASSUME StoreOK, campaign' = campaign, archive' = archive
  PROVE  StoreOK' /\ Grows /\ Gains /\ ChildStays
BY DEF StoreOK, Grows, Gains, ChildStays, CampaignOK

LEMMA QuietStep ==
  ASSUME ChatInv, NEW h \in Handler, campaign' = campaign, archive' = archive,
         lapsed' = lapsed, file' = file,
         UNCHANGED <<supported, answered, command, replan, calls>>, events' \in Nat,
         registered' \subseteq Handler, handler'[h] \in Call, HandlerOK(h)',
         handler' = [handler EXCEPT ![h] = handler'[h]]
  PROVE  StepOK(h)
<1>1. StoreOK' /\ Grows /\ Gains /\ ChildStays
  BY StoreStays, InvParts
<1>2. OneRecordPerId' /\ RunOK(file)'
  BY InvParts DEF OneRecordPerId, RunOK
<1> QED
  BY <1>1, <1>2, InvParts DEF StepOK

LEMMA EndsQuietly ==
  ASSUME ChatInv, NEW h \in Handler, NEW why \in End, Ends(h, why), UNCHANGED stored,
         UNCHANGED Others
  PROVE  StepOK(h)
<1>1. StoreOK'
  BY StoreStays, InvParts DEF stored
<1>2. /\ handler'[h] = [Idle EXCEPT !.end = why]
      /\ handler' = [handler EXCEPT ![h] = handler'[h]]
  BY DEF Ends, Goes, ChatInv, TypeOK
<1>3. handler'[h] \in Call /\ HandlerOK(h)'
  BY <1>1, <1>2, EndedIsSafe
<1> QED
  BY <1>2, <1>3, QuietStep, InvParts DEF Ends, Others, stored

\* What start() decides on the record it has read or created.
LEMMA DecidedIsSafe ==
  ASSUME ChatInv, StoreOK', NEW h \in Handler, NEW s \in CampaignState, CampaignOK(s),
         s.lifecycle # "none", s.approval = "approved", IsCopy(Root, s)',
         handler[h].pc \in {"load", "create"}, archive' = archive,
         handler'[h] = Decided(h, s)
  PROVE  handler'[h] \in Call /\ HandlerOK(h)'
<1> DEFINE call == handler[h]
           after == handler'[h]
<1>1. call \in Call /\ HandlerOK(h) /\ call.purpose \in Purpose
  BY InvParts, CallFields
<1>2. after.seen = s /\ after.next = 1 /\ after.purpose = call.purpose /\ after.run = call.run
  BY <1>1 DEF Decided, Call
<1>3. \/ after.pc = "expire"
      \/ after.pc = "begin" /\ s.lifecycle \in {"created", "paused"}
      \/ after.pc = Started[call.purpose]
  BY <1>1 DEF Decided, Call
<1>4. /\ call.purpose = "work" => Started[call.purpose] = "open"
      /\ call.purpose = "run" => Started[call.purpose] = "audit"
      /\ call.purpose \notin {"work", "run"} => Started[call.purpose] = "retain"
  BY <1>1 DEF Started, Purpose, Ending
<1>5. after.pc \in Step
  BY <1>3, <1>4 DEF Step
<1>6. after \in Call
  <2>1. after = [call EXCEPT !.seen = s, !.next = 1, !.pc = after.pc]
    BY <1>1 DEF Decided, Call
  <2> HIDE DEF call
  <2> QED
    BY <1>1, <1>5, <2>1, 1 \in Nat DEF Call
<1>7. RunOK(call.run) /\ (call.purpose = "run" => call.run.status \in {"paused", "completed"})
  BY <1>1 DEF HandlerOK
<1>8. call.run.done \in Nat
  BY <1>1, CallFields, ChatAssumption DEF OptimizeRun
<1>9. HandlerOK(h)'
  <2>1. /\ IsCopy(Root, handler[h].seen)' /\ CampaignOK(handler[h].seen)'
        /\ RunOK(handler[h].run)'
    BY <1>2, <1>7 DEF CampaignOK, RunOK, IsCopy
  <2>2. after.pc \in {"expire", "begin", "open", "audit", "retain"}
    BY <1>3, <1>4
  <2>3. /\ after.pc = "open" => after.purpose = "work"
        /\ after.pc = "audit" => after.purpose = "run" /\ after.next = 1
        /\ after.pc = "retain" => after.purpose # "work"
        /\ after.pc = "begin" => s.lifecycle \in {"created", "paused"}
    BY <1>2, <1>3, <1>4
  <2>4. 1 \in 1..(after.run.done + 1) /\ 1..(after.next - 1) = {}
    BY <1>2, <1>8
  <2> QED
    BY <1>2, <1>7, <2>1, <2>2, <2>3, <2>4 DEF HandlerOK
<1> QED
  BY <1>6, <1>9

-----------------------------------------------------------------------------
\* The actions of a call, one by one.

LEMMA PlainStep ==
  ASSUME ChatInv, NEW h \in Handler, StoreOK', Grows, ChildStays, archive' = archive,
         lapsed' = lapsed, file' \in OptimizeRun, RunOK(file)', UNCHANGED Others,
         registered' \subseteq Handler, handler'[h] \in Call, HandlerOK(h)',
         handler' = [handler EXCEPT ![h] = handler'[h]]
  PROVE  StepOK(h)
<1>1. OneRecordPerId' /\ Gains
  BY InvParts DEF OneRecordPerId, Gains
<1> QED
  BY <1>1, InvParts DEF StepOK, Others

LEMMA EndsAfterWrite ==
  ASSUME ChatInv, NEW h \in Handler, NEW why \in End, Ends(h, why), StoreOK', Grows,
         ChildStays, UNCHANGED <<archive, lapsed, file>>, UNCHANGED Others
  PROVE  StepOK(h)
<1>1. /\ handler'[h] = [Idle EXCEPT !.end = why]
      /\ handler' = [handler EXCEPT ![h] = handler'[h]]
  BY DEF Ends, Goes, ChatInv, TypeOK
<1>2. handler'[h] \in Call /\ HandlerOK(h)'
  BY <1>1, EndedIsSafe
<1>3. RunOK(file)'
  BY InvParts DEF RunOK
<1> QED
  BY <1>1, <1>2, <1>3, PlainStep, InvParts DEF Ends

\* A write that is not refused replaces the record the call has seen.
LEMMA SeenIsCurrent ==
  ASSUME ChatInv, NEW h \in Handler, NEW s, ~Refused(h, s)
  PROVE  /\ handler[h].seen = campaign[Root]
         /\ Allowed(handler[h].seen.lifecycle, s.lifecycle)
BY InvParts DEF Refused, Current, HandlerOK, IsCopy

LEMMA LoadStep ==
  ASSUME ChatInv, NEW h \in Handler, Load(h)
  PROVE  StepOK(h)
<1> DEFINE s == campaign[Root]
<1>1. UNCHANGED stored /\ UNCHANGED Others /\ At(h, "load")
  BY DEF Load
<1>2. ASSUME s.lifecycle = "none", Moves(h, "create"), UNCHANGED registered
      PROVE  StepOK(h)
  <2>1. /\ handler'[h] = [handler[h] EXCEPT !.pc = "create"]
        /\ handler' = [handler EXCEPT ![h] = handler'[h]]
    BY <1>2 DEF Moves, Goes, ChatInv, TypeOK
  <2>2. handler'[h] \in Call
    BY <2>1, InvParts DEF Call, Step
  <2>3. /\ handler'[h].pc = "create" /\ handler'[h].seen = handler[h].seen
        /\ handler'[h].run = handler[h].run /\ handler'[h].purpose = handler[h].purpose
    BY <2>1, InvParts DEF Call
  <2>4. HandlerOK(h)'
    BY <1>1, <2>3, InvParts DEF HandlerOK, IsCopy, CampaignOK, RunOK, stored
  <2> QED
    BY <1>1, <1>2, <2>1, <2>2, <2>4, QuietStep, InvParts DEF stored, Others
<1>3. ASSUME NEW why \in End, Ends(h, why)
      PROVE  StepOK(h)
  BY <1>1, <1>3, EndsQuietly
<1>4. ASSUME s.lifecycle # "none", s.approval = "approved", Goes(h, Decided(h, s)),
             UNCHANGED registered
      PROVE  StepOK(h)
  <2>1. /\ handler'[h] = Decided(h, s)
        /\ handler' = [handler EXCEPT ![h] = handler'[h]]
    BY <1>4 DEF Goes, ChatInv, TypeOK
  <2>2. StoreOK' /\ s \in CampaignState /\ CampaignOK(s) /\ IsCopy(Root, s)'
    BY <1>1, InvParts, StoreStays DEF stored, IsCopy, CampaignState
  <2>3. handler'[h] \in Call /\ HandlerOK(h)'
    BY <1>1, <1>4, <2>1, <2>2, DecidedIsSafe DEF At, stored
  <2> QED
    BY <1>1, <1>4, <2>1, <2>3, QuietStep, InvParts DEF stored, Others
<1> QED
  BY <1>2, <1>3, <1>4 DEF Load, End

LEMMA CreateStep ==
  ASSUME ChatInv, NEW h \in Handler, Create(h)
  PROVE  StepOK(h)
<1>1. UNCHANGED Others /\ At(h, "create")
  BY DEF Create
<1>2. CASE Ends(h, "stale") /\ UNCHANGED stored
  BY <1>1, <1>2, EndsQuietly DEF End
<1>3. ASSUME campaign[Root].lifecycle = "none", NEW reuse \in Reuse,
             campaign' = [campaign EXCEPT ![Root] = NewCampaign("approved", reuse, FALSE)],
             Goes(h, Decided(h, NewCampaign("approved", reuse, FALSE))),
             UNCHANGED <<archive, lapsed, file, registered>>
      PROVE  StepOK(h)
  <2> DEFINE new == NewCampaign("approved", reuse, FALSE)
  <2>1. /\ new \in CampaignState /\ CampaignOK(new) /\ new.lifecycle = "created"
        /\ new.approval = "approved" /\ new.version = 0
    <3>1. /\ reuse \in {"reusable", "one_time"} /\ "created" \in Lifecycle /\ 0 \in Int
          /\ NoCampaign \in CampaignState /\ NoCampaign.outcome = "unknown"
      BY ChatAssumption, Absent DEF Lifecycle, NoCampaign
    <3>2. new \in CampaignState
      BY <3>1 DEF CampaignState, NewCampaign
    <3>3. /\ new.lifecycle = "created" /\ new.outcome = "unknown"
          /\ new.approval = "approved" /\ new.version = 0
      BY <3>1 DEF CampaignState, NewCampaign
    <3>4. CampaignOK(new)
      <4> HIDE DEF new
      <4> QED
        BY <3>3 DEF CampaignOK
    <3> QED
      BY <3>2, <3>3, <3>4
  <2>2. campaign[Root].version = -1
    BY <1>3, InvParts DEF CampaignOK, NoCampaign
  <2> HIDE DEF new
  <2>3. /\ campaign' \in [Campaign -> CampaignState] /\ campaign'[Root] = new
        /\ \A d \in Campaign : d # Root => campaign'[d] = campaign[d]
    BY <1>3, <2>1, InvParts, RootChild DEF StoreOK, new
  <2>4. StoreOK' /\ Grows /\ ChildStays /\ IsCopy(Root, new)'
    BY <2>1, <2>2, <2>3, InvParts, RootChild DEF StoreOK, Grows, ChildStays, IsCopy, CampaignOK
  <2>5. /\ handler'[h] = Decided(h, new)
        /\ handler' = [handler EXCEPT ![h] = handler'[h]]
    BY <1>3 DEF Goes, ChatInv, TypeOK, new
  <2>6. handler'[h] \in Call /\ HandlerOK(h)'
    BY <1>1, <1>3, <2>1, <2>4, <2>5, DecidedIsSafe DEF At
  <2>7. RunOK(file)'
    BY <1>3, InvParts DEF RunOK
  <2> QED
    BY <1>1, <1>3, <2>4, <2>5, <2>6, <2>7, PlainStep, InvParts
<1> QED
  BY <1>2, <1>3 DEF Create

LEMMA ExpireStep ==
  ASSUME ChatInv, NEW h \in Handler, Expire(h)
  PROVE  StepOK(h)
<1> DEFINE seen == handler[h].seen
           s == [seen EXCEPT !.lifecycle = "paused", !.approval = "expired"]
<1>1. UNCHANGED Others /\ seen \in CampaignState /\ CampaignOK(seen) /\ seen.lifecycle # "none"
  BY InvParts, CallFields DEF Expire, HandlerOK, At
<1>2. CASE Raises(h, s)
  BY <1>1, <1>2, EndsQuietly DEF Raises, End
<1>3. ASSUME ~Refused(h, s), Write(Root, s), NEW why \in End, Ends(h, why),
             UNCHANGED <<archive, lapsed, file>>
      PROVE  StepOK(h)
  <2>1. seen = campaign[Root] /\ Allowed(seen.lifecycle, s.lifecycle)
    BY <1>3, SeenIsCurrent
  <2>2. /\ s \in CampaignState /\ s.lifecycle = "paused" /\ s.version = seen.version
        /\ s.approval = "expired" /\ s.outcome = seen.outcome
    BY <1>1 DEF CampaignState, Lifecycle
  <2>3. CampaignOK(s)
    BY <1>1, <2>1, <2>2 DEF CampaignOK, Allowed
  <2> HIDE DEF s
  <2>4. StoreOK' /\ Grows /\ ChildStays
    BY <1>1, <1>3, <2>1, <2>2, <2>3, WriteIsSafe, InvParts, RootChild
  <2> QED
    BY <1>1, <1>3, <2>4, EndsAfterWrite
<1> QED
  BY <1>2, <1>3 DEF Expire, End

LEMMA StartedIs ==
  ASSUME NEW p \in Purpose
  PROVE  /\ Started[p] \in {"open", "audit", "retain"} /\ Started[p] \in Step
         /\ Started[p] = "open" => p = "work"
         /\ Started[p] = "audit" => p = "run"
         /\ Started[p] = "retain" => p \notin {"work", "run"}
BY DEF Started, Purpose, Ending, Step

LEMMA BeginStep ==
  ASSUME ChatInv, NEW h \in Handler, Begin(h)
  PROVE  StepOK(h)
<1> DEFINE seen == handler[h].seen
           begun == [seen EXCEPT !.lifecycle = "running", !.outcome = "unknown",
                                 !.uses = IF seen.lifecycle = "created" THEN @ + 1 ELSE @]
           p == handler[h].purpose
<1>1. /\ UNCHANGED Others /\ seen \in CampaignState /\ CampaignOK(seen)
      /\ seen.lifecycle # "none" /\ RunOK(handler[h].run) /\ p \in Purpose
      /\ p = "run" => handler[h].run.status \in {"paused", "completed"}
      /\ handler[h].run.done \in Nat
  BY InvParts, CallFields, ChatAssumption DEF Begin, HandlerOK, At, OptimizeRun
<1>2. CASE Raises(h, begun)
  BY <1>1, <1>2, EndsQuietly DEF Raises, End
<1>3. ASSUME NEW s, s = begun, ~Refused(h, s), Write(Root, s),
             Goes(h, [handler[h] EXCEPT !.seen = Written(s), !.pc = Started[p]]),
             UNCHANGED <<archive, lapsed, file, registered>>
      PROVE  StepOK(h)
  <2>1. seen = campaign[Root]
    BY <1>3, SeenIsCurrent
  <2>2. /\ s \in CampaignState /\ s.lifecycle = "running" /\ s.version = seen.version
        /\ s.approval = seen.approval /\ s.outcome = "unknown"
    <3>1. seen.uses \in Nat /\ (IF seen.lifecycle = "created" THEN seen.uses + 1 ELSE seen.uses) \in Nat
      BY <1>1 DEF CampaignState
    <3> QED
      BY <1>1, <1>3, <3>1 DEF CampaignState, Lifecycle, Outcome
  <2>3. CampaignOK(s)
    BY <1>1, <2>1, <2>2 DEF CampaignOK
  <2> HIDE DEF begun
  <2>4. /\ StoreOK' /\ Grows /\ ChildStays /\ Written(s) \in CampaignState
        /\ CampaignOK(Written(s)) /\ IsCopy(Root, Written(s))'
        /\ Written(s).lifecycle = "running"
    <3>1. StoreOK /\ campaign[Root].lifecycle # "none" /\ s.version = campaign[Root].version
      BY <1>1, <2>1, <2>2, InvParts
    <3> QED
      BY <1>3, <2>2, <2>3, <3>1, WriteIsSafe, RootChild
  <2>5. /\ handler'[h] = [handler[h] EXCEPT !.seen = Written(s), !.pc = Started[p]]
        /\ handler' = [handler EXCEPT ![h] = handler'[h]]
    BY <1>3 DEF Goes, ChatInv, TypeOK
  <2>6. handler'[h] \in Call
    <3>1. handler[h] \in Call /\ Started[p] \in Step
      BY <1>1, InvParts, StartedIs
    <3> HIDE DEF p
    <3> QED
      BY <2>4, <2>5, <3>1 DEF Call
  <2>7. /\ handler'[h].pc = Started[p] /\ handler'[h].seen = Written(s)
        /\ handler'[h].run = handler[h].run /\ handler'[h].purpose = p
        /\ handler'[h].next = handler[h].next
    BY <2>5, InvParts DEF Call
  <2>8. handler[h].next = 1
    BY InvParts DEF HandlerOK, Begin, At
  <2>9. HandlerOK(h)'
    <3>1. RunOK(handler[h].run)' /\ CampaignOK(handler[h].seen)' /\ IsCopy(Root, handler[h].seen)'
      <4>1. CampaignOK(handler[h].seen)'
        BY <2>4, <2>7 DEF CampaignOK
      <4>2. IsCopy(Root, handler[h].seen)'
        BY <2>4, <2>7 DEF IsCopy
      <4>3. RunOK(handler[h].run)'
        BY <1>1, <2>7 DEF RunOK
      <4> QED
        BY <4>1, <4>2, <4>3
    <3>2. 1 \in 1..(handler[h].run.done + 1) /\ 1..(1 - 1) = {}
      BY <1>1
    <3> QED
      BY <1>1, <2>4, <2>7, <2>8, <3>1, <3>2, StartedIs DEF HandlerOK
  <2>10. RunOK(file)'
    BY <1>3, InvParts DEF RunOK
  <2> QED
    BY <1>1, <1>3, <2>4, <2>5, <2>6, <2>9, <2>10, PlainStep, InvParts
<1> QED
  BY <1>2, <1>3 DEF Begin

\* A step of the run: the store is left alone, and the file holds the run.
LEMMA SavesStep ==
  ASSUME ChatInv, NEW h \in Handler, NEW r \in OptimizeRun, NEW step \in {"stage", "returned"},
         Saves(h, r, step), Keeps, RunOK(r), handler[h].purpose = "work",
         handler[h].seen.lifecycle # "none",
         step = "stage" => r.status = "running",
         step = "returned" => r.status \in {"paused", "completed"}
  PROVE  StepOK(h)
<1>1. /\ handler'[h] = [handler[h] EXCEPT !.run = r, !.pc = step]
      /\ handler' = [handler EXCEPT ![h] = handler'[h]]
  BY DEF Saves, Goes, ChatInv, TypeOK
<1>2. handler'[h] \in Call
  <2>1. handler[h] \in Call /\ step \in Step
    BY InvParts DEF Step
  <2> QED
    BY <1>1, <2>1 DEF Call
<1>3. /\ handler'[h].pc = step /\ handler'[h].seen = handler[h].seen
      /\ handler'[h].run = r /\ handler'[h].purpose = "work"
  BY <1>1, InvParts DEF Call
<1>4. StoreOK' /\ Grows /\ Gains /\ ChildStays
  BY InvParts, StoreStays DEF Keeps
<1>5. HandlerOK(h)'
  BY <1>3, InvParts DEF HandlerOK, IsCopy, CampaignOK, RunOK, Keeps
<1>6. RunOK(file)' /\ file' \in OptimizeRun
  BY DEF Saves, RunOK
<1> QED
  BY <1>1, <1>2, <1>4, <1>5, <1>6, PlainStep, InvParts DEF Keeps

LEMMA FailsStep ==
  ASSUME ChatInv, NEW h \in Handler, Fails(h), Keeps
  PROVE  StepOK(h)
<1>1. /\ handler'[h] = [handler[h] EXCEPT !.purpose = "failure", !.pc = "load"]
      /\ handler' = [handler EXCEPT ![h] = handler'[h]]
  BY DEF Fails, Goes, ChatInv, TypeOK
<1>2. handler'[h] \in Call
  <2>1. handler[h] \in Call /\ "load" \in Step /\ "failure" \in Purpose
    BY InvParts DEF Step, Purpose, Ending
  <2> QED
    BY <1>1, <2>1 DEF Call
<1>3. /\ handler'[h].pc = "load" /\ handler'[h].seen = handler[h].seen
      /\ handler'[h].run = handler[h].run /\ handler'[h].purpose = "failure"
  BY <1>1, InvParts DEF Call
<1>4. HandlerOK(h)'
  BY <1>3, InvParts DEF HandlerOK, IsCopy, CampaignOK, RunOK, Keeps
<1> QED
  BY <1>1, <1>2, <1>4, QuietStep, InvParts DEF Fails, Keeps, Others

LEMMA OpenStep ==
  ASSUME ChatInv, NEW h \in Handler, Open(h)
  PROVE  StepOK(h)
<1>1. /\ Keeps /\ handler[h].purpose = "work" /\ handler[h].seen.lifecycle # "none"
      /\ file \in OptimizeRun /\ RunOK(file)
  BY InvParts DEF Open, At, HandlerOK
<1>2. CASE Fails(h)
  BY <1>1, <1>2, FailsStep
<1>3. CASE file.status = "completed" /\ Saves(h, file, "returned")
  BY <1>1, <1>3, SavesStep
<1>4. ASSUME file.status # "completed",
             NEW r, r = [file EXCEPT !.status = "running", !.audit = @ + 1],
             Saves(h, r, "stage")
      PROVE  StepOK(h)
  <2>1. /\ r \in OptimizeRun /\ r.status = "running" /\ r.done = file.done
        /\ r.outcome = file.outcome /\ r.result = file.result
    <3>1. file.audit \in Nat /\ file.audit + 1 \in Nat
      BY <1>1 DEF OptimizeRun
    <3> QED
      BY <1>1, <1>4, <3>1 DEF OptimizeRun
  <2>2. RunOK(r)
    BY <1>1, <1>4, <2>1 DEF RunOK, Accepted
  <2> QED
    BY <1>1, <1>4, <2>1, <2>2, SavesStep
<1>5. ASSUME file.status # "completed", NEW r, r = [file EXCEPT !.status = "paused"],
             Saves(h, r, "returned")
      PROVE  StepOK(h)
  <2>1. /\ r \in OptimizeRun /\ r.status = "paused" /\ r.done = file.done
        /\ r.outcome = file.outcome /\ r.result = file.result
    BY <1>1, <1>5 DEF OptimizeRun
  <2>2. RunOK(r)
    BY <1>1, <1>5, <2>1 DEF RunOK, Accepted
  <2> QED
    BY <1>1, <1>5, <2>1, <2>2, SavesStep
<1> QED
  BY <1>2, <1>3, <1>4, <1>5 DEF Open

LEMMA RunStageStep ==
  ASSUME ChatInv, NEW h \in Handler, RunStage(h)
  PROVE  StepOK(h)
<1> DEFINE run == handler[h].run
           after == [run EXCEPT !.done = @ + 1]
<1>1. /\ Keeps /\ handler[h].seen.lifecycle # "none"
      /\ run \in OptimizeRun /\ RunOK(run) /\ run.status = "running"
  BY InvParts, CallFields DEF RunStage, At, HandlerOK
<1>2. handler[h].purpose = "work"
  BY InvParts, <1>1 DEF RunStage, At, HandlerOK
<1>3. /\ run.done \in Nat /\ run.done < Stages /\ run.outcome = "unknown"
      /\ run.result = "supported" /\ Stages \in Nat
  BY <1>1, ChatAssumption DEF RunOK, OptimizeRun
<1>4. /\ after \in OptimizeRun /\ after.done = run.done + 1 /\ after.status = "running"
      /\ after.outcome = "unknown" /\ after.result = "supported"
  BY <1>1, <1>3 DEF OptimizeRun
<1>5. CASE Fails(h)
  BY <1>1, <1>5, FailsStep
<1>6. ASSUME NEW r, r = [run EXCEPT !.status = "paused"], Saves(h, r, "returned")
      PROVE  StepOK(h)
  <2>1. /\ r \in OptimizeRun /\ r.status = "paused" /\ r.done = run.done
        /\ r.outcome = "unknown" /\ r.result = "supported"
    BY <1>1, <1>3, <1>6 DEF OptimizeRun
  <2>2. RunOK(r)
    BY <1>3, <2>1 DEF RunOK, Accepted
  <2> QED
    BY <1>1, <1>2, <1>6, <2>1, <2>2, SavesStep
<1>7. CASE after.done < Stages /\ Saves(h, after, "stage")
  <2>1. RunOK(after)
    BY <1>4, <1>7 DEF RunOK, Accepted
  <2> HIDE DEF after
  <2> QED
    BY <1>1, <1>2, <1>4, <1>7, <2>1, SavesStep
<1>8. ASSUME NEW q \in Outcome, NEW o \in Outcome, q = "supported" => after.done = Stages,
             q # "supported" => o # "supported",
             NEW r, r = [after EXCEPT !.status = "completed", !.outcome = o, !.result = q],
             Saves(h, r, "returned")
      PROVE  StepOK(h)
  <2>1. /\ r \in OptimizeRun /\ r.status = "completed" /\ r.done = after.done
        /\ r.outcome = o /\ r.result = q
    BY <1>4, <1>8 DEF OptimizeRun
  <2>2. RunOK(r)
    BY <1>8, <2>1 DEF RunOK, Accepted
  <2> QED
    BY <1>1, <1>2, <1>8, <2>1, <2>2, SavesStep
<1>9. Result \subseteq Outcome
  BY ChatAssumption DEF Outcome
<1> HIDE DEF after
<1> QED
  BY <1>5, <1>6, <1>7, <1>8, <1>9 DEF RunStage, after

LEMMA ReturnedStep ==
  ASSUME ChatInv, NEW h \in Handler, Returned(h)
  PROVE  StepOK(h)
<1> DEFINE q == IF handler[h].token THEN "cancelled" ELSE "run"
<1>1. q \in Purpose /\ "load" \in Step
  BY DEF Purpose, Ending, Step
<1>2. /\ handler'[h] = [handler[h] EXCEPT !.pc = "load", !.purpose = q]
      /\ handler' = [handler EXCEPT ![h] = handler'[h]]
  BY DEF Returned, Goes, ChatInv, TypeOK
<1>3. handler'[h] \in Call
  <2>1. handler[h] \in Call
    BY InvParts
  <2> HIDE DEF q
  <2> QED
    BY <1>1, <1>2, <2>1 DEF Call
<1>4. /\ handler'[h].pc = "load" /\ handler'[h].seen = handler[h].seen
      /\ handler'[h].run = handler[h].run /\ handler'[h].purpose = q
  BY <1>2, InvParts DEF Call
<1>5. HandlerOK(h)'
  BY <1>4, InvParts DEF HandlerOK, IsCopy, CampaignOK, RunOK, Returned, At
<1> QED
  BY <1>2, <1>3, <1>5, QuietStep, InvParts DEF Returned, Others

LEMMA AuditStep ==
  ASSUME ChatInv, NEW h \in Handler, Audit(h)
  PROVE  StepOK(h)
<1> DEFINE seen == handler[h].seen
           n == handler[h].run.audit
           chained == [seen EXCEPT !.audit = n]
<1>1. /\ UNCHANGED Others /\ seen \in CampaignState /\ CampaignOK(seen)
      /\ seen.lifecycle # "none" /\ RunOK(handler[h].run) /\ handler[h].purpose = "run"
      /\ handler[h].run.status \in {"paused", "completed"} /\ handler[h].next = 1
      /\ handler[h].run.done \in Nat /\ n \in Nat /\ handler[h] \in Call
  BY InvParts, CallFields, ChatAssumption DEF Audit, HandlerOK, At, OptimizeRun
<1>2. 1 \in 1..(handler[h].run.done + 1) /\ 1..(1 - 1) = {}
  BY <1>1
<1>3. ASSUME Moves(h, "retain"), UNCHANGED <<stored, registered>>
      PROVE  StepOK(h)
  <2>1. /\ handler'[h] = [handler[h] EXCEPT !.pc = "retain"]
        /\ handler' = [handler EXCEPT ![h] = handler'[h]]
    BY <1>3 DEF Moves, Goes, ChatInv, TypeOK
  <2>2. handler'[h] \in Call
    BY <1>1, <2>1 DEF Call, Step
  <2>3. /\ handler'[h].pc = "retain" /\ handler'[h].seen = seen
        /\ handler'[h].run = handler[h].run /\ handler'[h].purpose = "run"
        /\ handler'[h].next = 1
    BY <1>1, <2>1 DEF Call
  <2>4. HandlerOK(h)'
    <3>1. IsCopy(Root, seen)
      BY InvParts DEF HandlerOK
    <3> QED
      BY <1>1, <1>2, <1>3, <2>3, <3>1 DEF HandlerOK, IsCopy, CampaignOK, RunOK, stored
  <2> QED
    BY <1>1, <1>3, <2>1, <2>2, <2>4, QuietStep, InvParts DEF stored, Others
<1>4. CASE Ends(h, "audit") /\ UNCHANGED stored
  BY <1>1, <1>4, EndsQuietly DEF End
<1>5. CASE Raises(h, chained)
  BY <1>1, <1>5, EndsQuietly DEF Raises, End
<1>6. ASSUME NEW s, s = chained, ~Refused(h, s), Write(Root, s),
             Goes(h, [handler[h] EXCEPT !.seen = Written(s), !.pc = "retain"]),
             UNCHANGED <<archive, lapsed, file, registered>>
      PROVE  StepOK(h)
  <2>1. seen = campaign[Root]
    BY <1>6, SeenIsCurrent
  <2>2. /\ s \in CampaignState /\ s.lifecycle = seen.lifecycle /\ s.version = seen.version
        /\ s.approval = seen.approval /\ s.outcome = seen.outcome
    BY <1>1, <1>6 DEF CampaignState
  <2>3. CampaignOK(s)
    BY <1>1, <2>1, <2>2 DEF CampaignOK
  <2> HIDE DEF chained
  <2>4. /\ StoreOK' /\ Grows /\ ChildStays /\ Written(s) \in CampaignState
        /\ CampaignOK(Written(s)) /\ IsCopy(Root, Written(s))'
        /\ Written(s).lifecycle # "none"
    <3>1. StoreOK /\ campaign[Root].lifecycle # "none" /\ s.version = campaign[Root].version
      BY <1>1, <2>1, <2>2, InvParts
    <3> QED
      BY <1>1, <1>6, <2>2, <2>3, <3>1, WriteIsSafe, RootChild
  <2>5. /\ handler'[h] = [handler[h] EXCEPT !.seen = Written(s), !.pc = "retain"]
        /\ handler' = [handler EXCEPT ![h] = handler'[h]]
    BY <1>6 DEF Goes, ChatInv, TypeOK
  <2>6. handler'[h] \in Call
    BY <1>1, <2>4, <2>5 DEF Call, Step
  <2>7. /\ handler'[h].pc = "retain" /\ handler'[h].seen = Written(s)
        /\ handler'[h].run = handler[h].run /\ handler'[h].purpose = "run"
        /\ handler'[h].next = 1
    BY <1>1, <2>5 DEF Call
  <2>8. HandlerOK(h)'
    <3>1. CampaignOK(handler[h].seen)' /\ IsCopy(Root, handler[h].seen)' /\ RunOK(handler[h].run)'
      <4>1. CampaignOK(handler[h].seen)'
        BY <2>4, <2>7 DEF CampaignOK
      <4>2. IsCopy(Root, handler[h].seen)'
        BY <2>4, <2>7 DEF IsCopy
      <4>3. RunOK(handler[h].run)'
        BY <1>1, <2>7 DEF RunOK
      <4> QED
        BY <4>1, <4>2, <4>3
    <3> QED
      BY <1>1, <1>2, <2>4, <2>7, <3>1 DEF HandlerOK
  <2>9. RunOK(file)'
    BY <1>6, InvParts DEF RunOK
  <2> QED
    BY <1>1, <1>6, <2>4, <2>5, <2>6, <2>8, <2>9, PlainStep, InvParts
<1> QED
  BY <1>3, <1>4, <1>5, <1>6 DEF Audit

\* What a call retains is evidence.
LEMMA EvidenceType ==
  /\ \A run \in OptimizeRun, n \in 0..Stages : StageEvidence(run, n) \in Evidence
  /\ \A run \in OptimizeRun : RunEvidence(run) \in Evidence
  /\ \A why \in Ending : EndEvidence(why) \in Evidence
<1>0. 0 \in 0..Stages /\ NoRun \in OptimizeRun
  BY Absent, ChatAssumption
<1>1. ASSUME NEW run \in OptimizeRun, NEW n \in 0..Stages
      PROVE  StageEvidence(run, n) \in Evidence
  <2> DEFINE result == IF n = run.done THEN run.result ELSE "supported"
  <2>1. result \in Outcome /\ (n = Deciding /\ Accepted(run)) \in BOOLEAN
    BY DEF OptimizeRun, Outcome
  <2>2. [kind |-> "stage", stage |-> n, result |-> result, run |-> NoRun] \in EvidenceId
    BY <1>0, <2>1 DEF EvidenceId
  <2> QED
    BY <2>1, <2>2 DEF StageEvidence, Evidence
<1>2. ASSUME NEW run \in OptimizeRun PROVE RunEvidence(run) \in Evidence
  <2>1. run.outcome \in Outcome /\ Accepted(run) \in BOOLEAN
    BY DEF OptimizeRun, Accepted
  <2>2. [kind |-> "run", stage |-> 0, result |-> run.outcome, run |-> run] \in EvidenceId
    BY <1>0, <2>1 DEF EvidenceId
  <2> QED
    BY <2>1, <2>2 DEF RunEvidence, Evidence
<1>3. ASSUME NEW why \in Ending PROVE EndEvidence(why) \in Evidence
  <2>1. EndOf[why].outcome \in Outcome /\ why \in {"failure", "cancelled", "unsupported"}
    BY DEF EndOf, Ending, Outcome
  <2>2. [kind |-> why, stage |-> 0, result |-> EndOf[why].outcome, run |-> NoRun] \in EvidenceId
    BY <1>0, <2>1 DEF EvidenceId
  <2> QED
    BY <2>1, <2>2 DEF EndEvidence, Evidence
<1> QED
  BY <1>1, <1>2, <1>3

\* The call goes on to its next record once this one is in the archive.
LEMMA NextIsSafe ==
  ASSUME ChatInv, StoreOK', NEW h \in Handler, NEW s \in CampaignState, CampaignOK(s),
         s.lifecycle # "none", IsCopy(Root, s)', At(h, "retain"), RetainNext(h, s),
         archive[Root] \subseteq archive'[Root], ToRetain(h) \in archive'[Root]
  PROVE  /\ handler'[h] \in Call /\ HandlerOK(h)'
         /\ handler' = [handler EXCEPT ![h] = handler'[h]]
<1> DEFINE call == handler[h]
           step == IF IsLast(h) THEN "finish" ELSE "retain"
<1>1. /\ call \in Call /\ call.purpose \in Purpose /\ call.purpose # "work"
      /\ RunOK(call.run) /\ call.next \in Nat /\ call.run.done \in Nat
      /\ call.purpose = "run" => call.run.status \in {"paused", "completed"}
      /\ call.purpose = "run" =>
           /\ call.next \in 1..(call.run.done + 1)
           /\ \A n \in 1..(call.next - 1) : StageEvidence(call.run, n) \in archive[Root]
  BY InvParts, CallFields, ChatAssumption DEF HandlerOK, At, OptimizeRun
<1>2. /\ handler'[h] = [call EXCEPT !.seen = s, !.next = @ + 1, !.pc = step]
      /\ handler' = [handler EXCEPT ![h] = handler'[h]]
  BY DEF RetainNext, Goes, ChatInv, TypeOK
<1>3. step \in Step /\ call.next + 1 \in Nat
  BY <1>1 DEF Step
<1>4. handler'[h] \in Call
  <2> HIDE DEF call, step
  <2> QED
    BY <1>1, <1>2, <1>3 DEF Call
<1>5. /\ handler'[h].pc = step /\ handler'[h].seen = s /\ handler'[h].run = call.run
      /\ handler'[h].purpose = call.purpose /\ handler'[h].next = call.next + 1
  <2> HIDE DEF call, step
  <2> QED
    BY <1>1, <1>2 DEF Call
<1>6. CampaignOK(handler[h].seen)' /\ IsCopy(Root, handler[h].seen)' /\ RunOK(handler[h].run)'
  <2>1. CampaignOK(handler[h].seen)'
    BY <1>5 DEF CampaignOK
  <2>2. IsCopy(Root, handler[h].seen)'
    BY <1>5 DEF IsCopy
  <2>3. RunOK(handler[h].run)'
    BY <1>1, <1>5 DEF RunOK
  <2> QED
    BY <2>1, <2>2, <2>3
<1>7. CASE call.purpose # "run"
  <2>1. step = "finish"
    BY <1>7 DEF IsLast
  <2>2. ToRetain(h) = EndEvidence(call.purpose)
    BY <1>7 DEF ToRetain
  <2> QED
    BY <1>1, <1>2, <1>4, <1>5, <1>6, <1>7, <2>1, <2>2 DEF HandlerOK
<1>8. CASE call.purpose = "run" /\ call.next <= call.run.done
  <2>1. step = "retain" /\ StageEvidence(call.run, call.next) \in archive'[Root]
    BY <1>1, <1>8 DEF IsLast, ToRetain
  <2>2. call.next + 1 \in 1..(call.run.done + 1)
    BY <1>1, <1>8
  <2>3. \A n \in 1..((call.next + 1) - 1) : StageEvidence(call.run, n) \in archive'[Root]
    <3>1. \A n \in 1..((call.next + 1) - 1) : n = call.next \/ n \in 1..(call.next - 1)
      BY <1>1, <1>8
    <3> QED
      BY <1>1, <1>8, <2>1, <3>1
  <2> QED
    BY <1>1, <1>2, <1>4, <1>5, <1>6, <1>8, <2>1, <2>2, <2>3 DEF HandlerOK
<1>9. CASE call.purpose = "run" /\ ~(call.next <= call.run.done)
  <2>1. step = "finish" /\ RunEvidence(call.run) \in archive'[Root]
    BY <1>1, <1>9 DEF IsLast, ToRetain
  <2>2. \A n \in 1..call.run.done : StageEvidence(call.run, n) \in archive'[Root]
    <3>1. \A n \in 1..call.run.done : n \in 1..(call.next - 1)
      BY <1>1, <1>9
    <3> QED
      BY <1>1, <1>9, <3>1
  <2>3. RunRetained(handler[h].run)'
    BY <1>5, <2>1, <2>2 DEF RunRetained
  <2> QED
    BY <1>1, <1>2, <1>4, <1>5, <1>6, <1>9, <2>1, <2>3 DEF HandlerOK
<1> QED
  BY <1>7, <1>8, <1>9

LEMMA RetainStep ==
  ASSUME ChatInv, NEW h \in Handler, Retain(h)
  PROVE  StepOK(h)
<1> DEFINE call == handler[h]
<1>0. PICK s : s = handler[h].seen
  OBVIOUS
<1>1. /\ UNCHANGED Others /\ At(h, "retain") /\ s \in CampaignState /\ CampaignOK(s)
      /\ s.lifecycle # "none" /\ call \in Call /\ StoreOK
      /\ campaign[Root] \in CampaignState /\ CampaignOK(campaign[Root]) /\ IsCopy(Root, s)
  BY <1>0, InvParts, CallFields DEF Retain, HandlerOK, At
<1>2. PICK e : e = ToRetain(h)
  OBVIOUS
<1>3. e \in Evidence
  <2>1. /\ call.purpose \in Purpose /\ call.purpose # "work" /\ call.run \in OptimizeRun
        /\ call.next \in Nat /\ call.run.done \in 0..Stages
        /\ call.purpose = "run" => call.next >= 1
    BY <1>1, InvParts, CallFields DEF HandlerOK, At, OptimizeRun
  <2>2. CASE call.purpose # "run"
    <3>1. call.purpose \in Ending
      BY <2>1, <2>2 DEF Purpose
    <3>2. e = EndEvidence(call.purpose)
      BY <1>2, <2>2 DEF ToRetain
    <3> QED
      BY <3>1, <3>2, EvidenceType
  <2>3. CASE call.purpose = "run" /\ call.next <= call.run.done
    <3>1. call.next \in 0..Stages
      BY <2>1, <2>3, ChatAssumption
    <3>2. e = StageEvidence(call.run, call.next)
      BY <1>2, <2>3 DEF ToRetain
    <3> QED
      BY <2>1, <3>1, <3>2, EvidenceType
  <2>4. CASE call.purpose = "run" /\ ~(call.next <= call.run.done)
    <3>1. e = RunEvidence(call.run)
      BY <1>2, <2>4 DEF ToRetain
    <3> QED
      BY <2>1, <3>1, EvidenceType
  <2> QED
    BY <2>2, <2>3, <2>4
<1>4. CASE Retained(Root, e) /\ RetainNext(h, campaign[Root])
           /\ UNCHANGED <<stored, registered>>
  <2>1. StoreOK' /\ archive' = archive /\ campaign' = campaign
    BY <1>1, <1>4, StoreStays DEF stored
  <2>2. campaign[Root].lifecycle # "none"
    <3>1. CASE campaign[Root].lifecycle = "none"
      <4>1. campaign[Root].version = -1
        BY <1>1, <3>1 DEF CampaignOK, NoCampaign
      <4>2. s.version >= 0 /\ s.version <= campaign[Root].version /\ s.version \in Int
        BY <1>1 DEF CampaignOK, IsCopy, CampaignState
      <4> QED
        BY <4>1, <4>2
    <3> QED
      BY <3>1
  <2>3. IsCopy(Root, campaign[Root])'
    BY <1>1, <2>1 DEF IsCopy, CampaignState
  <2>4. e \in archive'[Root] /\ archive[Root] \subseteq archive'[Root]
    BY <1>4, <2>1 DEF Retained
  <2>5. /\ handler'[h] \in Call /\ HandlerOK(h)'
        /\ handler' = [handler EXCEPT ![h] = handler'[h]]
    <3>1. \A r \in CampaignState :
            CampaignOK(r) /\ r.lifecycle # "none" /\ IsCopy(Root, r)' /\ RetainNext(h, r) =>
              /\ handler'[h] \in Call /\ HandlerOK(h)'
              /\ handler' = [handler EXCEPT ![h] = handler'[h]]
      BY <1>1, <1>2, <2>1, <2>4, NextIsSafe
    <3> QED
      BY <1>1, <1>4, <2>1, <2>2, <2>3, <3>1
  <2> QED
    BY <1>1, <1>4, <2>5, QuietStep, InvParts DEF stored, Others
<1>5. CASE Ends(h, "conflict") /\ UNCHANGED stored
  BY <1>1, <1>5, EndsQuietly DEF End
<1>6. CASE Raises(h, s)
  BY <1>1, <1>6, EndsQuietly DEF Raises, End
<1>7. ASSUME ~Conflict(Root, e), ~Retained(Root, e), ~Refused(h, s),
             archive' = [archive EXCEPT ![Root] = @ \cup {e}],
             Write(Root, s), RetainNext(h, Written(s)), UNCHANGED <<lapsed, file, registered>>
      PROVE  StepOK(h)
  <2>1. s = campaign[Root]
    BY <1>0, <1>7, SeenIsCurrent
  <2>2. /\ StoreOK' /\ Grows /\ ChildStays /\ Written(s) \in CampaignState
        /\ CampaignOK(Written(s)) /\ IsCopy(Root, Written(s))'
        /\ Written(s).lifecycle # "none"
    <3>1. campaign[Root].lifecycle # "none" /\ s.version = campaign[Root].version
      BY <1>1, <2>1
    <3> QED
      BY <1>1, <1>7, <3>1, WriteIsSafe, RootChild
  <2>3. /\ archive' \in [Campaign -> SUBSET Evidence] /\ Gains
        /\ archive'[Root] = archive[Root] \cup {e}
        /\ \A c \in Campaign : c # Root => archive'[c] = archive[c]
    BY <1>3, <1>7, InvParts, RootChild DEF Gains
  <2>4. OneRecordPerId'
    <3>1. \A d \in archive[Root] : d.id # e.id
      BY <1>7 DEF Conflict
    <3>2. OneRecordPerId
      BY InvParts
    <3>3. \A d, f \in archive'[Root] : d.id = f.id => d = f
      BY <2>3, <3>1, <3>2, RootChild DEF OneRecordPerId
    <3>4. \A c \in Campaign : c # Root =>
            \A d, f \in archive'[c] : d.id = f.id => d = f
      BY <2>3, <3>2 DEF OneRecordPerId
    <3> QED
      BY <3>3, <3>4 DEF OneRecordPerId
  <2>5. /\ handler'[h] \in Call /\ HandlerOK(h)'
        /\ handler' = [handler EXCEPT ![h] = handler'[h]]
    <3>1. e \in archive'[Root] /\ archive[Root] \subseteq archive'[Root]
      BY <2>3
    <3>0. PICK w : w = Written(s)
      OBVIOUS
    <3>2. w \in CampaignState /\ CampaignOK(w) /\ w.lifecycle # "none" /\ RetainNext(h, w)
      BY <1>7, <2>2, <3>0
    <3>3. IsCopy(Root, w)'
      BY <2>2, <3>0
    <3> QED
      BY <1>1, <1>2, <2>2, <3>1, <3>2, <3>3, NextIsSafe
  <2>6. RunOK(file)' /\ file' \in OptimizeRun
    BY <1>7, InvParts DEF RunOK
  <2> QED
    BY <1>1, <1>7, <2>2, <2>3, <2>4, <2>5, <2>6, InvParts DEF StepOK, Others
<1> HIDE DEF call
<1> QED
  BY <1>0, <1>2, <1>4, <1>5, <1>6, <1>7 DEF Retain

\* What a call may end as.
LEMMA EndsAsIs ==
  ASSUME NEW call, call.purpose \in Purpose, call.purpose # "work",
         call.run \in OptimizeRun, RunOK(call.run),
         call.purpose = "run" => call.run.status \in {"paused", "completed"}
  PROVE  LET to == EndsAs(call)
         IN  /\ to.lifecycle \in {"paused", "completed", "failed", "cancelled"}
             /\ to.outcome \in Outcome
             /\ to.lifecycle \notin {"completed", "failed"} => to.outcome = "unknown"
             /\ to.lifecycle = "failed" => to.outcome = "failed"
<1> DEFINE to == EndsAs(call)
<1>1. CASE call.purpose = "run"
  <2>1. to = [lifecycle |-> IF call.run.status = "paused" THEN "paused" ELSE "completed",
              outcome |-> call.run.outcome]
    BY <1>1 DEF EndsAs
  <2>2. call.run.outcome \in Outcome
    BY DEF OptimizeRun
  <2>3. call.run.status = "paused" => call.run.outcome = "unknown"
    BY DEF RunOK
  <2> QED
    BY <1>1, <2>1, <2>2, <2>3
<1>2. CASE call.purpose # "run"
  <2>1. to = EndOf[call.purpose] /\ call.purpose \in {"failure", "cancelled", "unsupported"}
    BY <1>2 DEF EndsAs, Purpose, Ending
  <2> QED
    BY <2>1 DEF EndOf, Outcome
<1> QED
  BY <1>1, <1>2

LEMMA FinishStep ==
  ASSUME ChatInv, NEW h \in Handler, Finish(h)
  PROVE  StepOK(h)
<1> DEFINE call == handler[h]
           seen == call.seen
           to == EndsAs(call)
<1>1. /\ UNCHANGED Others /\ seen \in CampaignState /\ CampaignOK(seen)
      /\ seen.lifecycle # "none" /\ call \in Call /\ StoreOK /\ call.purpose \in Purpose
      /\ call.purpose # "work" /\ call.run \in OptimizeRun /\ RunOK(call.run)
      /\ call.purpose = "run" => call.run.status \in {"paused", "completed"}
  BY InvParts, CallFields DEF Finish, HandlerOK, At
<1>2. CASE Ends(h, "retained") /\ UNCHANGED stored
  BY <1>1, <1>2, EndsQuietly DEF End
<1>3. ASSUME NEW s, Raises(h, s)
      PROVE  StepOK(h)
  BY <1>1, <1>3, EndsQuietly DEF Raises, End
<1>4. ASSUME NEW s, s = [seen EXCEPT !.lifecycle = to.lifecycle, !.outcome = to.outcome],
             ~Refused(h, s), Write(Root, s), Ends(h, "retained"),
             UNCHANGED <<archive, lapsed, file>>
      PROVE  StepOK(h)
  <2>1. seen = campaign[Root]
    BY <1>4, SeenIsCurrent
  <2>2. /\ to.lifecycle \in {"paused", "completed", "failed", "cancelled"}
        /\ to.outcome \in Outcome
        /\ to.lifecycle \notin {"completed", "failed"} => to.outcome = "unknown"
        /\ to.lifecycle = "failed" => to.outcome = "failed"
    BY <1>1, EndsAsIs
  <2> HIDE DEF to
  <2>3. /\ s \in CampaignState /\ s.lifecycle = to.lifecycle /\ s.outcome = to.outcome
        /\ s.version = seen.version /\ s.approval = seen.approval
    BY <1>1, <1>4, <2>2 DEF CampaignState, Lifecycle
  <2>4. CampaignOK(s) /\ s.lifecycle # "none"
    BY <1>1, <2>2, <2>3 DEF CampaignOK
  <2>5. StoreOK' /\ Grows /\ ChildStays
    BY <1>1, <1>4, <2>1, <2>3, <2>4, WriteIsSafe, RootChild
  <2> QED
    BY <1>1, <1>4, <2>5, EndsAfterWrite DEF End
<1> QED
  BY <1>2, <1>3, <1>4 DEF Finish

\* A call that times out, or that the operator signals, knows what it knew.
LEMMA SignalKeeps ==
  ASSUME ChatInv, NEW h \in Handler, campaign' = campaign, archive' = archive,
         NEW token \in BOOLEAN, NEW pause \in BOOLEAN,
         handler'[h] = [handler[h] EXCEPT !.token = token, !.pause = pause]
  PROVE  handler'[h] \in Call /\ HandlerOK(h)'
<1>1. handler'[h] \in Call
  BY InvParts DEF Call
<1>2. /\ handler'[h].pc = handler[h].pc /\ handler'[h].seen = handler[h].seen
      /\ handler'[h].run = handler[h].run /\ handler'[h].purpose = handler[h].purpose
      /\ handler'[h].next = handler[h].next
  BY InvParts DEF Call
<1>3. HandlerOK(h)'
  BY <1>2, InvParts DEF HandlerOK, IsCopy, CampaignOK, RunOK, RunRetained
<1> QED
  BY <1>1, <1>3

LEMMA TimeOutStep ==
  ASSUME ChatInv, NEW h \in Handler, TimeOut(h)
  PROVE  StepOK(h)
<1>1. /\ handler'[h] = [handler[h] EXCEPT !.token = TRUE]
      /\ handler' = [handler EXCEPT ![h] = handler'[h]]
  BY DEF TimeOut, Goes, ChatInv, TypeOK
<1>2. handler[h].pause \in BOOLEAN
  BY InvParts DEF Call
<1>3. handler'[h] = [handler[h] EXCEPT !.token = TRUE, !.pause = handler[h].pause]
  BY <1>1, InvParts DEF Call
<1>4. handler'[h] \in Call /\ HandlerOK(h)'
  <2>1. campaign' = campaign /\ archive' = archive
    BY DEF TimeOut, stored
  <2>2. PICK q \in BOOLEAN : q = handler[h].pause
    BY <1>2
  <2> QED
    BY <1>3, <2>1, <2>2, SignalKeeps
<1>5. events' \in Nat
  BY InvParts DEF TimeOut, Happens
<1> QED
  BY <1>1, <1>4, <1>5, QuietStep, InvParts DEF TimeOut, stored

LEMMA ExecuteStep ==
  ASSUME ChatInv, NEW h \in Handler, NEW resume \in BOOLEAN, Execute(h, resume)
  PROVE  StepOK(h)
<1> DEFINE p == IF supported THEN "work" ELSE "unsupported"
<1>1. /\ handler'[h] = [Idle EXCEPT !.pc = "load", !.resume = resume, !.purpose = p]
      /\ handler' = [handler EXCEPT ![h] = handler'[h]]
  BY DEF Execute, Goes, ChatInv, TypeOK
<1>2. p \in Purpose /\ "load" \in Step /\ p # "run" /\ "none" \in End
  BY DEF Purpose, Ending, Step, End
<1> HIDE DEF p
<1>3. /\ handler'[h].pc = "load" /\ handler'[h].seen = NoCampaign
      /\ handler'[h].run = NoRun /\ handler'[h].purpose = p
  BY <1>1 DEF Idle
<1>4. handler'[h] \in Call
  <2>1. handler'[h] = [pc |-> "load", purpose |-> p, resume |-> resume,
                       seen |-> NoCampaign, run |-> NoRun, next |-> 0, token |-> FALSE,
                       pause |-> FALSE, end |-> "none"]
    BY <1>1 DEF Idle
  <2>2. NoCampaign \in CampaignState /\ NoRun \in OptimizeRun
    BY Absent
  <2>3. \A q \in Purpose, s \in CampaignState, r \in OptimizeRun :
          [pc |-> "load", purpose |-> q, resume |-> resume, seen |-> s, run |-> r,
           next |-> 0, token |-> FALSE, pause |-> FALSE, end |-> "none"] \in Call
    BY <1>2 DEF Call
  <2> QED
    BY <1>2, <2>1, <2>2, <2>3
<1>5. HandlerOK(h)'
  <2>1. IsCopy(Root, NoCampaign)'
    BY CopyOfNone, RootChild, InvParts DEF IsCopy, Execute, stored
  <2> QED
    BY <1>2, <1>3, <2>1, Absent DEF HandlerOK, CampaignOK, RunOK, IsCopy
<1>6. /\ calls' \in Nat /\ registered' \subseteq Handler /\ answered' \in BOOLEAN
      /\ campaign' = campaign /\ archive' = archive /\ lapsed' = lapsed /\ file' = file
  BY InvParts DEF Execute, stored
<1>7. StoreOK' /\ Grows /\ Gains /\ ChildStays
  BY <1>6, StoreStays, InvParts
<1>8. OneRecordPerId' /\ RunOK(file)'
  BY <1>6, InvParts DEF OneRecordPerId, RunOK
<1> QED
  BY <1>1, <1>4, <1>5, <1>6, <1>7, <1>8, InvParts DEF Execute, StepOK

\* The step of one call keeps the whole invariant.
LEMMA StepIsSafe ==
  ASSUME ChatInv, NEW h \in Handler, StepOK(h)
  PROVE  ChatInv'
<1>1. /\ StoreOK /\ StoreOK' /\ Grows /\ Gains /\ ChildStays
      /\ command' = command /\ replan' = replan
  BY InvParts DEF StepOK
<1>2. /\ handler' \in [Handler -> Call]
      /\ \A g \in Handler : g # h => handler'[g] = handler[g]
  <2>1. /\ handler \in [Handler -> Call] /\ handler'[h] \in Call
        /\ handler' = [handler EXCEPT ![h] = handler'[h]]
    BY DEF ChatInv, TypeOK, StepOK
  <2> QED
    BY <2>1
<1>3. \A g \in Handler : HandlerOK(g)'
  <2>1. ASSUME NEW g \in Handler, g # h PROVE HandlerOK(g)'
    BY <1>1, <1>2, <2>1, InvParts, HandlerStays
  <2> QED
    BY <2>1 DEF StepOK
<1>4. CommandOK'
  BY <1>1, CommandStays DEF ChatInv, TypeOK
<1>5. ReplanOK'
  BY <1>1, ReplanStays DEF ChatInv, TypeOK
<1>6. TypeOK'
  BY <1>1, <1>2 DEF ChatInv, TypeOK, StepOK, StoreOK
<1> QED
  BY <1>1, <1>3, <1>4, <1>5, <1>6 DEF ChatInv, StepOK, StoreOK

\* The step of a command or of a replan: the calls and their archive stand by.
LEMMA AsideIsSafe ==
  ASSUME ChatInv, StoreOK', Grows, archive' = archive, file' = file,
         lapsed' \subseteq Campaign, UNCHANGED <<supported, calls>>, answered' \in BOOLEAN,
         handler' \in [Handler -> Call], \A h \in Handler : HandlerOK(h)',
         registered' \subseteq Handler, events' \in Nat,
         command' \in [pc : {"idle", "read", "write", "expire"}, on : Campaign,
                       kind : {"pause", "resume", "cancel"}, seen : CampaignState],
         replan' \in [pc : {"none", "proposed", "request", "derive"}, seen : CampaignState],
         CommandOK', ReplanOK'
  PROVE  ChatInv'
<1>1. OneRecordPerId' /\ RunOK(file)'
  BY DEF ChatInv, OneRecordPerId, RunOK
<1>2. TypeOK'
  BY DEF ChatInv, TypeOK, StoreOK
<1> QED
  BY <1>1, <1>2 DEF ChatInv, StoreOK

LEMMA CallsStandBy ==
  ASSUME ChatInv, StoreOK', Grows, archive' = archive, handler' = handler
  PROVE  handler' \in [Handler -> Call] /\ \A h \in Handler : HandlerOK(h)'
<1>1. Gains
  BY DEF Gains
<1>2. ASSUME NEW h \in Handler PROVE HandlerOK(h)'
  BY <1>1, InvParts, HandlerStays DEF ChatInv, StoreOK, TypeOK
<1> QED
  BY <1>2 DEF ChatInv, TypeOK

\* Those who have nothing in hand.
LEMMA IdleCommand ==
  ASSUME StoreOK', NEW c \in Campaign, NEW kind \in {"pause", "resume", "cancel"},
         NEW pc \in {"idle", "read"},
         command' = [pc |-> pc, on |-> c, kind |-> kind, seen |-> NoCampaign]
  PROVE  /\ command' \in [pc : {"idle", "read", "write", "expire"}, on : Campaign,
                          kind : {"pause", "resume", "cancel"}, seen : CampaignState]
         /\ CommandOK'
<1>1. NoCampaign \in CampaignState /\ CampaignOK(NoCampaign)
  BY Absent
<1>2. IsCopy(c, NoCampaign)'
  <2>1. campaign'[c] \in CampaignState /\ CampaignOK(campaign'[c])
    BY DEF StoreOK, CampaignOK
  <2>2. NoCampaign.version = -1 /\ campaign'[c].version \in Int
    BY <2>1 DEF NoCampaign, CampaignState
  <2> QED
    BY <2>1, <2>2 DEF IsCopy, CampaignOK
<1>3. CommandOK'
  BY <1>1, <1>2 DEF CommandOK, CampaignOK, IsCopy
<1> QED
  BY <1>1, <1>3

LEMMA IdleReplan ==
  ASSUME StoreOK', replan' = [pc |-> "none", seen |-> NoCampaign]
  PROVE  /\ replan' \in [pc : {"none", "proposed", "request", "derive"}, seen : CampaignState]
         /\ ReplanOK'
<1>1. NoCampaign \in CampaignState /\ CampaignOK(NoCampaign)
  BY Absent
<1>2. IsCopy(Root, NoCampaign)'
  <2>1. campaign'[Root] \in CampaignState /\ CampaignOK(campaign'[Root])
    BY RootChild DEF StoreOK, CampaignOK
  <2>2. NoCampaign.version = -1 /\ campaign'[Root].version \in Int
    BY <2>1 DEF NoCampaign, CampaignState
  <2> QED
    BY <2>1, <2>2 DEF IsCopy, CampaignOK
<1> QED
  BY <1>1, <1>2 DEF ReplanOK, CampaignOK, IsCopy

-----------------------------------------------------------------------------
\* The actions of the others.

LEMMA AskStep ==
  ASSUME ChatInv, NEW c \in Campaign, NEW kind \in {"pause", "resume", "cancel"},
         Ask(kind, c)
  PROVE  ChatInv'
<1>1. /\ campaign' = campaign /\ archive' = archive /\ replan' = replan /\ StoreOK
      /\ UNCHANGED <<lapsed, file, supported, registered, answered, calls>>
      /\ events' \in Nat
  BY DEF Ask, Bystanders, ChatInv, TypeOK, StoreOK, Happens
<1>2. StoreOK' /\ Grows /\ ChildStays
  BY <1>1, StoreStays
<1>3. ASSUME NEW h \in Handler PROVE handler'[h] \in Call /\ HandlerOK(h)'
  <2>1. handler[h] \in Call /\ HandlerOK(h)
    BY InvParts
  <2>2. CASE handler'[h] = handler[h]
    BY <1>1, <2>1, <2>2 DEF HandlerOK, IsCopy, CampaignOK, RunOK, RunRetained
  <2>3. CASE handler'[h] = [handler[h] EXCEPT !.pause = @ \/ kind = "pause",
                                              !.token = @ \/ kind = "cancel"]
    <3>1. PICK q \in BOOLEAN, t \in BOOLEAN :
            /\ q = (handler[h].pause \/ kind = "pause")
            /\ t = (handler[h].token \/ kind = "cancel")
      BY <2>1 DEF Call
    <3>2. handler'[h] = [handler[h] EXCEPT !.token = t, !.pause = q]
      BY <2>1, <2>3, <3>1 DEF Call
    <3> QED
      BY <1>1, <3>2, SignalKeeps
  <2> QED
    BY <2>2, <2>3 DEF Ask, Signalled
<1>4. handler' \in [Handler -> Call] /\ \A h \in Handler : HandlerOK(h)'
  <2>1. CASE c # Root
    BY <1>3, <2>1 DEF Ask, Signalled, ChatInv, TypeOK
  <2>2. CASE c = Root
    <3>1. handler' = [h \in Handler |-> handler'[h]]
      BY <2>2 DEF Ask, Signalled
    <3> QED
      BY <1>3, <3>1
  <2> QED
    BY <2>1, <2>2
<1>5. command' = [pc |-> "read", on |-> c, kind |-> kind, seen |-> NoCampaign]
  BY DEF Ask
<1>6. /\ command' \in [pc : {"idle", "read", "write", "expire"}, on : Campaign,
                       kind : {"pause", "resume", "cancel"}, seen : CampaignState]
      /\ CommandOK'
  BY <1>2, <1>5, IdleCommand
<1>7. ReplanOK' /\ replan' \in [pc : {"none", "proposed", "request", "derive"},
                               seen : CampaignState]
  BY <1>1, <1>2, ReplanStays DEF ChatInv, TypeOK
<1> QED
  BY <1>1, <1>2, <1>4, <1>6, <1>7, AsideIsSafe DEF ChatInv, TypeOK

\* A command or a replan moves on, and the store may have been written.
LEMMA CommandMoves ==
  ASSUME ChatInv, StoreOK', Grows, ChildStays, NEW s \in CampaignState,
         NEW pc \in {"idle", "write", "expire"}, Commanded(pc, s), CommandOK',
         UNCHANGED <<handler, events, Bystanders>>
  PROVE  ChatInv'
<1>1. command' = [command EXCEPT !.pc = pc, !.seen = s]
  BY DEF Commanded
<1>2. command' \in [pc : {"idle", "read", "write", "expire"}, on : Campaign,
                    kind : {"pause", "resume", "cancel"}, seen : CampaignState]
  BY <1>1 DEF ChatInv, TypeOK
<1>3. ReplanOK' /\ replan' \in [pc : {"none", "proposed", "request", "derive"},
                               seen : CampaignState]
  BY ReplanStays DEF ChatInv, TypeOK, StoreOK, Bystanders
<1> QED
  BY <1>2, <1>3, AsideIsSafe, CallsStandBy DEF ChatInv, TypeOK, Bystanders

LEMMA CommandFields ==
  ASSUME ChatInv
  PROVE  /\ command.on \in Campaign /\ command.kind \in {"pause", "resume", "cancel"}
         /\ command.seen \in CampaignState /\ CampaignOK(command.seen)
         /\ IsCopy(command.on, command.seen)
         /\ \A s, pc : command' = [command EXCEPT !.pc = pc, !.seen = s] =>
              /\ command'.on = command.on /\ command'.kind = command.kind
              /\ command'.pc = pc /\ command'.seen = s
BY DEF ChatInv, TypeOK, CommandOK

LEMMA CommandRests ==
  ASSUME ChatInv, StoreOK', Commanded("idle", NoCampaign)
  PROVE  CommandOK'
<1>1. /\ command'.on = command.on /\ command'.pc = "idle" /\ command'.seen = NoCampaign
      /\ command.on \in Campaign
  BY CommandFields DEF Commanded
<1>2. IsCopy(command.on, NoCampaign)'
  <2>1. campaign'[command.on] \in CampaignState /\ CampaignOK(campaign'[command.on])
    BY <1>1 DEF StoreOK, CampaignOK
  <2>2. NoCampaign.version = -1 /\ campaign'[command.on].version \in Int
    BY <2>1 DEF NoCampaign, CampaignState
  <2>3. campaign'[command.on].version >= -1
    BY <2>1, <2>2 DEF CampaignOK
  <2>4. campaign'[command.on].version = -1 => campaign'[command.on] = NoCampaign
    BY <2>1, <2>2 DEF CampaignOK
  <2> QED
    BY <1>1, <2>2, <2>3, <2>4 DEF IsCopy
<1> QED
  BY <1>1, <1>2, Absent DEF CommandOK, CampaignOK, IsCopy

LEMMA ReadCommandedStep ==
  ASSUME ChatInv, ReadCommanded
  PROVE  ChatInv'
<1> DEFINE c == command.on
           s == campaign[c]
           to == Target[command.kind]
           legal == s.lifecycle \notin {"none", to} /\ Allowed(s.lifecycle, to)
           approved == command.kind # "resume" \/ Active(c, s)
           expires == /\ command.kind = "resume" /\ (legal \/ s.lifecycle = to)
                      /\ ~approved /\ s.approval = "approved"
<1>1. /\ campaign' = campaign /\ archive' = archive /\ StoreOK /\ c \in Campaign
      /\ s \in CampaignState /\ CampaignOK(s)
      /\ command.kind \in {"pause", "resume", "cancel"}
      /\ UNCHANGED <<handler, events, Bystanders>>
  BY CommandFields DEF ReadCommanded, Bystanders, ChatInv, TypeOK, StoreOK
<1>2. StoreOK' /\ Grows /\ ChildStays
  BY <1>1, StoreStays
<1>3. ASSUME NEW pc \in {"write", "expire"}, Commanded(pc, s)
      PROVE  /\ command'.on = c /\ command'.kind = command.kind /\ command'.pc = pc
             /\ command'.seen = s /\ IsCopy(command.on, command.seen)'
             /\ CampaignOK(command.seen)'
  <2>1. /\ command'.on = c /\ command'.kind = command.kind /\ command'.pc = pc
        /\ command'.seen = s
    BY <1>3, CommandFields DEF Commanded
  <2> QED
    BY <1>1, <2>1 DEF IsCopy, CampaignOK, CampaignState
<1>4. CASE legal /\ approved /\ Commanded("write", s)
  <2>1. command.kind = "resume" => s.approval = "approved"
    BY <1>4 DEF Active
  <2>2. CommandOK'
    BY <1>3, <1>4, <2>1 DEF CommandOK
  <2> QED
    BY <1>1, <1>2, <1>4, <2>2, CommandMoves
<1>5. CASE expires /\ Commanded("expire", s)
  <2>1. s.lifecycle \in {"created", "running", "paused"} /\ s.approval = "approved"
    <3>1. to = "running"
      BY <1>5 DEF Target
    <3> QED
      BY <1>1, <1>5, <3>1 DEF Allowed
  <2>2. CommandOK'
    BY <1>3, <1>5, <2>1 DEF CommandOK
  <2> QED
    BY <1>1, <1>2, <1>5, <2>2, CommandMoves
<1>6. CASE Commanded("idle", NoCampaign)
  BY <1>1, <1>2, <1>6, CommandRests, CommandMoves, Absent
<1> QED
  BY <1>4, <1>5, <1>6 DEF ReadCommanded

LEMMA CommitsStep ==
  ASSUME ChatInv, NEW s \in CampaignState, Commits(s), s.lifecycle # "none", CampaignOK(s),
         s.version = command.seen.version, command.seen.lifecycle # "none"
  PROVE  ChatInv'
<1>1. /\ UNCHANGED <<handler, events, Bystanders>> /\ Commanded("idle", NoCampaign)
      /\ StoreOK /\ archive' = archive
  BY DEF Commits, Bystanders, ChatInv, TypeOK, StoreOK
<1>2. CASE Current(command.on, command.seen) /\ Write(command.on, s)
  <2>1. command.seen = campaign[command.on] /\ command.on \in Campaign
    BY <1>2, CommandFields DEF Current, IsCopy
  <2>2. StoreOK' /\ Grows /\ ChildStays
    BY <1>1, <1>2, <2>1, WriteIsSafe
  <2> QED
    BY <1>1, <2>2, CommandRests, CommandMoves, Absent
<1>3. CASE UNCHANGED campaign
  <2>1. StoreOK' /\ Grows /\ ChildStays
    BY <1>1, <1>3, StoreStays
  <2> QED
    BY <1>1, <2>1, CommandRests, CommandMoves, Absent
<1> QED
  BY <1>2, <1>3 DEF Commits

LEMMA WriteCommandedStep ==
  ASSUME ChatInv, WriteCommanded
  PROVE  ChatInv'
<1> DEFINE seen == command.seen
           to == Target[command.kind]
<1>1. /\ seen \in CampaignState /\ CampaignOK(seen) /\ seen.lifecycle # "none"
      /\ Allowed(seen.lifecycle, to) /\ seen.lifecycle # to
  BY CommandFields DEF WriteCommanded, ChatInv, CommandOK
<1>0. to \in {"paused", "running", "cancelled"}
  <2>1. PICK k \in {"pause", "resume", "cancel"} : k = command.kind
    BY CommandFields
  <2> QED
    BY <2>1 DEF Target
<1>2. PICK s : s = [seen EXCEPT !.lifecycle = to]
  OBVIOUS
<1> HIDE DEF to
<1>3. /\ s \in CampaignState /\ s.lifecycle = to /\ s.version = seen.version
      /\ s.outcome = seen.outcome /\ s.approval = seen.approval
  BY <1>0, <1>1, <1>2 DEF CampaignState, Lifecycle
<1>4. CampaignOK(s)
  BY <1>0, <1>1, <1>3 DEF CampaignOK, Allowed
<1> QED
  <2>1. Commits(s)
    BY <1>2 DEF WriteCommanded, to
  <2>2. s.lifecycle # "none" /\ s.version = command.seen.version
    BY <1>0, <1>3
  <2> QED
    BY <1>1, <1>3, <1>4, <2>1, <2>2, CommitsStep

LEMMA ExpireCommandedStep ==
  ASSUME ChatInv, ExpireCommanded
  PROVE  ChatInv'
<1> DEFINE seen == command.seen
<1>1. /\ seen \in CampaignState /\ CampaignOK(seen)
      /\ seen.lifecycle \in {"created", "running", "paused"}
  BY CommandFields DEF ExpireCommanded, ChatInv, CommandOK
<1>2. PICK s : s = [seen EXCEPT !.lifecycle = "paused", !.approval = "expired",
                      !.reuse = "reusable", !.uses = 0, !.audit = 0, !.bound = FALSE]
  OBVIOUS
<1>3. /\ s \in CampaignState /\ s.lifecycle = "paused" /\ s.version = seen.version
      /\ s.outcome = seen.outcome /\ s.approval = "expired"
  BY <1>1, <1>2 DEF CampaignState, Lifecycle
<1>4. CampaignOK(s)
  BY <1>1, <1>3 DEF CampaignOK
<1> QED
  BY <1>1, <1>2, <1>3, <1>4, CommitsStep DEF ExpireCommanded

LEMMA ReplanFields ==
  ASSUME ChatInv
  PROVE  /\ replan.seen \in CampaignState /\ CampaignOK(replan.seen)
         /\ IsCopy(Root, replan.seen) /\ StoreOK
         /\ replan.pc # "none" =>
              replan.seen.lifecycle # "none" /\ campaign[Child].lifecycle = "none"
BY DEF ChatInv, TypeOK, ReplanOK, StoreOK

LEMMA ReplanMoves ==
  ASSUME ChatInv, StoreOK', Grows, NEW s \in CampaignState,
         NEW pc \in {"none", "proposed", "request", "derive"}, Replanned(pc, s), ReplanOK',
         UNCHANGED Onlookers, events' \in Nat
  PROVE  ChatInv'
<1>1. CommandOK' /\ command' \in [pc : {"idle", "read", "write", "expire"}, on : Campaign,
        kind : {"pause", "resume", "cancel"}, seen : CampaignState]
  BY CommandStays DEF ChatInv, TypeOK, StoreOK, Onlookers
<1>2. replan' \in [pc : {"none", "proposed", "request", "derive"}, seen : CampaignState]
  BY DEF Replanned
<1> QED
  BY <1>1, <1>2, AsideIsSafe, CallsStandBy DEF ChatInv, TypeOK, Onlookers

LEMMA ReplanRests ==
  ASSUME ChatInv, StoreOK', Grows, Replanned("none", NoCampaign), UNCHANGED Onlookers,
         events' \in Nat
  PROVE  ChatInv'
BY IdleReplan, ReplanMoves, Absent DEF Replanned

LEMMA ProposeStep ==
  ASSUME ChatInv, Propose
  PROVE  ChatInv'
<1>1. /\ UNCHANGED Onlookers /\ campaign' = campaign /\ archive' = archive
      /\ Replanned("proposed", campaign[Root]) /\ events' \in Nat
      /\ campaign[Root].lifecycle # "none" /\ campaign[Child].lifecycle = "none"
  BY DEF Propose, Onlookers, Happens, ChatInv, TypeOK
<1>2. campaign[Root] \in CampaignState /\ CampaignOK(campaign[Root])
  BY RootChild DEF ChatInv, TypeOK
<1>3. StoreOK' /\ Grows
  BY <1>1, StoreStays, ReplanFields
<1>4. ReplanOK'
  BY <1>1, <1>2 DEF ReplanOK, Replanned, IsCopy, CampaignOK, CampaignState
<1> QED
  BY <1>1, <1>2, <1>3, <1>4, ReplanMoves

LEMMA ApplyStep ==
  ASSUME ChatInv, Apply
  PROVE  ChatInv'
<1>1. /\ UNCHANGED Onlookers /\ campaign' = campaign /\ archive' = archive
      /\ events' \in Nat /\ replan.pc = "proposed"
  BY DEF Apply, Onlookers, ChatInv, TypeOK
<1>2. StoreOK' /\ Grows
  BY <1>1, StoreStays, ReplanFields
<1>3. CASE Replanned("request", replan.seen)
  <2>1. ReplanOK'
    BY <1>1, <1>3, ReplanFields DEF ReplanOK, Replanned, IsCopy, CampaignOK
  <2> QED
    BY <1>1, <1>2, <1>3, <2>1, ReplanFields, ReplanMoves
<1>4. CASE Replanned("none", NoCampaign)
  BY <1>1, <1>2, <1>4, ReplanRests
<1> QED
  BY <1>3, <1>4 DEF Apply

LEMMA RequestStep ==
  ASSUME ChatInv, Request
  PROVE  ChatInv'
<1>1. /\ UNCHANGED Onlookers /\ archive' = archive /\ events' \in Nat
      /\ replan.pc = "request"
  BY DEF Request, Onlookers, ChatInv, TypeOK
<1>2. CASE Current(Root, replan.seen) /\ Write(Root, replan.seen)
           /\ Replanned("derive", replan.seen)
  <2>0. PICK s : s = replan.seen
    OBVIOUS
  <2>1. /\ s = campaign[Root] /\ s \in CampaignState /\ CampaignOK(s)
        /\ s.lifecycle # "none" /\ campaign[Child].lifecycle = "none"
        /\ IsCopy(Root, s) /\ StoreOK
    BY <1>1, <1>2, <2>0, ReplanFields DEF Current, IsCopy
  <2>2. Write(Root, s) /\ Replanned("derive", s)
    BY <1>2, <2>0
  <2>3. StoreOK' /\ Grows /\ campaign' = [campaign EXCEPT ![Root] = Written(s)]
    BY <2>1, <2>2, WriteIsSafe, RootChild
  <2>4. campaign'[Child] = campaign[Child]
    BY <2>3, RootChild
  <2>5. IsCopy(Root, s)'
    BY <2>1, <2>3, CopyKept, RootChild
  <2>6. ReplanOK'
    BY <2>1, <2>2, <2>4, <2>5 DEF ReplanOK, Replanned, CampaignOK
  <2> QED
    BY <1>1, <2>1, <2>2, <2>3, <2>6, ReplanMoves
<1>3. CASE UNCHANGED campaign /\ Replanned("none", NoCampaign)
  <2>1. StoreOK' /\ Grows
    BY <1>1, <1>3, StoreStays, ReplanFields
  <2> QED
    BY <1>1, <1>3, <2>1, ReplanRests
<1> QED
  BY <1>2, <1>3 DEF Request

\* The record a campaign begins with.
LEMMA NewIsSafe ==
  ASSUME NEW approval \in {"approved", "pending"}, NEW reuse \in Reuse, NEW derived \in BOOLEAN
  PROVE  LET new == NewCampaign(approval, reuse, derived)
         IN  /\ new \in CampaignState /\ CampaignOK(new) /\ new.lifecycle = "created"
             /\ new.approval = approval /\ new.version = 0 /\ new.outcome = "unknown"
<1> DEFINE new == NewCampaign(approval, reuse, derived)
<1>1. /\ reuse \in {"reusable", "one_time"} /\ "created" \in Lifecycle /\ 0 \in Int
      /\ NoCampaign \in CampaignState /\ NoCampaign.outcome = "unknown"
  BY ChatAssumption, Absent DEF Lifecycle, NoCampaign
<1>2. new \in CampaignState
  BY <1>1 DEF CampaignState, NewCampaign
<1>3. /\ new.lifecycle = "created" /\ new.outcome = "unknown"
      /\ new.approval = approval /\ new.version = 0
  BY <1>1 DEF CampaignState, NewCampaign
<1> HIDE DEF new
<1>4. CampaignOK(new)
  BY <1>3 DEF CampaignOK
<1> QED
  BY <1>2, <1>3, <1>4 DEF new

LEMMA DeriveStep ==
  ASSUME ChatInv, Derive
  PROVE  ChatInv'
<1>1. /\ UNCHANGED Onlookers /\ Replanned("none", NoCampaign) /\ events' \in Nat
      /\ campaign[Child].lifecycle = "none" /\ StoreOK
  BY ReplanFields DEF Derive, Onlookers, ChatInv, TypeOK
<1>2. PICK new \in CampaignState :
        /\ CampaignOK(new) /\ new.version = 0
        /\ campaign' = [campaign EXCEPT ![Child] = new]
  BY NewIsSafe DEF Derive
<1>3. campaign[Child].version = -1
  BY <1>1, RootChild DEF StoreOK, CampaignOK, NoCampaign
<1>4. /\ campaign' \in [Campaign -> CampaignState] /\ campaign'[Child] = new
      /\ \A d \in Campaign : d # Child => campaign'[d] = campaign[d]
  BY <1>1, <1>2, RootChild DEF StoreOK
<1>5. StoreOK' /\ Grows
  BY <1>1, <1>2, <1>3, <1>4 DEF StoreOK, Grows, CampaignOK
<1> QED
  BY <1>1, <1>5, ReplanRests

LEMMA LapseStep ==
  ASSUME ChatInv, NEW c \in Campaign, Lapse(c)
  PROVE  ChatInv'
<1>1. /\ campaign' = campaign /\ archive' = archive /\ handler' = handler
      /\ command' = command /\ replan' = replan /\ events' \in Nat /\ StoreOK
      /\ lapsed' \subseteq Campaign
      /\ UNCHANGED <<file, supported, registered, answered, calls>>
  BY ReplanFields DEF Lapse, actors, Happens, ChatInv, TypeOK
<1>2. StoreOK' /\ Grows /\ ChildStays
  BY <1>1, StoreStays
<1>3. CommandOK' /\ ReplanOK'
  BY <1>1, <1>2, CommandStays, ReplanStays DEF ChatInv, TypeOK
<1> QED
  BY <1>1, <1>2, <1>3, AsideIsSafe, CallsStandBy DEF ChatInv, TypeOK

LEMMA IdleIsCall == Idle \in Call
<1>1. "idle" \in Step /\ "work" \in Purpose /\ "none" \in End
  BY DEF Step, Purpose, End
<1> QED
  BY <1>1, Absent DEF Idle, Call

LEMMA CrashStep ==
  ASSUME ChatInv, Crash
  PROVE  ChatInv'
<1>1. /\ campaign' = campaign /\ archive' = archive /\ lapsed' = lapsed /\ file' = file
      /\ UNCHANGED <<supported, calls>> /\ answered' \in BOOLEAN /\ registered' = {}
      /\ events' \in Nat
  <2>1. events \in Nat
    BY DEF ChatInv, TypeOK
  <2>2. Happens /\ UNCHANGED <<stored, supported, calls>> /\ answered' = FALSE
        /\ registered' = {}
    BY DEF Crash
  <2>3. events' \in Nat
    BY <2>1, <2>2 DEF Happens
  <2>4. answered' \in BOOLEAN
    BY <2>2
  <2> QED
    BY <2>2, <2>3, <2>4 DEF stored
<1>0. Commanded("idle", NoCampaign) /\ Replanned("none", NoCampaign) /\ StoreOK
  BY ReplanFields DEF Crash
<1>2. StoreOK' /\ Grows
  BY <1>0, <1>1, StoreStays
<1>3. ASSUME NEW h \in Handler PROVE handler'[h] \in Call /\ HandlerOK(h)'
  <2>1. handler'[h] = Idle
    BY DEF Crash
  <2>2. "none" \in End
    BY DEF End
  <2>3. Idle.end = "none" /\ Idle \in Call
    BY IdleIsCall DEF Idle
  <2>4. handler'[h] = [Idle EXCEPT !.end = Idle.end]
    BY <2>1, <2>3 DEF Call
  <2> QED
    BY <1>2, <2>2, <2>3, <2>4, EndedIsSafe
<1>4. handler' \in [Handler -> Call] /\ \A h \in Handler : HandlerOK(h)'
  <2>1. handler' = [h \in Handler |-> handler'[h]]
    BY DEF Crash
  <2> QED
    BY <1>3, <2>1
<1>5. CommandOK' /\ command' \in [pc : {"idle", "read", "write", "expire"}, on : Campaign,
        kind : {"pause", "resume", "cancel"}, seen : CampaignState]
  BY <1>0, <1>1, <1>2, CommandRests, Absent DEF Commanded, ChatInv, TypeOK
<1>6. ReplanOK' /\ replan' \in [pc : {"none", "proposed", "request", "derive"},
                               seen : CampaignState]
  BY <1>0, <1>1, <1>2, IdleReplan DEF Replanned
<1> QED
  BY <1>0, <1>1, <1>2, <1>4, <1>5, <1>6, AsideIsSafe DEF ChatInv, TypeOK

LEMMA InitIsSafe == Init => ChatInv
<1> SUFFICES ASSUME Init PROVE ChatInv
  OBVIOUS
<1>1. StoreOK
  BY Absent DEF Init, StoreOK
<1>2. /\ Idle \in Call /\ Idle.pc = "idle" /\ Idle.seen = NoCampaign /\ Idle.run = NoRun
      /\ Idle.purpose = "work"
  BY IdleIsCall DEF Idle
<1>3. \A c \in Campaign : IsCopy(c, NoCampaign)
  BY <1>1, CopyOfNone
<1>4. \A h \in Handler : HandlerOK(h)
  BY <1>2, <1>3, RootChild, Absent DEF Init, HandlerOK
<1>5. CommandOK /\ ReplanOK
  BY <1>3, RootChild, Absent DEF Init, CommandOK, ReplanOK
<1>6. OneRecordPerId /\ RunOK(file)
  BY Absent DEF Init, OneRecordPerId
<1>7. TypeOK
  BY <1>1, <1>2, RootChild, Absent DEF Init, TypeOK, StoreOK
<1> QED
  BY <1>1, <1>4, <1>5, <1>6, <1>7 DEF ChatInv, StoreOK

LEMMA ChatInvStep == ChatInv /\ [Next]_vars => ChatInv'
<1> SUFFICES ASSUME ChatInv, [Next]_vars PROVE ChatInv'
  OBVIOUS
<1>1. ASSUME NEW h \in Handler, NEW resume \in BOOLEAN, Execute(h, resume) PROVE ChatInv'
  BY <1>1, ExecuteStep, StepIsSafe
<1>2. ASSUME NEW h \in Handler, HandlerStep(h) PROVE ChatInv'
  BY <1>2, StepIsSafe, LoadStep, CreateStep, ExpireStep, BeginStep, OpenStep, RunStageStep,
     ReturnedStep, AuditStep, RetainStep, FinishStep DEF HandlerStep
<1>3. ASSUME NEW h \in Handler, TimeOut(h) PROVE ChatInv'
  BY <1>3, TimeOutStep, StepIsSafe
<1>4. ASSUME NEW kind \in {"pause", "resume", "cancel"}, NEW c \in Campaign, Ask(kind, c)
      PROVE  ChatInv'
  BY <1>4, AskStep
<1>5. CASE CommandStep
  BY <1>5, ReadCommandedStep, WriteCommandedStep, ExpireCommandedStep DEF CommandStep
<1>6. CASE ReplanStep
  BY <1>6, ProposeStep, ApplyStep, RequestStep, DeriveStep DEF ReplanStep
<1>7. ASSUME NEW c \in Campaign, Lapse(c) PROVE ChatInv'
  BY <1>7, LapseStep
<1>8. CASE Crash
  BY <1>8, CrashStep
<1>9. CASE UNCHANGED vars
  <2>1. /\ UNCHANGED <<campaign, archive, lapsed, file, supported, handler, registered,
                       answered, command, replan, calls, events>>
    BY <1>9 DEF vars, stored, actors
  <2> QED
    BY <2>1 DEF ChatInv, TypeOK, CampaignOK, RunOK, HandlerOK, CommandOK, ReplanOK,
       OneRecordPerId, IsCopy, RunRetained
<1> QED
  BY <1>1, <1>2, <1>3, <1>4, <1>5, <1>6, <1>7, <1>8, <1>9 DEF Next

\* Whatever overlaps, times out or dies: every write of the store is decided on the
\* record it replaces, and every end of an execution is backed by what is retained.
THEOREM ChatInvariant == Spec => []ChatInv
BY InitIsSafe, ChatInvStep, PTL DEF Spec

-----------------------------------------------------------------------------
\* The promise, seen from the records.

lifecycles == [c \in Campaign |-> campaign[c].lifecycle]
outcomes == [c \in Campaign |-> campaign[c].outcome]
approvals == [c \in Campaign |-> campaign[c].approval]

LEMMA ViewOfWrite ==
  ASSUME NEW c \in Campaign, campaign \in [Campaign -> CampaignState],
         NEW r \in CampaignState, campaign' = [campaign EXCEPT ![c] = r]
  PROVE  /\ lifecycles' = [lifecycles EXCEPT ![c] = r.lifecycle]
         /\ outcomes' = [outcomes EXCEPT ![c] = r.outcome]
         /\ approvals' = [approvals EXCEPT ![c] = r.approval]
         /\ lifecycles[c] = campaign[c].lifecycle /\ outcomes[c] = campaign[c].outcome
         /\ approvals[c] = campaign[c].approval
         /\ lifecycles = [lifecycles EXCEPT ![c] = campaign[c].lifecycle]
         /\ outcomes = [outcomes EXCEPT ![c] = campaign[c].outcome]
         /\ approvals = [approvals EXCEPT ![c] = campaign[c].approval]
BY DEF lifecycles, outcomes, approvals

\* A step that ends no execution: nothing seen, or one of the other actions.
Undecided ==
  \/ UNCHANGED <<lifecycles, outcomes, approvals, archive>>
  \/ \E c \in Campaign :
       \/ \E a \in {"approved", "pending"} : Promise!Create(c, a)
       \/ Promise!Run(c)
       \/ \E l \in {"paused", "cancelled"} : Promise!Stop(c, l)
       \/ Promise!Expire(c)
       \/ \E e \in archive'[c] : Promise!Retain(c, e)

LEMMA SameView ==
  ASSUME NEW c \in Campaign, campaign \in [Campaign -> CampaignState],
         NEW r \in CampaignState, campaign' = [campaign EXCEPT ![c] = r],
         r.lifecycle = campaign[c].lifecycle, r.outcome = campaign[c].outcome,
         r.approval = campaign[c].approval
  PROVE  UNCHANGED <<lifecycles, outcomes, approvals>>
<1>1. lifecycles' = lifecycles
  BY DEF lifecycles
<1>2. outcomes' = outcomes
  BY DEF outcomes
<1>3. approvals' = approvals
  BY DEF approvals
<1> QED
  BY <1>1, <1>2, <1>3

LEMMA NoView ==
  ASSUME campaign' = campaign
  PROVE  UNCHANGED <<lifecycles, outcomes, approvals>>
BY DEF lifecycles, outcomes, approvals

LEMMA RunView ==
  ASSUME NEW c \in Campaign, campaign \in [Campaign -> CampaignState],
         NEW r \in CampaignState, campaign' = [campaign EXCEPT ![c] = r],
         archive' = archive, campaign[c].lifecycle \in {"created", "paused"},
         campaign[c].approval = "approved", r.lifecycle = "running",
         r.outcome = "unknown", r.approval = campaign[c].approval
  PROVE  Promise!Run(c)
BY ViewOfWrite DEF Promise!Run, lifecycles, outcomes, approvals

LEMMA StopView ==
  ASSUME NEW c \in Campaign, campaign \in [Campaign -> CampaignState],
         NEW r \in CampaignState, campaign' = [campaign EXCEPT ![c] = r],
         archive' = archive, r.lifecycle \in {"paused", "cancelled"},
         campaign[c].lifecycle \in {"created", "running", "paused"},
         campaign[c].lifecycle # r.lifecycle,
         r.outcome = "unknown", r.approval = campaign[c].approval
  PROVE  Promise!Stop(c, r.lifecycle)
BY ViewOfWrite DEF Promise!Stop, lifecycles, outcomes, approvals

LEMMA ExpireView ==
  ASSUME NEW c \in Campaign, campaign \in [Campaign -> CampaignState],
         NEW r \in CampaignState, campaign' = [campaign EXCEPT ![c] = r],
         archive' = archive, campaign[c].lifecycle \in {"created", "running", "paused"},
         campaign[c].approval = "approved", r.lifecycle = "paused",
         r.outcome = campaign[c].outcome, r.approval = "expired"
  PROVE  Promise!Expire(c)
BY ViewOfWrite DEF Promise!Expire, lifecycles, outcomes, approvals

LEMMA CreateView ==
  ASSUME NEW c \in Campaign, campaign \in [Campaign -> CampaignState],
         NEW r \in CampaignState, campaign' = [campaign EXCEPT ![c] = r],
         archive' = archive, campaign[c].lifecycle = "none", CampaignOK(campaign[c]),
         r.lifecycle = "created", r.outcome = "unknown",
         r.approval \in {"approved", "pending"}
  PROVE  Promise!Create(c, r.approval)
<1>1. campaign[c].outcome = "unknown"
  BY DEF CampaignOK
<1> QED
  BY <1>1, ViewOfWrite DEF Promise!Create, lifecycles, outcomes, approvals

LEMMA FinishView ==
  ASSUME NEW c \in Campaign, campaign \in [Campaign -> CampaignState],
         NEW r \in CampaignState, campaign' = [campaign EXCEPT ![c] = r],
         archive' = archive, r.approval = campaign[c].approval,
         \/ campaign[c].lifecycle = "running" /\ r.lifecycle \in {"completed", "failed"}
         \/ campaign[c].lifecycle = "completed" /\ r.lifecycle = "completed",
         \E e \in archive[c] : e.outcome = r.outcome
  PROVE  Promise!Finish(c, r.lifecycle, r.outcome)
<1>1. approvals' = approvals
  BY DEF approvals
<1>2. /\ lifecycles' = [lifecycles EXCEPT ![c] = r.lifecycle]
      /\ outcomes' = [outcomes EXCEPT ![c] = r.outcome]
      /\ lifecycles[c] = campaign[c].lifecycle
  BY ViewOfWrite
<1> QED
  BY <1>1, <1>2 DEF Promise!Finish, lifecycles, outcomes, approvals

-----------------------------------------------------------------------------
\* Each action, as the promise sees it.

LEMMA CreateMaps ==
  ASSUME ChatInv, NEW h \in Handler, Create(h)
  PROVE  Undecided
<1>1. CASE UNCHANGED stored
  BY <1>1, NoView DEF stored, Undecided
<1>2. ASSUME campaign[Root].lifecycle = "none", NEW reuse \in Reuse,
             campaign' = [campaign EXCEPT ![Root] = NewCampaign("approved", reuse, FALSE)],
             archive' = archive
      PROVE  Undecided
  <2>1. PICK new \in CampaignState :
          /\ new.lifecycle = "created" /\ new.approval = "approved"
          /\ new.outcome = "unknown" /\ campaign' = [campaign EXCEPT ![Root] = new]
    BY <1>2, NewIsSafe
  <2>2. Promise!Create(Root, new.approval)
    BY <1>2, <2>1, CreateView, InvParts, RootChild DEF StoreOK
  <2> QED
    BY <2>1, <2>2, RootChild DEF Undecided
<1> QED
  BY <1>1, <1>2 DEF Create

LEMMA ExpireMaps ==
  ASSUME ChatInv, NEW h \in Handler, Expire(h)
  PROVE  Undecided
<1> DEFINE seen == handler[h].seen
<1>1. /\ seen \in CampaignState /\ CampaignOK(seen) /\ seen.lifecycle # "none"
      /\ seen.approval = "approved" /\ StoreOK
  BY InvParts, CallFields DEF Expire, HandlerOK, At
<1>2. PICK s : s = [seen EXCEPT !.lifecycle = "paused", !.approval = "expired"]
  OBVIOUS
<1>3. CASE UNCHANGED stored
  BY <1>3, NoView DEF stored, Undecided
<1>4. CASE ~Refused(h, s) /\ Write(Root, s) /\ archive' = archive
  <2>1. seen = campaign[Root] /\ Allowed(seen.lifecycle, s.lifecycle)
    BY <1>4, SeenIsCurrent
  <2>2. /\ s \in CampaignState /\ s.lifecycle = "paused" /\ s.version = seen.version
        /\ s.approval = "expired" /\ s.outcome = seen.outcome
    BY <1>1, <1>2 DEF CampaignState, Lifecycle
  <2>3. CampaignOK(s) /\ seen.lifecycle \in {"created", "running", "paused"}
    BY <1>1, <2>1, <2>2 DEF CampaignOK, Allowed
  <2>4. PICK r \in CampaignState :
          /\ campaign' = [campaign EXCEPT ![Root] = r] /\ r.lifecycle = s.lifecycle
          /\ r.outcome = s.outcome /\ r.approval = s.approval
    BY <1>1, <1>4, <2>1, <2>2, <2>3, WriteIsSafe, RootChild
  <2>5. Promise!Expire(Root)
    BY <1>1, <1>4, <2>1, <2>2, <2>3, <2>4, ExpireView, RootChild DEF StoreOK
  <2> QED
    BY <2>5, RootChild DEF Undecided
<1> QED
  BY <1>2, <1>3, <1>4 DEF Expire, Raises

LEMMA BeginMaps ==
  ASSUME ChatInv, NEW h \in Handler, Begin(h)
  PROVE  Undecided
<1> DEFINE seen == handler[h].seen
<1>1. /\ seen \in CampaignState /\ CampaignOK(seen) /\ seen.approval = "approved"
      /\ seen.lifecycle \in {"created", "paused"} /\ StoreOK
  BY InvParts, CallFields DEF Begin, HandlerOK, At
<1>2. PICK s : s = [seen EXCEPT !.lifecycle = "running", !.outcome = "unknown",
                      !.uses = IF seen.lifecycle = "created" THEN @ + 1 ELSE @]
  OBVIOUS
<1>3. CASE UNCHANGED stored
  BY <1>3, NoView DEF stored, Undecided
<1>4. CASE ~Refused(h, s) /\ Write(Root, s) /\ archive' = archive
  <2>1. seen = campaign[Root]
    BY <1>4, SeenIsCurrent
  <2>2. /\ s \in CampaignState /\ s.lifecycle = "running" /\ s.version = seen.version
        /\ s.approval = seen.approval /\ s.outcome = "unknown"
    <3>1. (IF seen.lifecycle = "created" THEN seen.uses + 1 ELSE seen.uses) \in Nat
      BY <1>1 DEF CampaignState
    <3> QED
      BY <1>1, <1>2, <3>1 DEF CampaignState, Lifecycle, Outcome
  <2>3. CampaignOK(s)
    BY <1>1, <2>1, <2>2 DEF CampaignOK
  <2>4. PICK r \in CampaignState :
          /\ campaign' = [campaign EXCEPT ![Root] = r] /\ r.lifecycle = s.lifecycle
          /\ r.outcome = s.outcome /\ r.approval = s.approval
    BY <1>1, <1>4, <2>1, <2>2, <2>3, WriteIsSafe, RootChild
  <2>5. Promise!Run(Root)
    BY <1>1, <1>4, <2>1, <2>2, <2>4, RunView, RootChild DEF StoreOK
  <2> QED
    BY <2>5, RootChild DEF Undecided
<1> QED
  BY <1>2, <1>3, <1>4 DEF Begin, Raises

\* A write that changes neither lifecycle nor outcome nor approval.
LEMMA WriteUnseen ==
  ASSUME StoreOK, NEW c \in Campaign, NEW s \in CampaignState, CampaignOK(s),
         s.lifecycle # "none", s.version = campaign[c].version,
         s.lifecycle = campaign[c].lifecycle, s.outcome = campaign[c].outcome,
         s.approval = campaign[c].approval, Write(c, s)
  PROVE  UNCHANGED <<lifecycles, outcomes, approvals>>
<1>1. PICK r \in CampaignState :
        /\ campaign' = [campaign EXCEPT ![c] = r] /\ r.lifecycle = s.lifecycle
        /\ r.outcome = s.outcome /\ r.approval = s.approval
  BY WriteIsSafe
<1> QED
  BY <1>1, SameView DEF StoreOK

LEMMA AuditMaps ==
  ASSUME ChatInv, NEW h \in Handler, Audit(h)
  PROVE  Undecided
<1> DEFINE seen == handler[h].seen
<1>1. /\ seen \in CampaignState /\ CampaignOK(seen) /\ seen.lifecycle # "none" /\ StoreOK
      /\ handler[h].run.audit \in Nat
  BY InvParts, CallFields DEF Audit, HandlerOK, At, OptimizeRun
<1>2. PICK s : s = [seen EXCEPT !.audit = handler[h].run.audit]
  OBVIOUS
<1>3. CASE UNCHANGED stored
  BY <1>3, NoView DEF stored, Undecided
<1>4. CASE ~Refused(h, s) /\ Write(Root, s) /\ archive' = archive
  <2>1. seen = campaign[Root]
    BY <1>4, SeenIsCurrent
  <2>2. /\ s \in CampaignState /\ s.lifecycle = seen.lifecycle /\ s.version = seen.version
        /\ s.approval = seen.approval /\ s.outcome = seen.outcome
    BY <1>1, <1>2 DEF CampaignState
  <2>3. CampaignOK(s)
    BY <1>1, <2>1, <2>2 DEF CampaignOK
  <2>4. UNCHANGED <<lifecycles, outcomes, approvals>>
    BY <1>1, <1>4, <2>1, <2>2, <2>3, WriteUnseen, RootChild
  <2> QED
    BY <1>4, <2>4 DEF Undecided
<1> QED
  BY <1>2, <1>3, <1>4 DEF Audit, Raises

LEMMA RetainMaps ==
  ASSUME ChatInv, NEW h \in Handler, Retain(h)
  PROVE  Undecided
<1>0. PICK s, e : s = handler[h].seen /\ e = ToRetain(h)
  OBVIOUS
<1>1. /\ s \in CampaignState /\ CampaignOK(s) /\ s.lifecycle # "none" /\ StoreOK
  BY <1>0, InvParts, CallFields DEF Retain, HandlerOK, At
<1>2. CASE UNCHANGED stored
  BY <1>2, NoView DEF stored, Undecided
<1>3. CASE /\ ~Retained(Root, e) /\ ~Conflict(Root, e) /\ ~Refused(h, s) /\ Write(Root, s)
           /\ archive' = [archive EXCEPT ![Root] = @ \cup {e}]
  <2>1. s = campaign[Root]
    BY <1>0, <1>3, SeenIsCurrent
  <2>2. UNCHANGED <<lifecycles, outcomes, approvals>>
    BY <1>1, <1>3, <2>1, WriteUnseen, RootChild
  <2>3. \A old \in archive[Root] : old.id # e.id
    BY <1>3 DEF Retained, Conflict
  <2>4. e \in archive'[Root]
    BY <1>3, InvParts, RootChild
  <2>5. Promise!Retain(Root, e)
    BY <1>1, <1>3, <2>1, <2>2, <2>3, RootChild
       DEF Promise!Retain, lifecycles, outcomes, approvals
  <2> QED
    BY <2>4, <2>5, RootChild DEF Undecided
<1> QED
  BY <1>0, <1>2, <1>3 DEF Retain, Raises

LEMMA WriteCommandedMaps ==
  ASSUME ChatInv, WriteCommanded
  PROVE  Undecided
<1> DEFINE seen == command.seen
<1>0. PICK c \in Campaign, k \in {"pause", "resume", "cancel"} :
        c = command.on /\ k = command.kind
  BY CommandFields
<1>1. /\ seen \in CampaignState /\ CampaignOK(seen) /\ seen.lifecycle # "none" /\ StoreOK
      /\ Allowed(seen.lifecycle, Target[k]) /\ seen.lifecycle # Target[k]
      /\ k = "resume" => seen.approval = "approved"
      /\ archive' = archive
  BY <1>0, CommandFields, ReplanFields
     DEF WriteCommanded, ChatInv, CommandOK, Commits, Bystanders
<1>2. PICK to \in {"paused", "running", "cancelled"} :
        to = Target[k] /\ (to = "running" => k = "resume")
  BY <1>0 DEF Target
<1>3. PICK s : s = [seen EXCEPT !.lifecycle = to]
  OBVIOUS
<1>4. CASE UNCHANGED campaign
  BY <1>1, <1>4, NoView DEF Undecided
<1>5. CASE Current(c, seen) /\ Write(c, s)
  <2>1. seen = campaign[c]
    BY <1>0, <1>5, CommandFields DEF Current, IsCopy
  <2>2. /\ s \in CampaignState /\ s.lifecycle = to /\ s.version = seen.version
        /\ s.outcome = seen.outcome /\ s.approval = seen.approval
    BY <1>1, <1>2, <1>3 DEF CampaignState, Lifecycle
  <2>3. CampaignOK(s) /\ seen.outcome = "unknown"
        /\ seen.lifecycle \in {"created", "running", "paused"}
        /\ (to = "running" => seen.lifecycle \in {"created", "paused"})
    BY <1>1, <1>2, <2>2 DEF CampaignOK, Allowed
  <2>4. PICK r \in CampaignState :
          /\ campaign' = [campaign EXCEPT ![c] = r] /\ r.lifecycle = s.lifecycle
          /\ r.outcome = s.outcome /\ r.approval = s.approval
    BY <1>1, <1>5, <2>1, <2>2, <2>3, WriteIsSafe
  <2>5. CASE to = "running"
    <3>1. Promise!Run(c)
      BY <1>1, <1>2, <2>1, <2>2, <2>3, <2>4, <2>5, RunView DEF StoreOK
    <3> QED
      BY <3>1 DEF Undecided
  <2>6. CASE to \in {"paused", "cancelled"}
    <3>1. Promise!Stop(c, r.lifecycle)
      BY <1>1, <1>2, <2>1, <2>2, <2>3, <2>4, <2>6, StopView DEF StoreOK
    <3> QED
      BY <2>2, <2>4, <2>6, <3>1 DEF Undecided
  <2> QED
    BY <2>5, <2>6
<1>6. Commits(s)
  BY <1>0, <1>2, <1>3 DEF WriteCommanded
<1> QED
  BY <1>0, <1>4, <1>5, <1>6 DEF Commits

LEMMA ExpireCommandedMaps ==
  ASSUME ChatInv, ExpireCommanded
  PROVE  Undecided
<1> DEFINE seen == command.seen
<1>0. PICK c \in Campaign : c = command.on
  BY CommandFields
<1>1. /\ seen \in CampaignState /\ CampaignOK(seen) /\ StoreOK /\ archive' = archive
      /\ seen.lifecycle \in {"created", "running", "paused"} /\ seen.approval = "approved"
  BY CommandFields, ReplanFields
     DEF ExpireCommanded, ChatInv, CommandOK, Commits, Bystanders
<1>2. PICK s : s = [seen EXCEPT !.lifecycle = "paused", !.approval = "expired",
                      !.reuse = "reusable", !.uses = 0, !.audit = 0, !.bound = FALSE]
  OBVIOUS
<1>3. CASE UNCHANGED campaign
  BY <1>1, <1>3, NoView DEF Undecided
<1>4. CASE Current(c, seen) /\ Write(c, s)
  <2>1. seen = campaign[c]
    BY <1>0, <1>4, CommandFields DEF Current, IsCopy
  <2>2. /\ s \in CampaignState /\ s.lifecycle = "paused" /\ s.version = seen.version
        /\ s.outcome = seen.outcome /\ s.approval = "expired"
    BY <1>1, <1>2 DEF CampaignState, Lifecycle
  <2>3. CampaignOK(s)
    BY <1>1, <2>2 DEF CampaignOK
  <2>4. PICK r \in CampaignState :
          /\ campaign' = [campaign EXCEPT ![c] = r] /\ r.lifecycle = s.lifecycle
          /\ r.outcome = s.outcome /\ r.approval = s.approval
    BY <1>1, <1>4, <2>1, <2>2, <2>3, WriteIsSafe
  <2>5. Promise!Expire(c)
    BY <1>1, <2>1, <2>2, <2>4, ExpireView DEF StoreOK
  <2> QED
    BY <2>5 DEF Undecided
<1>5. Commits(s)
  BY <1>2 DEF ExpireCommanded
<1> QED
  BY <1>0, <1>3, <1>4, <1>5 DEF Commits

LEMMA RequestMaps ==
  ASSUME ChatInv, Request
  PROVE  Undecided
<1>0. PICK s : s = replan.seen
  OBVIOUS
<1>1. CASE UNCHANGED campaign
  BY <1>1, NoView DEF Request, Onlookers, Undecided
<1>2. CASE Current(Root, s) /\ Write(Root, s)
  <2>1. /\ s = campaign[Root] /\ s \in CampaignState /\ CampaignOK(s)
        /\ s.lifecycle # "none" /\ StoreOK
    BY <1>0, <1>2, ReplanFields DEF Current, IsCopy, Request
  <2>2. UNCHANGED <<lifecycles, outcomes, approvals>>
    BY <1>2, <2>1, WriteUnseen, RootChild
  <2> QED
    BY <2>2 DEF Request, Onlookers, Undecided
<1> QED
  BY <1>0, <1>1, <1>2 DEF Request

LEMMA DeriveMaps ==
  ASSUME ChatInv, Derive
  PROVE  Undecided
<1>1. campaign[Child].lifecycle = "none" /\ StoreOK /\ archive' = archive
  BY ReplanFields DEF Derive, Onlookers
<1>2. PICK new \in CampaignState :
        /\ new.lifecycle = "created" /\ new.approval \in {"approved", "pending"}
        /\ new.outcome = "unknown" /\ campaign' = [campaign EXCEPT ![Child] = new]
  BY NewIsSafe DEF Derive
<1>3. Promise!Create(Child, new.approval)
  BY <1>1, <1>2, CreateView, RootChild DEF StoreOK
<1> QED
  BY <1>2, <1>3, RootChild DEF Undecided

\* Every step but the last one of an execution.
LEMMA OthersMap ==
  ASSUME ChatInv, [Next]_vars, \A h \in Handler : ~Finish(h)
  PROVE  Undecided
<1> USE NoView DEF Undecided
<1>1. ASSUME NEW h \in Handler, NEW resume \in BOOLEAN, Execute(h, resume) PROVE Undecided
  BY <1>1 DEF Execute, stored
<1>2. ASSUME NEW h \in Handler, HandlerStep(h) PROVE Undecided
  <2>1. CASE Load(h)
    BY <2>1 DEF Load, stored
  <2>2. CASE Open(h)
    BY <2>2 DEF Open, Keeps
  <2>3. CASE RunStage(h)
    BY <2>3 DEF RunStage, Keeps
  <2>4. CASE Returned(h)
    BY <2>4 DEF Returned
  <2> QED
    BY <1>2, <2>1, <2>2, <2>3, <2>4, CreateMaps, ExpireMaps, BeginMaps, AuditMaps,
       RetainMaps DEF HandlerStep
<1>3. ASSUME NEW h \in Handler, TimeOut(h) PROVE Undecided
  BY <1>3 DEF TimeOut, stored
<1>4. ASSUME NEW kind \in {"pause", "resume", "cancel"}, NEW c \in Campaign, Ask(kind, c)
      PROVE  Undecided
  BY <1>4 DEF Ask, Bystanders
<1>5. CASE CommandStep
  <2>1. CASE ReadCommanded
    BY <2>1 DEF ReadCommanded, Bystanders
  <2> QED
    BY <1>5, <2>1, WriteCommandedMaps, ExpireCommandedMaps DEF CommandStep
<1>6. CASE ReplanStep
  <2>1. CASE Propose
    BY <2>1 DEF Propose, Onlookers
  <2>2. CASE Apply
    BY <2>2 DEF Apply, Onlookers
  <2> QED
    BY <1>6, <2>1, <2>2, RequestMaps, DeriveMaps DEF ReplanStep
<1>7. ASSUME NEW c \in Campaign, Lapse(c) PROVE Undecided
  BY <1>7 DEF Lapse
<1>8. CASE Crash
  BY <1>8 DEF Crash, stored
<1>9. CASE UNCHANGED vars
  BY <1>9 DEF vars, stored
<1> QED
  BY <1>1, <1>2, <1>3, <1>4, <1>5, <1>6, <1>7, <1>8, <1>9 DEF Next

\* What an execution ends as: the record it writes, and the evidence that backs it.
LEMMA FinishWrites ==
  ASSUME ChatInv, NEW h \in Handler, Finish(h), ~UNCHANGED campaign
  PROVE  /\ archive' = archive
         /\ \E r \in CampaignState :
              /\ campaign' = [campaign EXCEPT ![Root] = r]
              /\ r.lifecycle = EndsAs(handler[h]).lifecycle
              /\ r.outcome = EndsAs(handler[h]).outcome
              /\ r.approval = campaign[Root].approval
              /\ Allowed(campaign[Root].lifecycle, r.lifecycle)
              /\ \/ r.lifecycle # campaign[Root].lifecycle
                 \/ r.outcome # campaign[Root].outcome
<1> DEFINE seen == handler[h].seen
<1>0. PICK to : to = EndsAs(handler[h])
  OBVIOUS
<1>1. /\ seen \in CampaignState /\ CampaignOK(seen) /\ seen.lifecycle # "none"
      /\ handler[h] \in Call /\ StoreOK /\ handler[h].purpose \in Purpose
      /\ handler[h].purpose # "work" /\ handler[h].run \in OptimizeRun
      /\ RunOK(handler[h].run)
      /\ handler[h].purpose = "run" => handler[h].run.status \in {"paused", "completed"}
  BY InvParts, CallFields DEF Finish, HandlerOK, At
<1>2. /\ to.lifecycle \in {"paused", "completed", "failed", "cancelled"}
      /\ to.outcome \in Outcome
      /\ to.lifecycle \notin {"completed", "failed"} => to.outcome = "unknown"
      /\ to.lifecycle = "failed" => to.outcome = "failed"
  BY <1>0, <1>1, EndsAsIs
<1>3. PICK s : s = [seen EXCEPT !.lifecycle = to.lifecycle, !.outcome = to.outcome]
  OBVIOUS
<1>4. s # seen /\ ~Refused(h, s) /\ Write(Root, s) /\ archive' = archive
  BY <1>0, <1>3 DEF Finish, Raises, stored
<1>5. seen = campaign[Root] /\ Allowed(seen.lifecycle, s.lifecycle)
  BY <1>4, SeenIsCurrent
<1>6. /\ s \in CampaignState /\ s.lifecycle = to.lifecycle /\ s.outcome = to.outcome
      /\ s.version = seen.version /\ s.approval = seen.approval
  BY <1>1, <1>2, <1>3 DEF CampaignState, Lifecycle
<1>7. CampaignOK(s) /\ s.lifecycle # "none"
  BY <1>1, <1>2, <1>6 DEF CampaignOK
<1>8. PICK r \in CampaignState :
        /\ campaign' = [campaign EXCEPT ![Root] = r] /\ r.lifecycle = s.lifecycle
        /\ r.outcome = s.outcome /\ r.approval = s.approval
  BY <1>1, <1>4, <1>5, <1>6, <1>7, WriteIsSafe, RootChild
<1>9. to.lifecycle # seen.lifecycle \/ to.outcome # seen.outcome
  <2>1. CASE to.lifecycle = seen.lifecycle /\ to.outcome = seen.outcome
    <3>1. s = seen
      BY <1>1, <1>3, <2>1 DEF CampaignState
    <3> QED
      BY <1>4, <3>1
  <2> QED
    BY <2>1
<1> QED
  BY <1>0, <1>4, <1>5, <1>6, <1>8, <1>9

\* The end of an execution is a stop, or an end backed by retained evidence.
LEMMA FinishMaps ==
  ASSUME ChatInv, NEW h \in Handler, Finish(h)
  PROVE  [Promise!Next]_(Promise!promised)
<1>1. CASE UNCHANGED campaign
  <2>1. archive' = archive
    <3>1. CASE UNCHANGED stored
      BY <3>1 DEF stored
    <3>2. CASE UNCHANGED <<archive, lapsed, file>>
      BY <3>2
    <3> QED
      BY <3>1, <3>2 DEF Finish, Raises
  <2> QED
    BY <1>1, <2>1, NoView DEF Promise!promised, lifecycles, outcomes, approvals
<1>2. CASE ~UNCHANGED campaign
  <2>0. PICK to : to = EndsAs(handler[h])
    OBVIOUS
  <2>1. PICK r \in CampaignState :
          /\ campaign' = [campaign EXCEPT ![Root] = r]
          /\ r.lifecycle = to.lifecycle /\ r.outcome = to.outcome
          /\ r.approval = campaign[Root].approval
          /\ Allowed(campaign[Root].lifecycle, r.lifecycle)
          /\ r.lifecycle # campaign[Root].lifecycle \/ r.outcome # campaign[Root].outcome
    BY <1>2, <2>0, FinishWrites
  <2>2. /\ archive' = archive /\ StoreOK /\ CampaignOK(campaign[Root])
        /\ handler[h].purpose \in Purpose /\ handler[h].purpose # "work"
        /\ handler[h].run \in OptimizeRun /\ RunOK(handler[h].run)
        /\ handler[h].purpose = "run" => handler[h].run.status \in {"paused", "completed"}
    BY <1>2, FinishWrites, InvParts, CallFields DEF Finish, HandlerOK, At
  <2>3. /\ to.lifecycle \in {"paused", "completed", "failed", "cancelled"}
        /\ to.outcome \in Outcome
        /\ to.lifecycle \notin {"completed", "failed"} => to.outcome = "unknown"
        /\ to.lifecycle = "failed" => to.outcome = "failed"
    BY <2>0, <2>2, EndsAsIs
  <2>4. CASE to.lifecycle \in {"paused", "cancelled"}
    <3>1. campaign[Root].lifecycle \in {"created", "running", "paused"}
          /\ campaign[Root].lifecycle # r.lifecycle
      BY <2>1, <2>2, <2>3, <2>4 DEF Allowed, CampaignOK
    <3>2. Promise!Stop(Root, r.lifecycle)
      BY <2>1, <2>2, <2>3, <2>4, <3>1, StopView, RootChild DEF StoreOK
    <3> QED
      BY <2>1, <2>4, <3>2, RootChild DEF Promise!Next
  <2>5. CASE to.lifecycle \in {"completed", "failed"}
    <3>1. \/ campaign[Root].lifecycle = "running"
          \/ campaign[Root].lifecycle = "completed" /\ r.lifecycle = "completed"
      BY <2>1, <2>2, <2>3, <2>5 DEF Allowed, CampaignOK
    <3>2. \E e \in archive[Root] : e.outcome = r.outcome
      <4>1. CASE handler[h].purpose = "run"
        <5>1. RunEvidence(handler[h].run) \in archive[Root]
          BY <4>1, InvParts DEF HandlerOK, Finish, At, RunRetained
        <5>2. RunEvidence(handler[h].run).outcome = handler[h].run.outcome
          BY DEF RunEvidence
        <5>3. to.outcome = handler[h].run.outcome
          BY <2>0, <4>1 DEF EndsAs
        <5> QED
          BY <2>1, <5>1, <5>2, <5>3
      <4>2. CASE handler[h].purpose # "run"
        <5>1. EndEvidence(handler[h].purpose) \in archive[Root]
          BY <4>2, InvParts DEF HandlerOK, Finish, At
        <5>2. EndEvidence(handler[h].purpose).outcome = EndOf[handler[h].purpose].outcome
          BY DEF EndEvidence
        <5>3. to = EndOf[handler[h].purpose]
          BY <2>0, <4>2 DEF EndsAs
        <5> QED
          BY <2>1, <5>1, <5>2, <5>3
      <4> QED
        BY <4>1, <4>2
    <3>3. Promise!Finish(Root, r.lifecycle, r.outcome)
      BY <2>1, <2>2, <2>5, <3>1, <3>2, FinishView, RootChild DEF StoreOK
    <3> QED
      BY <2>1, <2>3, <2>5, <3>3, RootChild DEF Promise!Next, Outcome
  <2> QED
    BY <2>3, <2>4, <2>5
<1> QED
  BY <1>1, <1>2

\* Handlers, commands, replans, timeouts and crashes together keep the promise of
\* docs/design/conversational-campaign-state.md.
THEOREM PromiseKept == Spec => CampaignKeepsItsPromise
<1>1. Init => Promise!Init
  <2>1. NoCampaign.lifecycle = "none" /\ NoCampaign.outcome = "unknown"
        /\ NoCampaign.approval = "none"
    BY DEF NoCampaign
  <2> QED
    BY <2>1 DEF Init, Promise!Init
<1>2. ChatInv /\ [Next]_vars => [Promise!Next]_(Promise!promised)
  <2> SUFFICES ASSUME ChatInv, [Next]_vars PROVE [Promise!Next]_(Promise!promised)
    OBVIOUS
  <2>1. CASE Undecided
    <3>1. CASE UNCHANGED <<lifecycles, outcomes, approvals, archive>>
      BY <3>1 DEF Promise!promised, lifecycles, outcomes, approvals
    <3> QED
      BY <2>1, <3>1 DEF Undecided, Promise!Next
  <2> QED
    BY <2>1, OthersMap, FinishMaps
<1> QED
  BY <1>1, <1>2, ChatInvariant, PTL DEF Spec, CampaignKeepsItsPromise, Promise!Spec

\* A step that ends no execution leaves what backs a supported end.
LEMMA UndecidedKeeps ==
  ASSUME ChatInv, Undecided, AcceptedIsBacked
  PROVE  AcceptedIsBacked'
<1>0. archive \in [Campaign -> SUBSET Evidence]
  BY DEF ChatInv, TypeOK
<1>1. archive[Root] \subseteq archive'[Root]
  BY <1>0, RootChild DEF Undecided, Promise!Create, Promise!Run, Promise!Stop,
     Promise!Expire, Promise!Retain
<1>2. campaign'[Root].lifecycle = "completed" /\ campaign'[Root].outcome = "supported" =>
        campaign[Root].lifecycle = "completed" /\ campaign[Root].outcome = "supported"
  <2>1. /\ lifecycles[Root] = campaign[Root].lifecycle /\ outcomes[Root] = campaign[Root].outcome
        /\ lifecycles'[Root] = campaign'[Root].lifecycle
        /\ outcomes'[Root] = campaign'[Root].outcome
    BY RootChild DEF lifecycles, outcomes
  <2>2. CASE UNCHANGED <<lifecycles, outcomes, approvals, archive>>
    BY <2>1, <2>2
  <2>3. ASSUME NEW c \in Campaign, NEW l \in {"created", "running", "paused", "cancelled"},
               lifecycles' = [lifecycles EXCEPT ![c] = l],
               \/ outcomes' = outcomes
               \/ outcomes' = [outcomes EXCEPT ![c] = "unknown"]
        PROVE  lifecycles'[Root] = "completed" /\ outcomes'[Root] = "supported" =>
                 lifecycles[Root] = "completed" /\ outcomes[Root] = "supported"
    BY <2>3, RootChild DEF lifecycles, outcomes
  <2>4. ASSUME NEW c \in Campaign, NEW e, Promise!Retain(c, e)
        PROVE  UNCHANGED <<lifecycles, outcomes>>
    BY <2>4 DEF Promise!Retain, lifecycles, outcomes
  <2>5. ASSUME NEW c \in Campaign,
               \/ \E a \in {"approved", "pending"} : Promise!Create(c, a)
               \/ Promise!Run(c)
               \/ \E l \in {"paused", "cancelled"} : Promise!Stop(c, l)
               \/ Promise!Expire(c)
        PROVE  \E l \in {"created", "running", "paused", "cancelled"} :
                 /\ lifecycles' = [lifecycles EXCEPT ![c] = l]
                 /\ \/ outcomes' = outcomes
                    \/ outcomes' = [outcomes EXCEPT ![c] = "unknown"]
    BY <2>5 DEF Promise!Create, Promise!Run, Promise!Stop, Promise!Expire,
       lifecycles, outcomes
  <2> QED
    BY <2>1, <2>2, <2>3, <2>4, <2>5 DEF Undecided
<1> QED
  BY <1>1, <1>2 DEF AcceptedIsBacked, RunRetained

LEMMA FinishKeeps ==
  ASSUME ChatInv, NEW h \in Handler, Finish(h), AcceptedIsBacked
  PROVE  AcceptedIsBacked'
<1>1. CASE UNCHANGED campaign
  <2>1. archive' = archive
    <3>1. CASE UNCHANGED stored
      BY <3>1 DEF stored
    <3>2. CASE UNCHANGED <<archive, lapsed, file>>
      BY <3>2
    <3> QED
      BY <3>1, <3>2 DEF Finish, Raises
  <2> QED
    BY <1>1, <2>1 DEF AcceptedIsBacked, RunRetained
<1>2. CASE ~UNCHANGED campaign
  <2>1. /\ archive' = archive /\ campaign'[Root].lifecycle = EndsAs(handler[h]).lifecycle
        /\ campaign'[Root].outcome = EndsAs(handler[h]).outcome
    <3>1. PICK r \in CampaignState :
            /\ campaign' = [campaign EXCEPT ![Root] = r]
            /\ r.lifecycle = EndsAs(handler[h]).lifecycle
            /\ r.outcome = EndsAs(handler[h]).outcome
      BY <1>2, FinishWrites
    <3>2. campaign'[Root] = r
      BY <3>1, InvParts, RootChild DEF StoreOK
    <3> QED
      BY <1>2, <3>1, <3>2, FinishWrites
  <2>2. SUFFICES ASSUME EndsAs(handler[h]).lifecycle = "completed",
                        EndsAs(handler[h]).outcome = "supported"
                 PROVE  \E e \in archive[Root] :
                          /\ e.id.kind = "run" /\ Accepted(e.id.run)
                          /\ e.id.run.done = Stages /\ RunRetained(e.id.run)
    BY <2>1 DEF AcceptedIsBacked, RunRetained
  <2>3. /\ handler[h].purpose \in Purpose /\ handler[h].purpose # "work"
        /\ handler[h].purpose = "run" =>
             /\ handler[h].run.status \in {"paused", "completed"}
             /\ RunRetained(handler[h].run)
        /\ RunOK(handler[h].run)
    BY InvParts, CallFields DEF Finish, HandlerOK, At
  <2>4. handler[h].purpose = "run"
    <3>1. CASE handler[h].purpose # "run"
      <4>1. handler[h].purpose \in {"failure", "cancelled", "unsupported"}
        BY <2>3, <3>1 DEF Purpose, Ending
      <4>2. EndsAs(handler[h]) = EndOf[handler[h].purpose]
        BY <3>1 DEF EndsAs
      <4>3. EndOf[handler[h].purpose].outcome # "supported"
        BY <4>1 DEF EndOf
      <4> QED
        BY <2>2, <4>2, <4>3
    <3> QED
      BY <3>1
  <2>5. Accepted(handler[h].run) /\ handler[h].run.done = Stages
    <3>1. EndsAs(handler[h]) =
            [lifecycle |-> IF handler[h].run.status = "paused" THEN "paused" ELSE "completed",
             outcome |-> handler[h].run.outcome]
      BY <2>4 DEF EndsAs
    <3>2. Accepted(handler[h].run)
      BY <2>2, <2>3, <2>4, <3>1 DEF Accepted
    <3> QED
      BY <2>3, <3>2 DEF RunOK
  <2>6. /\ RunEvidence(handler[h].run) \in archive[Root]
        /\ RunEvidence(handler[h].run).id.kind = "run"
        /\ RunEvidence(handler[h].run).id.run = handler[h].run
    BY <2>3, <2>4 DEF RunRetained, RunEvidence
  <2> QED
    BY <2>3, <2>4, <2>5, <2>6
<1> QED
  BY <1>1, <1>2

\* A supported end has an accepted run, its stages and its artifact in the archive,
\* whatever earlier, paused, late or failed executions left there.
THEOREM SupportedIsBacked == Spec => []AcceptedIsBacked
<1>1. Init => AcceptedIsBacked
  BY RootChild DEF Init, AcceptedIsBacked, NoCampaign
<1>2. ChatInv /\ AcceptedIsBacked /\ [Next]_vars => AcceptedIsBacked'
  BY OthersMap, UndecidedKeeps, FinishKeeps
<1> QED
  BY <1>1, <1>2, ChatInvariant, PTL DEF Spec

=============================================================================
