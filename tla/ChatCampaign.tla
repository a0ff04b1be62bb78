------------------------------- MODULE ChatCampaign -------------------------------
(***************************************************************************)
(* Conversational campaigns: the versioned records of                      *)
(* conversation/campaign_state.py, and everyone who changes them: the      *)
(* handlers of `execute_approved_plan` with their recorder                 *)
(* (conversation/execution.py, campaign.py), the operator who pauses,      *)
(* resumes and cancels, and a replan that derives a child campaign         *)
(* (conversation/replanning.py).                                           *)
(*                                                                         *)
(* Every read and every write of the store is a step of its own.  A handler*)
(* drives the optimize run of OptimizeRun, kept in a file that is saved    *)
(* whole; a handler that timed out goes on beside the next one.            *)
(*                                                                         *)
(* Abstracted: specs, providers, budgets and sessions, which do not change;*)
(* an audit chain to its length; the stages of a run to the last ones, the *)
(* last but one deciding on the artifact.                                  *)
(***************************************************************************)
EXTENDS Integers, FiniteSets

CONSTANTS Root, Child,   \* the campaign that is executed; the one a replan derives
          Handler,       \* the calls of execute_approved_plan that may overlap
          Reuse,         \* the reuse policies an approval may be given
          Stages,        \* of a run
          Result,        \* the outcomes a stage may have
          MaxCalls,      \* bound on the executions asked for
          MaxEvents      \* bound on timeouts, commands, replans, lapses and crashes

ASSUME ChatAssumption ==
  /\ Root # Child
  /\ Reuse \subseteq {"reusable", "one_time"}
  /\ Result \subseteq {"supported", "unsupported", "failed", "unknown"}
  /\ Stages \in Nat /\ Stages >= 2
  /\ MaxCalls \in Nat /\ MaxEvents \in Nat

Campaign == {Root, Child}
Deciding == Stages - 1
Lifecycle == {"none", "created", "running", "paused", "completed", "failed", "cancelled"}
Outcome == {"supported", "unsupported", "failed", "unknown"}

VARIABLES campaign,   \* [Campaign -> its record]
          archive,    \* [Campaign -> the evidence retained]
          lapsed,     \* the campaigns whose approval is past its expiry
          file,       \* the state file of the optimize run
          supported,  \* the plan is supported
          handler,    \* [Handler -> what the call is doing]
          registered, \* the handler whose token and pause event are registered, if any
          answered,   \* this process has answered an execution
          command, replan,
          calls, events

stored == <<campaign, archive, lapsed, file>>
actors == <<handler, registered, answered, command, replan>>
vars == <<stored, supported, actors, calls, events>>

-----------------------------------------------------------------------------
\* The records.

\* uses and expiry of the approval; bound, it still names its plan; derived, the
\* record is still the one a replan created.
CampaignState ==
  [lifecycle : Lifecycle, outcome : Outcome,
   approval : {"none", "pending", "approved", "expired"},
   reuse : {"reusable", "one_time"}, uses : Nat, audit : Nat,
   bound : BOOLEAN, derived : BOOLEAN, version : Int]

NoCampaign ==
  [lifecycle |-> "none", outcome |-> "unknown", approval |-> "none", reuse |-> "reusable",
   uses |-> 0, audit |-> 0, bound |-> TRUE, derived |-> FALSE, version |-> -1]

NewCampaign(approval, reuse, derived) ==
  [NoCampaign EXCEPT !.lifecycle = "created", !.approval = approval, !.reuse = reuse,
                     !.derived = derived, !.version = 0]

\* A run has completed its first done stages, the last of them with result.
OptimizeRun ==
  [status : {"missing", "running", "paused", "completed"}, outcome : Outcome,
   done : 0..Stages, result : Outcome, audit : Nat]

NoRun == [status |-> "missing", outcome |-> "unknown", done |-> 0,
          result |-> "supported", audit |-> 0]

Accepted(run) == run.status = "completed" /\ run.outcome = "supported"

\* The ID of a piece of evidence digests what it is about, without the artifact.
EvidenceId ==
  [kind : {"stage", "run", "failure", "cancelled", "unsupported"},
   stage : 0..Stages, result : Outcome, run : OptimizeRun]

Evidence == [id : EvidenceId, outcome : Outcome, artifact : BOOLEAN]

StageEvidence(run, n) ==
  LET result == IF n = run.done THEN run.result ELSE "supported"
  IN  [id |-> [kind |-> "stage", stage |-> n, result |-> result, run |-> NoRun],
       outcome |-> result, artifact |-> n = Deciding /\ Accepted(run)]

RunEvidence(run) ==
  [id |-> [kind |-> "run", stage |-> 0, result |-> run.outcome, run |-> run],
   outcome |-> run.outcome, artifact |-> Accepted(run)]

\* How a campaign ends that has no run to retain.
EndOf == [failure     |-> [lifecycle |-> "failed",    outcome |-> "failed"],
          cancelled   |-> [lifecycle |-> "cancelled", outcome |-> "unknown"],
          unsupported |-> [lifecycle |-> "completed", outcome |-> "unsupported"]]

Ending == {"failure", "cancelled", "unsupported"}

EndEvidence(why) ==
  [id |-> [kind |-> why, stage |-> 0, result |-> EndOf[why].outcome, run |-> NoRun],
   outcome |-> EndOf[why].outcome, artifact |-> FALSE]

-----------------------------------------------------------------------------
\* The store: a write names the version it was decided on.

Allowed(from, to) ==
  \/ from = to
  \/ from = "created" /\ to \in {"running", "paused", "cancelled"}
  \/ from = "running" /\ to \in {"paused", "completed", "failed", "cancelled"}
  \/ from = "paused"  /\ to \in {"running", "cancelled"}

\* Mistake: the version is not compared.
Current_Any(c, seen) == TRUE

Current(c, seen) == campaign[c].version = seen.version

\* Mistake: the decision on the approval is not looked at.
Active_Pending(c, s) == c \notin lapsed /\ ~(s.reuse = "one_time" /\ s.uses >= 1)

Active(c, s) ==
  /\ s.approval = "approved"
  /\ c \notin lapsed
  /\ ~(s.reuse = "one_time" /\ s.uses >= 1)

\* Every transition takes the next version and provenance of its own.
Written(s) == [s EXCEPT !.version = @ + 1, !.derived = FALSE]

Write(c, s) == campaign' = [campaign EXCEPT ![c] = Written(s)]

Retained(c, e) == e \in archive[c]
Conflict(c, e) == ~Retained(c, e) /\ \E old \in archive[c] : old.id = e.id

-----------------------------------------------------------------------------
\* The handler of execute_approved_plan.

Step == {"idle", "create", "load", "expire", "begin", "open", "stage", "returned",
         "audit", "retain", "finish"}

\* What the recorder's start() is followed by.
Purpose == {"work", "run"} \cup Ending

\* How the last call ended; stale, as every refused write.
End == {"none", "retained", "stale", "conflict", "audit", "consumed", "refused", "drift"}

Call == [pc : Step, purpose : Purpose, resume : BOOLEAN, seen : CampaignState,
         run : OptimizeRun, next : Nat, token : BOOLEAN, pause : BOOLEAN,
         end : End]

Idle == [pc |-> "idle", purpose |-> "work", resume |-> FALSE, seen |-> NoCampaign,
         run |-> NoRun, next |-> 0, token |-> FALSE, pause |-> FALSE, end |-> "none"]

Init ==
  /\ campaign = [c \in Campaign |-> NoCampaign]
  /\ archive = [c \in Campaign |-> {}]
  /\ lapsed = {}
  /\ file = NoRun
  /\ supported \in BOOLEAN
  /\ handler = [h \in Handler |-> Idle]
  /\ registered = {}
  /\ answered = FALSE
  /\ command = [pc |-> "idle", on |-> Root, kind |-> "pause", seen |-> NoCampaign]
  /\ replan = [pc |-> "none", seen |-> NoCampaign]
  /\ calls = 0 /\ events = 0

At(h, step) == handler[h].pc = step
Goes(h, changed) == handler' = [handler EXCEPT ![h] = changed]
Moves(h, step) == Goes(h, [handler[h] EXCEPT !.pc = step])

\* The call returns or raises: whatever is registered for the campaign is dropped.
Ends(h, why) ==
  /\ Goes(h, [Idle EXCEPT !.end = why])
  /\ registered' = {}

\* What the bound counts.
Happens == events < MaxEvents /\ events' = events + 1

Others == <<supported, answered, command, replan, calls, events>>

\* A call that timed out keeps its thread, and the next one a dispatcher of its own:
\* only a resumption is not answered from what this process has answered.
Execute(h, resume) ==
  /\ calls < MaxCalls
  /\ At(h, "idle")
  /\ \A g \in Handler : At(g, "idle") \/ handler[g].token
  /\ resume \/ ~answered
  /\ Goes(h, [Idle EXCEPT !.pc = "load", !.resume = resume,
                          !.purpose = IF supported THEN "work" ELSE "unsupported"])
  /\ registered' = {h}
  /\ answered' = TRUE
  /\ calls' = calls + 1
  /\ UNCHANGED <<stored, supported, command, replan, events>>

\* What follows start(): the run, or retaining what came of it.
Started == [work |-> "open", run |-> "audit", failure |-> "retain",
            cancelled |-> "retain", unsupported |-> "retain"]

\* start() on the active record s it has read; an approval that is not active is
\* first written down as expired.
Decided(h, s) ==
  [handler[h] EXCEPT
     !.seen = s, !.next = 1,
     !.pc = IF ~Active(Root, s) THEN "expire"
            ELSE IF s.lifecycle \in {"created", "paused"} THEN "begin"
            ELSE Started[handler[h].purpose]]

Load(h) ==
  /\ At(h, "load")
  /\ LET s == campaign[Root]
     IN  \/ s.lifecycle = "none" /\ Moves(h, "create") /\ UNCHANGED registered
         \/ s.lifecycle # "none" /\ ~s.bound /\ Ends(h, "drift")
         \/ /\ s.lifecycle # "none" /\ s.bound
            /\ \/ s.approval # "approved" /\ Ends(h, "refused")
               \/ s.approval = "approved" /\ Goes(h, Decided(h, s)) /\ UNCHANGED registered
  /\ UNCHANGED <<stored, Others>>

Create(h) ==
  /\ At(h, "create")
  /\ \/ /\ campaign[Root].lifecycle # "none" /\ Ends(h, "stale")
        /\ UNCHANGED stored
     \/ /\ campaign[Root].lifecycle = "none"
        /\ \E reuse \in Reuse :
             LET new == NewCampaign("approved", reuse, FALSE)
             IN  /\ campaign' = [campaign EXCEPT ![Root] = new]
                 /\ Goes(h, Decided(h, new))
        /\ UNCHANGED <<archive, lapsed, file, registered>>
  /\ UNCHANGED Others

\* A write of the handler, from the record it has seen to s: it is stale, or not a
\* legal change of the lifecycle, and the call raises; or it is committed.
Refused(h, s) ==
  ~Current(Root, handler[h].seen) \/ ~Allowed(handler[h].seen.lifecycle, s.lifecycle)

Raises(h, s) == Refused(h, s) /\ Ends(h, "stale") /\ UNCHANGED stored

Expire(h) ==
  /\ At(h, "expire")
  /\ LET seen == handler[h].seen
         s == [seen EXCEPT !.lifecycle = "paused", !.approval = "expired"]
     IN  \/ Raises(h, s)
         \/ /\ ~Refused(h, s) /\ Write(Root, s)
            /\ Ends(h, IF Root \notin lapsed /\ handler[h].purpose = "run"
                       THEN "consumed" ELSE "refused")
            /\ UNCHANGED <<archive, lapsed, file>>
  /\ UNCHANGED Others

Begin(h) ==
  /\ At(h, "begin")
  /\ LET seen == handler[h].seen
         s == [seen EXCEPT !.lifecycle = "running", !.outcome = "unknown",
                           !.uses = IF seen.lifecycle = "created" THEN @ + 1 ELSE @]
     IN  \/ Raises(h, s)
         \/ /\ ~Refused(h, s) /\ Write(Root, s)
            /\ Goes(h, [handler[h] EXCEPT !.seen = Written(s),
                                          !.pc = Started[handler[h].purpose]])
            /\ UNCHANGED <<archive, lapsed, file, registered>>
  /\ UNCHANGED Others

-----------------------------------------------------------------------------
\* The run, as OptimizeRun has it; the saves of one step are one.

Saves(h, run, step) ==
  /\ file' = run
  /\ Goes(h, [handler[h] EXCEPT !.run = run, !.pc = step])

Keeps == UNCHANGED <<campaign, archive, lapsed, registered, Others>>

\* The run raised: retain_failure begins with start() again.
Fails(h) ==
  /\ Goes(h, [handler[h] EXCEPT !.purpose = "failure", !.pc = "load"])
  /\ UNCHANGED file

Open(h) ==
  /\ At(h, "open")
  /\ \/ handler[h].resume = (file.status = "missing") /\ Fails(h)
     \/ /\ handler[h].resume = (file.status # "missing")
        /\ \/ file.status = "completed" /\ Saves(h, file, "returned")
           \/ /\ file.status # "completed"
              /\ \/ Saves(h, [file EXCEPT !.status = "running", !.audit = @ + 1], "stage")
                 \/ Saves(h, [file EXCEPT !.status = "paused"], "returned")
  /\ Keeps

Interrupted(h) == handler[h].token \/ handler[h].pause

\* The runtime may also be interrupted, or raise, by itself.
RunStage(h) ==
  /\ At(h, "stage")
  /\ LET run == handler[h].run
         after == [run EXCEPT !.done = @ + 1]
     IN  \/ Fails(h)
         \/ Saves(h, [run EXCEPT !.status = "paused"], "returned")
         \/ /\ ~Interrupted(h) /\ after.done < Stages /\ "supported" \in Result
            /\ Saves(h, after, "stage")
         \/ /\ ~Interrupted(h)
            /\ \E r \in Result, o \in Outcome :
                 /\ \/ r # "supported" /\ o = r
                    \/ /\ r = "supported" /\ after.done = Stages
                       /\ o \in {"supported", "failed"}
                 /\ Saves(h, [after EXCEPT !.status = "completed", !.outcome = o,
                                           !.result = r], "returned")
  /\ Keeps

Returned(h) ==
  /\ At(h, "returned")
  /\ Goes(h, [handler[h] EXCEPT
                !.pc = "load", !.purpose = IF handler[h].token THEN "cancelled" ELSE "run"])
  /\ UNCHANGED <<file, campaign, archive, lapsed, registered, Others>>

-----------------------------------------------------------------------------
\* What came of it is retained, one transaction after the other.

\* The audit chain of the run is projected into the approval.
Audit(h) ==
  /\ At(h, "audit")
  /\ LET seen == handler[h].seen
         n == handler[h].run.audit
         s == [seen EXCEPT !.audit = n]
     IN  \/ /\ n \in {0, seen.audit} /\ Moves(h, "retain")
            /\ UNCHANGED <<stored, registered>>
         \/ /\ n \notin {0, seen.audit} /\ n < seen.audit /\ Ends(h, "audit")
            /\ UNCHANGED stored
         \/ n > seen.audit /\ Raises(h, s)
         \/ /\ n > seen.audit /\ ~Refused(h, s) /\ Write(Root, s)
            /\ Goes(h, [handler[h] EXCEPT !.seen = Written(s), !.pc = "retain"])
            /\ UNCHANGED <<archive, lapsed, file, registered>>
  /\ UNCHANGED Others

\* The evidence of each stage, then of the run; or of the other end alone.
ToRetain(h) ==
  LET call == handler[h]
  IN  IF call.purpose # "run" THEN EndEvidence(call.purpose)
      ELSE IF call.next <= call.run.done THEN StageEvidence(call.run, call.next)
      ELSE RunEvidence(call.run)

\* Mistake: the last stage is taken for the last record.
IsLast_Stage(h) == handler[h].purpose # "run" \/ handler[h].next >= handler[h].run.done

IsLast(h) == handler[h].purpose # "run" \/ handler[h].next > handler[h].run.done

RetainNext(h, s) ==
  Goes(h, [handler[h] EXCEPT !.seen = s, !.next = @ + 1,
                             !.pc = IF IsLast(h) THEN "finish" ELSE "retain"])

Retain(h) ==
  /\ At(h, "retain")
  /\ LET e == ToRetain(h)
         s == handler[h].seen
     IN  \/ /\ Retained(Root, e) /\ RetainNext(h, campaign[Root])
            /\ UNCHANGED <<stored, registered>>
         \/ /\ Conflict(Root, e) /\ Ends(h, "conflict")
            /\ UNCHANGED stored
         \/ ~Retained(Root, e) /\ ~Conflict(Root, e) /\ Raises(h, s)
         \/ /\ ~Retained(Root, e) /\ ~Conflict(Root, e) /\ ~Refused(h, s)
            /\ archive' = [archive EXCEPT ![Root] = @ \cup {e}]
            /\ Write(Root, s)
            /\ RetainNext(h, Written(s))
            /\ UNCHANGED <<lapsed, file, registered>>
  /\ UNCHANGED Others

EndsAs(call) ==
  IF call.purpose # "run" THEN EndOf[call.purpose]
  ELSE [lifecycle |-> IF call.run.status = "paused" THEN "paused" ELSE "completed",
        outcome   |-> call.run.outcome]

Finish(h) ==
  /\ At(h, "finish")
  /\ LET seen == handler[h].seen
         to == EndsAs(handler[h])
         s == [seen EXCEPT !.lifecycle = to.lifecycle, !.outcome = to.outcome]
     IN  \/ s = seen /\ Ends(h, "retained") /\ UNCHANGED stored
         \/ s # seen /\ Raises(h, s)
         \/ /\ s # seen /\ ~Refused(h, s) /\ Write(Root, s)
            /\ Ends(h, "retained")
            /\ UNCHANGED <<archive, lapsed, file>>
  /\ UNCHANGED Others

TimeOut(h) ==
  /\ ~At(h, "idle") /\ ~handler[h].token
  /\ Goes(h, [handler[h] EXCEPT !.token = TRUE])
  /\ Happens
  /\ UNCHANGED <<stored, registered, supported, answered, command, replan, calls>>

-----------------------------------------------------------------------------
\* The operator: pause, resume (and restart, which is the same) and cancel.

Target == [pause |-> "paused", resume |-> "running", cancel |-> "cancelled"]

\* The token or the pause event of the call that is registered is set first.
Signalled(kind, c) ==
  IF c # Root THEN handler
  ELSE [h \in Handler |->
          IF h \notin registered THEN handler[h]
          ELSE [handler[h] EXCEPT !.pause = @ \/ kind = "pause",
                                  !.token = @ \/ kind = "cancel"]]

Bystanders == <<archive, lapsed, file, supported, registered, answered, replan, calls>>

Ask(kind, c) ==
  /\ command.pc = "idle"
  /\ handler' = Signalled(kind, c)
  /\ command' = [pc |-> "read", on |-> c, kind |-> kind, seen |-> NoCampaign]
  /\ Happens
  /\ UNCHANGED <<campaign, Bystanders>>

Commanded(step, s) == command' = [command EXCEPT !.pc = step, !.seen = s]

\* Nothing to do, or not allowed, or not approved; or on to a write.
ReadCommanded ==
  /\ command.pc = "read"
  /\ LET s == campaign[command.on]
         to == Target[command.kind]
         legal == s.lifecycle \notin {"none", to} /\ Allowed(s.lifecycle, to)
         approved == command.kind # "resume" \/ Active(command.on, s)
         \* A running campaign is asked for its approval as well.
         expires == /\ command.kind = "resume" /\ (legal \/ s.lifecycle = to)
                    /\ ~approved /\ s.approval = "approved"
     IN  \/ legal /\ approved /\ Commanded("write", s)
         \/ expires /\ Commanded("expire", s)
         \/ ~(legal /\ approved) /\ ~expires /\ Commanded("idle", NoCampaign)
  /\ UNCHANGED <<campaign, handler, events, Bystanders>>

\* A write of the command, or its refusal as stale.
Commits(s) ==
  /\ \/ Current(command.on, command.seen) /\ Write(command.on, s)
     \/ ~Current(command.on, command.seen) /\ UNCHANGED campaign
  /\ Commanded("idle", NoCampaign)
  /\ UNCHANGED <<handler, events, Bystanders>>

WriteCommanded ==
  /\ command.pc = "write"
  /\ Commits([command.seen EXCEPT !.lifecycle = Target[command.kind]])

\* The approval is written anew, without its plan, its reuse policy and its audit.
ExpireCommanded ==
  /\ command.pc = "expire"
  /\ Commits([command.seen EXCEPT !.lifecycle = "paused", !.approval = "expired",
                !.reuse = "reusable", !.uses = 0, !.audit = 0, !.bound = FALSE])

-----------------------------------------------------------------------------
\* A replan: a proposal for a version of the root, applied to that version alone.

Onlookers == <<archive, lapsed, file, supported, handler, registered, answered, command,
               calls>>

Replanned(step, s) == replan' = [pc |-> step, seen |-> s]

Propose ==
  /\ replan.pc = "none"
  /\ campaign[Root].lifecycle \notin {"none", "cancelled"}
  /\ campaign[Child].lifecycle = "none"
  /\ Replanned("proposed", campaign[Root])
  /\ Happens
  /\ UNCHANGED <<campaign, Onlookers>>

\* replay_replan and apply_replan read the root; a proposal that is stale is refused.
Apply ==
  /\ replan.pc = "proposed"
  /\ \/ /\ Current(Root, replan.seen) /\ campaign[Root].lifecycle # "cancelled"
        /\ Replanned("request", replan.seen)
     \/ /\ ~Current(Root, replan.seen) \/ campaign[Root].lifecycle = "cancelled"
        /\ Replanned("none", NoCampaign)
  /\ UNCHANGED <<campaign, events, Onlookers>>

Request ==
  /\ replan.pc = "request"
  /\ \/ /\ Current(Root, replan.seen) /\ Write(Root, replan.seen)
        /\ Replanned("derive", replan.seen)
     \/ /\ ~Current(Root, replan.seen) /\ Replanned("none", NoCampaign)
        /\ UNCHANGED campaign
  /\ UNCHANGED <<events, Onlookers>>

Derive ==
  /\ replan.pc = "derive"
  /\ \E approval \in {"approved", "pending"}, reuse \in Reuse :
       campaign' = [campaign EXCEPT ![Child] = NewCampaign(approval, reuse, TRUE)]
  /\ Replanned("none", NoCampaign)
  /\ UNCHANGED <<events, Onlookers>>

-----------------------------------------------------------------------------
Lapse(c) ==
  /\ c \notin lapsed
  /\ lapsed' = lapsed \cup {c}
  /\ Happens
  /\ UNCHANGED <<campaign, archive, file, supported, actors, calls>>

\* The process dies; the store and the state file stay.
Crash ==
  /\ Happens
  /\ handler' = [h \in Handler |-> Idle]
  /\ registered' = {}
  /\ answered' = FALSE
  /\ Commanded("idle", NoCampaign)
  /\ Replanned("none", NoCampaign)
  /\ UNCHANGED <<stored, supported, calls>>

HandlerStep(h) ==
  \/ Load(h) \/ Create(h) \/ Expire(h) \/ Begin(h) \/ Open(h) \/ RunStage(h)
  \/ Returned(h) \/ Audit(h) \/ Retain(h) \/ Finish(h)

CommandStep == ReadCommanded \/ WriteCommanded \/ ExpireCommanded

ReplanStep == Propose \/ Apply \/ Request \/ Derive

Next ==
  \/ \E h \in Handler : \/ \E resume \in BOOLEAN : Execute(h, resume)
                        \/ HandlerStep(h)
                        \/ TimeOut(h)
  \/ \E kind \in {"pause", "resume", "cancel"}, c \in Campaign : Ask(kind, c)
  \/ CommandStep
  \/ ReplanStep
  \/ \E c \in Campaign : Lapse(c)
  \/ Crash

Spec == Init /\ [][Next]_vars

-----------------------------------------------------------------------------
TypeOK ==
  /\ campaign \in [Campaign -> CampaignState]
  /\ archive \in [Campaign -> SUBSET Evidence]
  /\ lapsed \subseteq Campaign
  /\ file \in OptimizeRun
  /\ supported \in BOOLEAN /\ answered \in BOOLEAN
  /\ handler \in [Handler -> Call]
  /\ registered \subseteq Handler
  /\ command \in [pc : {"idle", "read", "write", "expire"}, on : Campaign,
                  kind : {"pause", "resume", "cancel"}, seen : CampaignState]
  /\ replan \in [pc : {"none", "proposed", "request", "derive"}, seen : CampaignState]
  /\ calls \in Nat /\ events \in Nat

\* What an actor has read is the record of its version: equal versions, equal records.
IsCopy(c, seen) ==
  /\ seen.version <= campaign[c].version
  /\ seen.version = campaign[c].version => seen = campaign[c]

CampaignOK(s) ==
  /\ s.lifecycle = "none" => s = NoCampaign
  /\ s.lifecycle # "none" => s.version >= 0 /\ s.approval # "none"
  /\ s.lifecycle \notin {"completed", "failed"} => s.outcome = "unknown"
  /\ s.lifecycle = "failed" => s.outcome = "failed"

RunOK(run) ==
  /\ run.status = "missing" => run = NoRun
  /\ run.status # "completed" =>
       run.done < Stages /\ run.outcome = "unknown" /\ run.result = "supported"
  /\ Accepted(run) => run.done = Stages /\ run.result = "supported"

\* All that a run has to show for itself is retained, the artifact included.
RunRetained(run) ==
  /\ RunEvidence(run) \in archive[Root]
  /\ \A n \in 1..run.done : StageEvidence(run, n) \in archive[Root]

HandlerOK(h) ==
  LET call == handler[h]
      seen == call.seen
  IN  /\ IsCopy(Root, seen) /\ CampaignOK(seen) /\ RunOK(call.run)
      /\ call.pc \notin {"idle", "load", "create"} => seen.lifecycle # "none"
      /\ call.pc \in {"expire", "begin"} => seen.approval = "approved"
      /\ call.pc = "begin" => seen.lifecycle \in {"created", "paused"}
      /\ call.pc = "open" => call.purpose = "work"
      /\ call.pc = "stage" => call.run.status = "running"
      /\ call.pc \in {"stage", "returned"} => call.purpose = "work"
      /\ call.pc \in {"expire", "begin"} => call.next = 1
      /\ call.pc = "returned" \/ call.purpose = "run" =>
           call.run.status \in {"paused", "completed"}
      /\ call.pc = "audit" => call.purpose = "run" /\ call.next = 1
      /\ call.pc = "retain" => call.purpose # "work"
      /\ call.pc = "retain" /\ call.purpose = "run" =>
           /\ call.next \in 1..(call.run.done + 1)
           /\ \A n \in 1..(call.next - 1) : StageEvidence(call.run, n) \in archive[Root]
      /\ call.pc = "finish" =>
           /\ call.purpose # "work"
           /\ call.purpose = "run" => RunRetained(call.run)
           /\ call.purpose # "run" => EndEvidence(call.purpose) \in archive[Root]

CommandOK ==
  LET seen == command.seen
  IN  /\ IsCopy(command.on, seen) /\ CampaignOK(seen)
      /\ command.pc = "write" =>
           /\ seen.lifecycle \notin {"none", Target[command.kind]}
           /\ Allowed(seen.lifecycle, Target[command.kind])
           /\ command.kind = "resume" => seen.approval = "approved"
      /\ command.pc = "expire" =>
           /\ seen.lifecycle \in {"created", "running", "paused"}
           /\ seen.approval = "approved"

ReplanOK ==
  /\ IsCopy(Root, replan.seen) /\ CampaignOK(replan.seen)
  /\ replan.pc # "none" =>
       replan.seen.lifecycle # "none" /\ campaign[Child].lifecycle = "none"

\* Evidence is immutable: one record under an ID.
OneRecordPerId ==
  \A c \in Campaign : \A d, e \in archive[c] : d.id = e.id => d = e

\* The inductive invariant: every actor decides on a copy of the record its version
\* names (the expected_version of every write), and what a handler is about to
\* conclude has been retained.
ChatInv ==
  /\ TypeOK
  /\ \A c \in Campaign : CampaignOK(campaign[c])
  /\ RunOK(file)
  /\ \A h \in Handler : HandlerOK(h)
  /\ CommandOK
  /\ ReplanOK
  /\ OneRecordPerId

\* A campaign that is completed and supported has an accepted run to show for it:
\* the run, each of its stages, and the artifact on the deciding stage (retain_run
\* and append_evidence, whatever was retained by earlier, paused or late executions).
AcceptedIsBacked ==
  campaign[Root].lifecycle = "completed" /\ campaign[Root].outcome = "supported" =>
    \E e \in archive[Root] :
      /\ e.id.kind = "run" /\ Accepted(e.id.run) /\ e.id.run.done = Stages
      /\ RunRetained(e.id.run)

Promise ==
  INSTANCE CampaignPromise WITH
    lifecycle <- [c \in Campaign |-> campaign[c].lifecycle],
    outcome   <- [c \in Campaign |-> campaign[c].outcome],
    approval  <- [c \in Campaign |-> campaign[c].approval],
    evidence  <- archive

\* Handlers, commands and replans together keep the promise of the store.
CampaignKeepsItsPromise == Promise!Spec

-----------------------------------------------------------------------------
\* What the documentation says and the code does not do.

\* docs/design/chat-execution-adapter.md: interrupted workflows can be resumed.
ResumedRunIsRetained == \A h \in Handler : handler[h].end # "conflict"

\* docs/design/scoped-approvals.md: an approval is consumed before the workflow runs.
OneTimeRunIsRetained == \A h \in Handler : handler[h].end # "consumed"

=====================================================================================
