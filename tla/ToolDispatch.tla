------------------------------- MODULE ToolDispatch -------------------------------
(***************************************************************************)
(* ToolDispatcher of conversation/dispatcher.py and the transaction        *)
(* boundary of conversation/transaction.py: a tool request is admitted     *)
(* once, its handler runs in a thread of its own under a transaction       *)
(* handle, and whatever came of it is kept in the replay ledger.           *)
(*                                                                         *)
(* Two threads work on one request: the dispatcher's, which polls, times   *)
(* out, closes and answers, and the handler's, which nobody can stop and   *)
(* which goes on after the call was answered.  Both reach the transaction. *)
(* The boundary looks a handle up under its lock, calls the engine's       *)
(* participant outside it and takes the lock again to retire the handle;   *)
(* these are separate steps here.                                          *)
(*                                                                         *)
(* Abstracted: the clock to "the wall budget of this call has passed"; the *)
(* failure codes to the answers and to what decides about a retry; a       *)
(* request ID is the digest of the whole request, so a request is its ID.  *)
(* Calls that end before the ledger is read (a request that does not       *)
(* negotiate, an approval that is refused, no handler, a cancelled token)  *)
(* and calls the ledger answers leave no trace and are stuttering steps.   *)
(***************************************************************************)
EXTENDS Naturals, FiniteSets

CONSTANTS Request,
          Consequential,  \* requests of consequential tools; the others read only
          Bound,          \* consequential requests with an engine participant
          MaxRetries,     \* max_retries of the dispatcher
          MaxReplay,      \* max_replay_entries of the ledger
          MaxActive,      \* max_active transactions of the boundary
          Faults,         \* may participants and request copies fail?
          Ends,           \* [Request -> what its handler may end with]
          None

\* A result; an error that is final (or a result outside its schema or budgets),
\* cancelled, late, retryable, or retryable and declared idempotent.
HandlerResult == {"value", "failed", "cancelled", "timeout", "retry", "idempotent"}

ASSUME DispatchAssumption ==
  /\ IsFiniteSet(Request)
  /\ Bound \subseteq Consequential /\ Consequential \subseteq Request
  /\ MaxRetries \in 0..3 /\ MaxReplay \in Nat \ {0} /\ MaxActive \in Nat \ {0}
  /\ Faults \in BOOLEAN
  /\ Ends \in [Request -> SUBSET HandlerResult]

Answer == {"supported", "failed", "timeout", "cancelled", "refused"}

ASSUME NoneAssumption == None \notin Answer \cup HandlerResult

VARIABLES
  phase,     \* where the dispatcher's thread stands in the call
  attempt,   \* attempts begun
  late,      \* has the wall budget passed?
  token,     \* is the cancellation token set?
  handler,   \* the handler thread of the last attempt
  returned,  \* what that thread put in its queue, while it may still be read
  active,    \* requests whose transaction handle is active at the boundary
  context,   \* the state of the handle the attempt's context holds
  op,        \* the transaction call each of the two threads is in
  pending,   \* why the transaction is being closed, or the answer to give
  ledger,    \* completed requests and their answers
  engine,    \* what the participant of this attempt was told, and did
  effects,   \* commits the engine performed for the request
  declared   \* did a handler of the request declare its failure idempotent?

dispatcherVars == <<phase, attempt, token, pending, ledger>>
handlerVars    == <<handler, returned>>
boundaryVars   == <<active, context, op>>
engineVars     == <<engine, effects>>
vars == <<phase, attempt, late, token, handler, returned, active, context, op,
          pending, ledger, engine, effects, declared>>

Thread == {"handler", "dispatcher"}
Op == [kind : {"commit", "close"},
       step : {"idle", "called", "settled", "raised", "moved", "done", "error"}]
Idle == [kind |-> "close", step |-> "idle"]

InFlight == {r \in Request : phase[r] \notin {"new", "done"}}
Completed == {r \in Request : ledger[r] # None}

TypeOK ==
  /\ phase \in [Request -> {"new", "begin", "running", "publishing", "closing", "answer", "done"}]
  /\ attempt \in [Request -> 0..MaxRetries + 1]
  /\ late \in [Request -> BOOLEAN] /\ token \in [Request -> BOOLEAN]
  /\ handler \in [Request -> {"none", "running", "over"}]
  /\ returned \in [Request -> HandlerResult \cup {None}]
  /\ active \subseteq Request
  /\ context \in [Request -> {"active", "committed", "closed"}]
  /\ op \in [Request -> [Thread -> Op]]
  /\ pending \in [Request -> Answer \cup HandlerResult \cup {None}]
  /\ ledger \in [Request -> Answer \cup {None}]
  /\ engine \in [Request -> SUBSET {"commit", "close"}]
  /\ effects \in [Request -> Nat]
  /\ declared \in [Request -> BOOLEAN]

Init ==
  /\ phase = [r \in Request |-> "new"] /\ attempt = [r \in Request |-> 0]
  /\ late = [r \in Request |-> FALSE] /\ token = [r \in Request |-> FALSE]
  /\ handler = [r \in Request |-> "none"] /\ returned = [r \in Request |-> None]
  /\ active = {} /\ context = [r \in Request |-> "closed"]
  /\ op = [r \in Request |-> [x \in Thread |-> Idle]]
  /\ pending = [r \in Request |-> None] /\ ledger = [r \in Request |-> None]
  /\ engine = [r \in Request |-> {}] /\ effects = [r \in Request |-> 0]
  /\ declared = [r \in Request |-> FALSE]
-----------------------------------------------------------------------------
(***************************************************************************)
(* The transaction boundary, used by either thread                         *)
(***************************************************************************)

\* A finished call leaves its outcome to the dispatcher; a handler goes on either way.
Ended(x, k, ok) ==
  IF x = "handler" THEN Idle ELSE [kind |-> k, step |-> IF ok THEN "done" ELSE "error"]

\* commit, rollback or cancel looks its handle up; without one it raises at once.
LookedUp(r, k) ==
  [kind |-> k, step |-> IF r \in active /\ context[r] = "active" THEN "called" ELSE "error"]

\* The participant of a bound request does what it is told, or raises.
Participate(r, x) ==
  LET k == op[r][x].kind IN
  /\ op[r][x].step = "called"
  /\ \/ /\ r \in Bound
        /\ engine' = [engine EXCEPT ![r] = @ \cup {k}]
        /\ effects' = [effects EXCEPT ![r] = IF k = "commit" THEN @ + 1 ELSE @]
        /\ op' = [op EXCEPT ![r][x].step = "settled"]
     \/ /\ r \notin Bound
        /\ op' = [op EXCEPT ![r][x].step = "settled"]
        /\ UNCHANGED engineVars
     \/ /\ r \in Bound /\ Faults
        /\ op' = [op EXCEPT ![r][x].step = "raised"]
        /\ UNCHANGED engineVars
  /\ UNCHANGED <<dispatcherVars, late, handlerVars, active, context, declared>>

\* The handle is retired; if the other thread has retired it, this call raises.
Move(r, x) ==
  LET k == op[r][x].kind IN
  /\ op[r][x].step \in {"settled", "raised"}
  /\ active' = active \ {r}
  /\ op' = [op EXCEPT ![r][x] = IF op[r][x].step = "settled" /\ r \in active
                                THEN [@ EXCEPT !.step = "moved"] ELSE Ended(x, k, FALSE)]
  /\ UNCHANGED <<dispatcherVars, late, handlerVars, context, engineVars, declared>>

\* The context gets the handle of the next generation.
Assign(r, x) ==
  LET k == op[r][x].kind IN
  /\ op[r][x].step = "moved"
  /\ context' = [context EXCEPT ![r] = IF k = "commit" THEN "committed" ELSE "closed"]
  /\ op' = [op EXCEPT ![r][x] = Ended(x, k, TRUE)]
  /\ UNCHANGED <<dispatcherVars, late, handlerVars, active, engineVars, declared>>
-----------------------------------------------------------------------------
(***************************************************************************)
(* The handler's thread                                                    *)
(***************************************************************************)

\* A handler commits or rolls back its transaction; on a stale handle nothing happens.
HandlerCalls(r, k) ==
  /\ handler[r] = "running" /\ op[r]["handler"] = Idle
  /\ LookedUp(r, k).step = "called"
  /\ op' = [op EXCEPT ![r]["handler"] = LookedUp(r, k)]
  /\ UNCHANGED <<dispatcherVars, late, handlerVars, active, context, engineVars, declared>>

HandlerEnds(r, h) ==
  /\ handler[r] = "running" /\ op[r]["handler"] = Idle
  /\ handler' = [handler EXCEPT ![r] = "over"]
  /\ returned' = [returned EXCEPT ![r] = IF phase[r] = "running" THEN h ELSE None]
  /\ UNCHANGED <<dispatcherVars, late, boundaryVars, engineVars, declared>>
-----------------------------------------------------------------------------
(***************************************************************************)
(* The dispatcher's thread                                                 *)
(***************************************************************************)

\* Mutant: a completed request is not looked for in the ledger.
Admit_Replayed(r) ==
  /\ r \notin InFlight
  /\ Cardinality(Completed) < MaxReplay
  /\ phase' = [phase EXCEPT ![r] = "begin"]
  /\ attempt' = [attempt EXCEPT ![r] = 1]
  /\ UNCHANGED <<late, token, pending, ledger, handlerVars, boundaryVars, engineVars, declared>>

\* Under the dispatcher's lock: a request that is neither completed nor in flight
\* starts, unless the ledger is full.
Admit(r) ==
  /\ r \notin Completed /\ r \notin InFlight
  /\ Cardinality(Completed) < MaxReplay
  /\ phase' = [phase EXCEPT ![r] = "begin"]
  /\ attempt' = [attempt EXCEPT ![r] = 1]
  /\ UNCHANGED <<late, token, pending, ledger, handlerVars, boundaryVars, engineVars, declared>>

\* The answer is known and goes to the ledger next; clock and token are read no more.
Answers(r, a) ==
  /\ phase' = [phase EXCEPT ![r] = "answer"]
  /\ pending' = [pending EXCEPT ![r] = a]
  /\ late' = [late EXCEPT ![r] = FALSE]
  /\ token' = [token EXCEPT ![r] = FALSE]

\* The boundary is full or the participant cannot be prepared.
BeginRefused(r) ==
  /\ phase[r] = "begin"
  /\ Cardinality(active) >= MaxActive \/ r \in active \/ (Faults /\ r \in Bound)
  /\ Answers(r, "refused")
  /\ UNCHANGED <<attempt, ledger, handlerVars, boundaryVars, engineVars, declared>>

Begun(r) ==
  /\ phase[r] = "begin"
  /\ Cardinality(active) < MaxActive /\ r \notin active
  /\ active' = active \cup {r}
  /\ context' = [context EXCEPT ![r] = "active"]
  /\ engine' = [engine EXCEPT ![r] = {}]

\* The request cannot be copied for its handler: the call ends, its handle stays active.
BeginUncopied(r) ==
  /\ Faults /\ Begun(r)
  /\ Answers(r, "failed")
  /\ UNCHANGED <<attempt, ledger, handlerVars, op, effects, declared>>

\* A retry past the wall budget is closed without a handler.
BeginLate(r) ==
  /\ Begun(r) /\ attempt[r] > 1 /\ late[r]
  /\ token' = [token EXCEPT ![r] = TRUE]
  /\ phase' = [phase EXCEPT ![r] = "closing"]
  /\ pending' = [pending EXCEPT ![r] = "timeout"]
  /\ op' = [op EXCEPT ![r]["dispatcher"] = [kind |-> "close", step |-> "called"]]
  /\ UNCHANGED <<attempt, late, ledger, handlerVars, effects, declared>>

BeginHandler(r) ==
  /\ Begun(r) /\ (attempt[r] = 1 \/ ~late[r])
  /\ phase' = [phase EXCEPT ![r] = "running"]
  /\ handler' = [handler EXCEPT ![r] = "running"]
  /\ returned' = [returned EXCEPT ![r] = None]
  /\ UNCHANGED <<attempt, late, token, pending, ledger, op, effects, declared>>

\* _close_transaction: a handle that is no longer active is left as it is.
Close(r, why) ==
  /\ phase' = [phase EXCEPT ![r] = "closing"]
  /\ pending' = [pending EXCEPT ![r] = why]
  /\ op' = [op EXCEPT ![r]["dispatcher"] =
              IF context[r] # "active" THEN Ended("dispatcher", "close", TRUE)
                                       ELSE LookedUp(r, "close")]
  /\ returned' = [returned EXCEPT ![r] = None]
  /\ UNCHANGED <<attempt, late, ledger, handler, active, context, engineVars, declared>>

SeeCancelled(r) ==
  /\ phase[r] = "running" /\ token[r]
  /\ Close(r, "cancelled") /\ UNCHANGED token

\* Mutant: the clock is read only after the handler has ended.
SeeLate_AfterHandler(r) ==
  /\ phase[r] = "running" /\ late[r] /\ handler[r] = "over"
  /\ token' = [token EXCEPT ![r] = TRUE]
  /\ Close(r, "timeout")

SeeLate(r) ==
  /\ phase[r] = "running" /\ late[r] /\ (handler[r] = "over" \/ ~token[r])
  /\ token' = [token EXCEPT ![r] = TRUE]
  /\ Close(r, "timeout")

\* An error, or a result of a consequential handler that left its transaction open.
SeeFailure(r) ==
  /\ phase[r] = "running" /\ handler[r] = "over" /\ ~late[r]
  /\ \/ /\ returned[r] # "value" /\ Close(r, returned[r])
     \/ /\ returned[r] = "value"
        /\ context[r] = "closed" \/ (context[r] = "active" /\ r \in Consequential)
        /\ Close(r, "failed")
  /\ UNCHANGED token

\* The result of a read-only handler commits its handle before it is published.
Publish(r) ==
  /\ phase[r] = "running" /\ handler[r] = "over" /\ ~late[r] /\ returned[r] = "value"
  /\ r \notin Consequential /\ context[r] = "active"
  /\ phase' = [phase EXCEPT ![r] = "publishing"]
  /\ op' = [op EXCEPT ![r]["dispatcher"] = LookedUp(r, "commit")]
  /\ returned' = [returned EXCEPT ![r] = None]
  /\ UNCHANGED <<attempt, late, token, pending, ledger, handler, active, context,
                 engineVars, declared>>

Published(r) ==
  /\ phase[r] = "publishing" /\ op[r]["dispatcher"].step \in {"done", "error"}
  /\ Answers(r, IF op[r]["dispatcher"].step = "done" THEN "supported" ELSE "failed")
  /\ op' = [op EXCEPT ![r]["dispatcher"] = Idle]
  /\ UNCHANGED <<attempt, ledger, handlerVars, active, context, engineVars, declared>>

\* Mutant: the state of the transaction is not looked at before the result is accepted.
Accept_Open(r) ==
  /\ phase[r] = "running" /\ handler[r] = "over" /\ ~late[r] /\ returned[r] = "value"
  /\ Answers(r, "supported")
  /\ returned' = [returned EXCEPT ![r] = None]
  /\ UNCHANGED <<attempt, ledger, handler, boundaryVars, engineVars, declared>>

Accept(r) ==
  /\ phase[r] = "running" /\ handler[r] = "over" /\ ~late[r] /\ returned[r] = "value"
  /\ context[r] = "committed"
  /\ Answers(r, "supported")
  /\ returned' = [returned EXCEPT ![r] = None]
  /\ UNCHANGED <<attempt, ledger, handler, boundaryVars, engineVars, declared>>

\* Mutants: one attempt too many; a consequential failure is retried unless it was closed badly.
Retries_OneMore(r) ==
  /\ op[r]["dispatcher"].step = "done" /\ attempt[r] <= MaxRetries + 1
  /\ \/ pending[r] = "idempotent"
     \/ pending[r] = "retry" /\ r \notin Consequential

Retries_Undeclared(r) ==
  /\ op[r]["dispatcher"].step = "done" /\ attempt[r] <= MaxRetries
  /\ pending[r] \in {"idempotent", "retry"}

\* A retryable failure is tried again; a consequential one only if it is idempotent.
Retries(r) ==
  /\ op[r]["dispatcher"].step = "done" /\ attempt[r] <= MaxRetries
  /\ \/ pending[r] = "idempotent"
     \/ pending[r] = "retry" /\ r \notin Consequential

Closed(r) == phase[r] = "closing" /\ op[r]["dispatcher"].step \in {"done", "error"}

Retry(r) ==
  /\ Closed(r) /\ Retries(r)
  /\ phase' = [phase EXCEPT ![r] = "begin"]
  /\ attempt' = [attempt EXCEPT ![r] = @ + 1]
  /\ declared' = [declared EXCEPT ![r] = @ \/ pending[r] = "idempotent"]
  /\ op' = [op EXCEPT ![r]["dispatcher"] = Idle]
  /\ UNCHANGED <<late, token, pending, ledger, handlerVars, active, context, engineVars>>

GiveUp(r) ==
  /\ Closed(r) /\ ~Retries(r)
  /\ Answers(r, IF /\ op[r]["dispatcher"].step = "done"
                   /\ pending[r] \in {"timeout", "cancelled"}
                THEN pending[r] ELSE "failed")
  /\ op' = [op EXCEPT ![r]["dispatcher"] = Idle]
  /\ UNCHANGED <<attempt, ledger, handlerVars, active, context, engineVars, declared>>

\* Under the lock: the request leaves the calls in flight and enters the ledger.
Record(r) ==
  /\ phase[r] = "answer"
  /\ phase' = [phase EXCEPT ![r] = "done"]
  /\ ledger' = [ledger EXCEPT ![r] = pending[r]]
  /\ pending' = [pending EXCEPT ![r] = None]
  /\ UNCHANGED <<attempt, late, token, handlerVars, boundaryVars, engineVars, declared>>
-----------------------------------------------------------------------------
(***************************************************************************)
(* The environment: the clock, and a user who cancels.  Both are left out  *)
(* once the dispatcher no longer reads them.                               *)
(***************************************************************************)
Watched(r) == phase[r] \in {"begin", "running", "closing"}

Expire(r) ==
  /\ Watched(r) /\ ~late[r]
  /\ late' = [late EXCEPT ![r] = TRUE]
  /\ UNCHANGED <<dispatcherVars, handlerVars, boundaryVars, engineVars, declared>>

Cancel(r) ==
  /\ Watched(r) /\ ~token[r]
  /\ token' = [token EXCEPT ![r] = TRUE]
  /\ UNCHANGED <<phase, attempt, pending, ledger, late, handlerVars, boundaryVars, engineVars,
                 declared>>

TransactionStep(r, x) == Participate(r, x) \/ Move(r, x) \/ Assign(r, x)

HandlerStep(r) ==
  \/ \E k \in {"commit", "close"} : HandlerCalls(r, k)
  \/ \E h \in Ends[r] : HandlerEnds(r, h)
  \/ TransactionStep(r, "handler")

DispatcherStep(r) ==
  \/ BeginRefused(r) \/ BeginUncopied(r) \/ BeginLate(r) \/ BeginHandler(r)
  \/ SeeCancelled(r) \/ SeeLate(r) \/ SeeFailure(r)
  \/ Publish(r) \/ Published(r) \/ Accept(r) \/ Retry(r) \/ GiveUp(r) \/ Record(r)
  \/ TransactionStep(r, "dispatcher")

Next ==
  \E r \in Request : Admit(r) \/ HandlerStep(r) \/ DispatcherStep(r) \/ Expire(r) \/ Cancel(r)

Spec == Init /\ [][Next]_vars

\* The dispatcher's thread runs and time passes; a handler may hang for ever.
FairSpec ==
  /\ Spec
  /\ \A r \in Request : WF_vars(DispatcherStep(r)) /\ WF_vars(Expire(r))
-----------------------------------------------------------------------------
(***************************************************************************)
(* Properties                                                              *)
(***************************************************************************)

\* A supported answer means that the engine committed the attempt and was never told
\* to roll it back, whatever the two threads did to its transaction.
SupportedIsCommitted ==
  \A r \in Bound : ledger[r] = "supported" => engine[r] = {"commit"}

\* Retries, cancellation and late handlers together make the engine commit a request
\* at most once, unless a handler declared its failure idempotent.
EffectOnce == \A r \in Request : effects[r] <= 1 \/ declared[r]

\* A handle that outlives its call belongs to a call whose request could not be copied:
\* every call that started its handler, however it ended, has retired its transaction.
LeakOnlyBeforeHandler ==
  \A r \in active : \/ phase[r] \in {"running", "publishing", "closing"}
                    \/ /\ "failed" \in {pending[r], ledger[r]}
                       /\ engine[r] = {} /\ handler[r] # "running"

\* No handler starts for a request the ledger has answered.
NotRunAgain ==
  [][\A r \in Request : handler'[r] = "running" /\ handler[r] # "running" => ledger[r] = None]_vars

\* Every call that was admitted is answered, even if its handler hangs.
EveryCallIsAnswered == \A r \in Request : r \in InFlight ~> r \in Completed

\* What docs/design/conversational-tool-schemas.md says of the replay ledger.
LedgerBounded == Cardinality(Completed) <= MaxReplay

-----------------------------------------------------------------------------
(***************************************************************************)
(* The inductive invariant, one request at a time                          *)
(***************************************************************************)

\* The two threads of a call, and which of them may be in a transaction call.
ThreadsInv(r) ==
  LET d == op[r]["dispatcher"]
      h == op[r]["handler"]
  IN /\ phase[r] = "done" <=> ledger[r] # None
     /\ phase[r] = "new" => attempt[r] = 0
     /\ phase[r] # "new" => attempt[r] >= 1
     /\ phase[r] \in {"new", "begin"} => handler[r] # "running" /\ r \notin active
     /\ phase[r] \notin {"publishing", "closing"} => d = Idle
     /\ phase[r] = "publishing" =>
          d.kind = "commit" /\ r \notin Consequential /\ handler[r] = "over"
     /\ phase[r] = "closing" => d.kind = "close"
     /\ phase[r] \in {"publishing", "closing"} => d.step # "idle"
     /\ handler[r] # "running" => h = Idle
     /\ h.step \in {"idle", "called", "settled", "raised", "moved"}
     /\ h.step = "idle" => h = Idle
     /\ phase[r] = "closing" /\ pending[r] \notin {"timeout", "cancelled"} => handler[r] = "over"
     /\ phase[r] = "answer" => pending[r] \in Answer

\* Handles: an active one is what the context holds, and each is retired once.
HandleInv(r) ==
  /\ r \in active => context[r] = "active"
  /\ \A x \in Thread : op[r][x].step = "moved" => r \notin active
  /\ phase[r] = "running" /\ op[r]["handler"].step \in {"called", "settled", "raised"}
       => r \in active
  /\ phase[r] \in {"publishing", "closing"} /\ op[r]["dispatcher"].step \in {"done", "error"}
       => r \notin active
  /\ r \in active => \/ phase[r] \in {"running", "publishing", "closing"}
                     \/ /\ "failed" \in {pending[r], ledger[r]}
                        /\ engine[r] = {} /\ handler[r] # "running"

\* What the engine has done, as far as the handler's thread has come.
EngineInv(r) ==
  LET h == op[r]["handler"] IN
  /\ r \notin Bound => engine[r] = {} /\ effects[r] = 0
  /\ r \in Bound =>
       /\ phase[r] = "running" =>
            engine[r] = IF h.step \in {"settled", "moved"} THEN {h.kind}
                        ELSE IF h = Idle /\ context[r] = "committed" THEN {"commit"}
                        ELSE IF h = Idle /\ context[r] = "closed" THEN {"close"} ELSE {}
       /\ h.step \in {"called", "raised"} /\ h.kind = "commit" => "commit" \notin engine[r]
       /\ h = Idle /\ r \in active => "commit" \notin engine[r]
       /\ attempt[r] > 1 => declared[r]
       /\ ~declared[r] => effects[r] = IF "commit" \in engine[r] THEN 1 ELSE 0
       /\ phase[r] \in {"new", "begin"} /\ ~declared[r] => engine[r] = {}

AnswerInv(r) ==
  "supported" \in {pending[r], ledger[r]} =>
    /\ phase[r] \in {"answer", "done"} /\ handler[r] = "over"
    /\ r \in Bound => engine[r] = {"commit"}

DispatchInv ==
  TypeOK /\ \A r \in Request : ThreadsInv(r) /\ HandleInv(r) /\ EngineInv(r) /\ AnswerInv(r)
===================================================================================
