--------------------------- MODULE ToolDispatch_proofs ---------------------------
(***************************************************************************)
(* The safety properties of ToolDispatch for any requests, retries, limits *)
(* and ends of the handlers.  A step is a step of one request: it keeps    *)
(* that request's part of the invariant, and leaves the other parts alone. *)
(***************************************************************************)
EXTENDS ToolDispatch, TLAPS

-----------------------------------------------------------------------------
\* The invariant of one request, and the steps of its two threads.
CallInv(r) == ThreadsInv(r) /\ HandleInv(r) /\ EngineInv(r) /\ AnswerInv(r)

RequestStep(r) == Admit(r) \/ HandlerStep(r) \/ DispatcherStep(r) \/ Expire(r) \/ Cancel(r)

\* Every step keeps the types.
LEMMA TypeStep ==
  ASSUME TypeOK, NEW r \in Request, ThreadsInv(r), RequestStep(r)
  PROVE  TypeOK'
<1> USE DispatchAssumption, NoneAssumption DEF TypeOK, vars, dispatcherVars, handlerVars, boundaryVars, engineVars
<1>1. CASE Admit(r)
  BY <1>1 DEF Admit
<1>2. ASSUME NEW x \in Thread, Participate(r, x) PROVE TypeOK'
  <2> DEFINE k == op[r][x].kind
  <2>1. op[r][x] \in Op /\ k \in {"commit", "close"}
    BY DEF Op
  <2>2. op' \in [Request -> [Thread -> Op]]
    <3>1. ASSUME NEW s \in {"settled", "raised"}, op' = [op EXCEPT ![r][x].step = s]
          PROVE  op' \in [Request -> [Thread -> Op]]
      <4>1. [op[r][x] EXCEPT !.step = s] \in Op
        BY <2>1 DEF Op
      <4> QED
        BY <3>1, <4>1
    <3> QED
      BY <1>2, <3>1 DEF Participate
  <2>3. engine' \in [Request -> SUBSET {"commit", "close"}] /\ effects' \in [Request -> Nat]
    <3>1. engine[r] \cup {k} \in SUBSET {"commit", "close"}
      BY <2>1
    <3>2. (IF k = "commit" THEN effects[r] + 1 ELSE effects[r]) \in Nat
      OBVIOUS
    <3>3. \/ UNCHANGED engineVars
          \/ /\ engine' = [engine EXCEPT ![r] = @ \cup {k}]
             /\ effects' = [effects EXCEPT ![r] = IF k = "commit" THEN @ + 1 ELSE @]
      BY <1>2 DEF Participate
    <3>4. CASE UNCHANGED engineVars
      BY <3>4
    <3>5. ASSUME engine' = [engine EXCEPT ![r] = @ \cup {k}],
                 effects' = [effects EXCEPT ![r] = IF k = "commit" THEN @ + 1 ELSE @]
          PROVE  /\ engine' \in [Request -> SUBSET {"commit", "close"}]
                 /\ effects' \in [Request -> Nat]
      <4> HIDE DEF k
      <4>1. engine' \in [Request -> SUBSET {"commit", "close"}]
        BY <3>1, <3>5
      <4>2. effects' \in [Request -> Nat]
        BY <3>2, <3>5
      <4> QED
        BY <4>1, <4>2
    <3> QED
      BY <3>3, <3>4, <3>5
  <2> QED
    BY <1>2, <2>2, <2>3 DEF Participate
<1>3. ASSUME NEW x \in Thread, Move(r, x) PROVE TypeOK'
  <2> DEFINE k == op[r][x].kind
  <2>1. op[r][x] \in Op /\ k \in {"commit", "close"}
    BY DEF Op
  <2>2. [op[r][x] EXCEPT !.step = "moved"] \in Op /\ Ended(x, k, FALSE) \in Op
    BY <2>1 DEF Op, Ended, Idle
  <2>3. op' \in [Request -> [Thread -> Op]]
    BY <1>3, <2>2 DEF Move
  <2> QED
    BY <1>3, <2>3 DEF Move
<1>4. ASSUME NEW x \in Thread, Assign(r, x) PROVE TypeOK'
  BY <1>4 DEF Assign, Op, Ended, Idle
<1>5. ASSUME NEW k \in {"commit", "close"}, HandlerCalls(r, k) PROVE TypeOK'
  BY <1>5 DEF HandlerCalls, Op, LookedUp, Thread
<1>6. ASSUME NEW h \in Ends[r], HandlerEnds(r, h) PROVE TypeOK'
  BY <1>6 DEF HandlerEnds
<1>7. CASE BeginRefused(r)
  BY <1>7 DEF BeginRefused, Answers, Answer
<1>8. CASE BeginUncopied(r)
  BY <1>8 DEF BeginUncopied, Begun, Answers, Answer
<1>9. CASE BeginLate(r)
  BY <1>9 DEF BeginLate, Begun, Op, Thread, Answer
<1>10. CASE BeginHandler(r)
  BY <1>10 DEF BeginHandler, Begun
<1>11. CASE SeeCancelled(r)
  BY <1>11 DEF SeeCancelled, Close, Op, Thread, Answer, LookedUp, Ended
<1>12. CASE SeeLate(r)
  BY <1>12 DEF SeeLate, Close, Op, Thread, Answer, LookedUp, Ended
<1>13. CASE SeeFailure(r)
  <2>1. ASSUME NEW why \in HandlerResult \cup {None}, Close(r, why), UNCHANGED token
        PROVE  TypeOK'
    BY <2>1 DEF Close, Op, Thread, LookedUp, Ended
  <2> QED
    BY <1>13, <2>1 DEF SeeFailure, HandlerResult
<1>14. CASE Publish(r)
  BY <1>14 DEF Publish, Op, Thread, LookedUp
<1>15. CASE Published(r)
  BY <1>15 DEF Published, Answers, Answer, Op, Thread, Idle
<1>16. CASE Accept(r)
  BY <1>16 DEF Accept, Answers, Answer
<1>17. CASE Retry(r)
  BY <1>17 DEF Retry, Retries, Op, Thread, Idle
<1>18. CASE GiveUp(r)
  BY <1>18 DEF GiveUp, Answers, Answer, Op, Thread, Idle
<1>19. CASE Record(r)
  BY <1>19 DEF Record, ThreadsInv
<1>20. CASE Expire(r)
  BY <1>20 DEF Expire
<1>21. CASE Cancel(r)
  BY <1>21 DEF Cancel
<1> QED
  BY <1>1, <1>2, <1>3, <1>4, <1>5, <1>6, <1>7, <1>8, <1>9, <1>10, <1>11, <1>12, <1>13,
     <1>14, <1>15, <1>16, <1>17, <1>18, <1>19, <1>20, <1>21
  DEF RequestStep, HandlerStep, DispatcherStep, TransactionStep, Thread

\* What another request's step leaves alone.
Same(q) ==
  /\ phase'[q] = phase[q] /\ attempt'[q] = attempt[q] /\ late'[q] = late[q]
  /\ token'[q] = token[q] /\ handler'[q] = handler[q] /\ returned'[q] = returned[q]
  /\ (q \in active') = (q \in active) /\ context'[q] = context[q] /\ op'[q] = op[q]
  /\ pending'[q] = pending[q] /\ ledger'[q] = ledger[q] /\ engine'[q] = engine[q]
  /\ effects'[q] = effects[q] /\ declared'[q] = declared[q]

\* The step of a request changes nothing of another request.
LEMMA OtherRequests ==
  ASSUME TypeOK, NEW r \in Request, RequestStep(r), NEW q \in Request, q # r
  PROVE  Same(q)
<1> USE DEF TypeOK, Same, dispatcherVars, handlerVars, boundaryVars, engineVars
<1>1. CASE Admit(r)
  BY <1>1 DEF Admit
<1>2. ASSUME NEW x \in Thread, TransactionStep(r, x) PROVE Same(q)
  <2>1. CASE Participate(r, x)
    BY <2>1 DEF Participate
  <2>2. CASE Move(r, x)
    BY <2>2 DEF Move
  <2>3. CASE Assign(r, x)
    BY <2>3 DEF Assign
  <2> QED
    BY <1>2, <2>1, <2>2, <2>3 DEF TransactionStep
<1>3. ASSUME NEW k \in {"commit", "close"}, HandlerCalls(r, k) PROVE Same(q)
  BY <1>3 DEF HandlerCalls
<1>4. ASSUME NEW h \in Ends[r], HandlerEnds(r, h) PROVE Same(q)
  BY <1>4 DEF HandlerEnds
<1>5. CASE BeginRefused(r) \/ BeginUncopied(r) \/ BeginLate(r) \/ BeginHandler(r)
  BY <1>5 DEF BeginRefused, BeginUncopied, BeginLate, BeginHandler, Begun, Answers
<1>6. ASSUME NEW why, Close(r, why), \A p \in Request \ {r} : token'[p] = token[p]
      PROVE  Same(q)
  BY <1>6 DEF Close
<1>7. CASE SeeCancelled(r) \/ SeeLate(r) \/ SeeFailure(r)
  BY <1>6, <1>7 DEF SeeCancelled, SeeLate, SeeFailure
<1>8. CASE Publish(r) \/ Published(r) \/ Accept(r)
  BY <1>8 DEF Publish, Published, Accept, Answers
<1>9. CASE Retry(r) \/ GiveUp(r) \/ Record(r)
  BY <1>9 DEF Retry, GiveUp, Record, Answers
<1>10. CASE Expire(r) \/ Cancel(r)
  BY <1>10 DEF Expire, Cancel
<1> QED
  BY <1>1, <1>2, <1>3, <1>4, <1>5, <1>7, <1>8, <1>9, <1>10
  DEF RequestStep, HandlerStep, DispatcherStep, Thread

\* A request of which nothing changes keeps its invariant.
LEMMA SameKeepsInv ==
  ASSUME NEW q \in Request, CallInv(q), Same(q)
  PROVE  CallInv(q)'
<1>1. ThreadsInv(q)'
  BY DEF CallInv, ThreadsInv, Same
<1>2. HandleInv(q)'
  BY DEF CallInv, HandleInv, Same
<1>3. EngineInv(q)'
  BY DEF CallInv, EngineInv, Same
<1>4. AnswerInv(q)'
  BY DEF CallInv, AnswerInv, Same
<1> QED
  BY <1>1, <1>2, <1>3, <1>4 DEF CallInv

-----------------------------------------------------------------------------
\* A step of a request keeps the invariant of that request.
LEMMA OwnStep ==
  ASSUME TypeOK, NEW r \in Request, CallInv(r), RequestStep(r)
  PROVE  CallInv(r)'
<1> USE DispatchAssumption, NoneAssumption DEF TypeOK, dispatcherVars, handlerVars, boundaryVars, engineVars, Idle, Thread, Answer, HandlerResult
<1>1. CASE Admit(r)
  <2>1. ThreadsInv(r)'
    BY <1>1 DEF Admit, Completed, InFlight, CallInv, ThreadsInv
  <2>2. HandleInv(r)'
    BY <1>1 DEF Admit, Completed, InFlight, CallInv, ThreadsInv, HandleInv
  <2>3. EngineInv(r)'
    BY <1>1 DEF Admit, Completed, InFlight, CallInv, ThreadsInv, HandleInv, EngineInv
  <2>4. AnswerInv(r)'
    BY <1>1 DEF Admit, Completed, InFlight, CallInv, ThreadsInv, HandleInv, EngineInv, AnswerInv
  <2> QED
    BY <2>1, <2>2, <2>3, <2>4 DEF CallInv
<1>2. CASE BeginRefused(r)
  <2>1. ThreadsInv(r)'
    BY <1>2 DEF BeginRefused, Answers, CallInv, ThreadsInv
  <2>2. HandleInv(r)'
    BY <1>2 DEF BeginRefused, Answers, CallInv, ThreadsInv, HandleInv
  <2>3. EngineInv(r)'
    BY <1>2 DEF BeginRefused, Answers, CallInv, ThreadsInv, HandleInv, EngineInv
  <2>4. AnswerInv(r)'
    BY <1>2 DEF BeginRefused, Answers, CallInv, ThreadsInv, HandleInv, EngineInv, AnswerInv
  <2> QED
    BY <2>1, <2>2, <2>3, <2>4 DEF CallInv
<1>3. CASE BeginUncopied(r)
  <2>1. ThreadsInv(r)'
    BY <1>3 DEF BeginUncopied, Begun, Answers, CallInv, ThreadsInv
  <2>2. HandleInv(r)'
    BY <1>3 DEF BeginUncopied, Begun, Answers, CallInv, ThreadsInv, HandleInv
  <2>3. EngineInv(r)'
    BY <1>3 DEF BeginUncopied, Begun, Answers, CallInv, ThreadsInv, HandleInv, EngineInv
  <2>4. AnswerInv(r)'
    BY <1>3 DEF BeginUncopied, Begun, Answers, CallInv, ThreadsInv, HandleInv, EngineInv, AnswerInv
  <2> QED
    BY <2>1, <2>2, <2>3, <2>4 DEF CallInv
<1>4. CASE BeginLate(r)
  <2>1. ThreadsInv(r)'
    BY <1>4 DEF BeginLate, Begun, CallInv, ThreadsInv
  <2>2. HandleInv(r)'
    BY <1>4 DEF BeginLate, Begun, CallInv, ThreadsInv, HandleInv
  <2>3. EngineInv(r)'
    BY <1>4 DEF BeginLate, Begun, CallInv, ThreadsInv, HandleInv, EngineInv
  <2>4. AnswerInv(r)'
    BY <1>4 DEF BeginLate, Begun, CallInv, ThreadsInv, HandleInv, EngineInv, AnswerInv
  <2> QED
    BY <2>1, <2>2, <2>3, <2>4 DEF CallInv
<1>5. CASE BeginHandler(r)
  <2>1. ThreadsInv(r)'
    BY <1>5 DEF BeginHandler, Begun, CallInv, ThreadsInv
  <2>2. HandleInv(r)'
    BY <1>5 DEF BeginHandler, Begun, CallInv, ThreadsInv, HandleInv
  <2>3. EngineInv(r)'
    BY <1>5 DEF BeginHandler, Begun, CallInv, ThreadsInv, HandleInv, EngineInv
  <2>4. AnswerInv(r)'
    BY <1>5 DEF BeginHandler, Begun, CallInv, ThreadsInv, HandleInv, EngineInv, AnswerInv
  <2> QED
    BY <2>1, <2>2, <2>3, <2>4 DEF CallInv
<1>6. CASE SeeCancelled(r)
  <2>1. ThreadsInv(r)'
    BY <1>6 DEF SeeCancelled, Close, LookedUp, Ended, CallInv, ThreadsInv
  <2>2. HandleInv(r)'
    BY <1>6 DEF SeeCancelled, Close, LookedUp, Ended, CallInv, ThreadsInv, HandleInv
  <2>3. EngineInv(r)'
    BY <1>6 DEF SeeCancelled, Close, LookedUp, Ended, CallInv, ThreadsInv, HandleInv, EngineInv
  <2>4. AnswerInv(r)'
    BY <1>6 DEF SeeCancelled, Close, LookedUp, Ended, CallInv, ThreadsInv, HandleInv, EngineInv, AnswerInv
  <2> QED
    BY <2>1, <2>2, <2>3, <2>4 DEF CallInv
<1>7. CASE SeeLate(r)
  <2>1. ThreadsInv(r)'
    BY <1>7 DEF SeeLate, Close, LookedUp, Ended, CallInv, ThreadsInv
  <2>2. HandleInv(r)'
    BY <1>7 DEF SeeLate, Close, LookedUp, Ended, CallInv, ThreadsInv, HandleInv
  <2>3. EngineInv(r)'
    BY <1>7 DEF SeeLate, Close, LookedUp, Ended, CallInv, ThreadsInv, HandleInv, EngineInv
  <2>4. AnswerInv(r)'
    BY <1>7 DEF SeeLate, Close, LookedUp, Ended, CallInv, ThreadsInv, HandleInv, EngineInv, AnswerInv
  <2> QED
    BY <2>1, <2>2, <2>3, <2>4 DEF CallInv
<1>8. CASE SeeFailure(r)
  <2>1. /\ op'[r] = [op[r] EXCEPT !["dispatcher"] =
                      IF context[r] # "active" THEN Ended("dispatcher", "close", TRUE)
                                               ELSE LookedUp(r, "close")]
        /\ phase'[r] = "closing" /\ phase[r] = "running" /\ handler[r] = "over"
        /\ pending'[r] \in HandlerResult \cup {None} \cup Answer /\ pending'[r] # "supported"
        /\ UNCHANGED <<attempt, ledger, handler, active, context, engine, effects, declared>>
    <3>1. /\ phase[r] = "running" /\ handler[r] = "over"
          /\ Close(r, returned[r]) \/ Close(r, "failed")
      BY <1>8 DEF SeeFailure
    <3>2. pending'[r] \in {returned[r], "failed"} /\ phase'[r] = "closing"
      BY <3>1 DEF Close
    <3>3. returned[r] \in HandlerResult \cup {None}
      OBVIOUS
    <3> HIDE DEF HandlerResult
    <3>4. /\ op'[r] = [op[r] EXCEPT !["dispatcher"] =
                        IF context[r] # "active" THEN Ended("dispatcher", "close", TRUE)
                                                 ELSE LookedUp(r, "close")]
          /\ UNCHANGED <<attempt, ledger, handler, active, context, engine, effects, declared>>
      BY <3>1 DEF Close
    <3>5. "supported" \notin HandlerResult \cup {None} \cup {"failed"}
      BY DEF HandlerResult
    <3> QED
      BY <3>1, <3>2, <3>3, <3>4, <3>5
  <2>2. /\ op'[r]["handler"] = op[r]["handler"]
        /\ op'[r]["dispatcher"].step \in {"done", "called", "error"}
        /\ op'[r]["dispatcher"].kind = "close"
        /\ op'[r]["dispatcher"].step \in {"done", "error"} => r \notin active
    BY <2>1 DEF Ended, LookedUp, CallInv, HandleInv
  <2>3. ThreadsInv(r)'
    BY <2>1, <2>2 DEF CallInv, ThreadsInv
  <2>4. HandleInv(r)'
    BY <2>1, <2>2 DEF CallInv, HandleInv
  <2>5. EngineInv(r)'
    BY <2>1, <2>2 DEF CallInv, ThreadsInv, EngineInv
  <2>6. AnswerInv(r)'
    BY <2>1, <2>2 DEF CallInv, ThreadsInv, AnswerInv
  <2> QED
    BY <2>3, <2>4, <2>5, <2>6 DEF CallInv
<1>9. CASE Publish(r)
  <2>1. ThreadsInv(r)'
    BY <1>9 DEF Publish, LookedUp, CallInv, ThreadsInv
  <2>2. HandleInv(r)'
    BY <1>9 DEF Publish, LookedUp, CallInv, ThreadsInv, HandleInv
  <2>3. EngineInv(r)'
    BY <1>9 DEF Publish, LookedUp, CallInv, ThreadsInv, HandleInv, EngineInv
  <2>4. AnswerInv(r)'
    BY <1>9 DEF Publish, LookedUp, CallInv, ThreadsInv, HandleInv, EngineInv, AnswerInv
  <2> QED
    BY <2>1, <2>2, <2>3, <2>4 DEF CallInv
<1>10. CASE Published(r)
  <2>1. ThreadsInv(r)'
    BY <1>10 DEF Published, Answers, CallInv, ThreadsInv
  <2>2. HandleInv(r)'
    BY <1>10 DEF Published, Answers, CallInv, ThreadsInv, HandleInv
  <2>3. EngineInv(r)'
    BY <1>10 DEF Published, Answers, CallInv, ThreadsInv, HandleInv, EngineInv
  <2>4. AnswerInv(r)'
    BY <1>10 DEF Published, Answers, CallInv, ThreadsInv, HandleInv, EngineInv, AnswerInv
  <2> QED
    BY <2>1, <2>2, <2>3, <2>4 DEF CallInv
<1>11. CASE Accept(r)
  <2>1. ThreadsInv(r)'
    BY <1>11 DEF Accept, Answers, CallInv, ThreadsInv
  <2>2. HandleInv(r)'
    BY <1>11 DEF Accept, Answers, CallInv, ThreadsInv, HandleInv
  <2>3. EngineInv(r)'
    BY <1>11 DEF Accept, Answers, CallInv, ThreadsInv, HandleInv, EngineInv
  <2>4. AnswerInv(r)'
    BY <1>11 DEF Accept, Answers, CallInv, ThreadsInv, HandleInv, EngineInv, AnswerInv
  <2> QED
    BY <2>1, <2>2, <2>3, <2>4 DEF CallInv
<1>12. CASE Retry(r)
  <2>0. /\ phase[r] = "closing" /\ phase'[r] = "begin"
        /\ attempt[r] \in Nat /\ attempt'[r] = attempt[r] + 1 /\ attempt[r] >= 1
        /\ op'[r]["dispatcher"] = Idle /\ op'[r]["handler"] = op[r]["handler"]
        /\ handler[r] = "over" /\ op[r]["handler"] = Idle /\ r \notin active
        /\ declared'[r] = (declared[r] \/ pending[r] = "idempotent")
        /\ r \in Consequential => pending[r] = "idempotent"
        /\ UNCHANGED <<pending, ledger, handler, active, context, engine, effects>>
    <3>1. attempt'[r] = attempt[r] + 1 /\ attempt[r] \in Nat
      BY <1>12 DEF Retry
    <3>2. pending[r] \in {"retry", "idempotent"} /\ op[r]["dispatcher"].step = "done"
      BY <1>12 DEF Retry, Retries
    <3>3. phase[r] = "closing" /\ phase'[r] = "begin"
      BY <1>12 DEF Retry, Closed
    <3>4. handler[r] = "over" /\ op[r]["handler"] = Idle /\ r \notin active /\ attempt[r] >= 1
      BY <3>2, <3>3 DEF CallInv, ThreadsInv, HandleInv
    <3>5. op'[r]["dispatcher"] = Idle /\ op'[r]["handler"] = op[r]["handler"]
      BY <1>12 DEF Retry
    <3>6. /\ declared'[r] = (declared[r] \/ pending[r] = "idempotent")
          /\ r \in Consequential => pending[r] = "idempotent"
          /\ UNCHANGED <<pending, ledger, handler, active, context, engine, effects>>
      BY <1>12 DEF Retry, Retries
    <3> QED
      BY <3>1, <3>3, <3>4, <3>5, <3>6
  <2>1. ThreadsInv(r)'
    BY <2>0 DEF CallInv, ThreadsInv
  <2>2. HandleInv(r)'
    BY <2>0 DEF CallInv, HandleInv
  <2>3. EngineInv(r)'
    BY <2>0 DEF CallInv, ThreadsInv, EngineInv
  <2>4. AnswerInv(r)'
    BY <1>12 DEF Retry, Retries, Closed, CallInv, ThreadsInv, HandleInv, EngineInv, AnswerInv
  <2> QED
    BY <2>1, <2>2, <2>3, <2>4 DEF CallInv
<1>13. CASE GiveUp(r)
  <2>1. ThreadsInv(r)'
    BY <1>13 DEF GiveUp, Retries, Closed, Answers, CallInv, ThreadsInv
  <2>2. HandleInv(r)'
    BY <1>13 DEF GiveUp, Retries, Closed, Answers, CallInv, ThreadsInv, HandleInv
  <2>3. EngineInv(r)'
    BY <1>13 DEF GiveUp, Retries, Closed, Answers, CallInv, ThreadsInv, HandleInv, EngineInv
  <2>4. AnswerInv(r)'
    BY <1>13 DEF GiveUp, Retries, Closed, Answers, CallInv, ThreadsInv, HandleInv, EngineInv, AnswerInv
  <2> QED
    BY <2>1, <2>2, <2>3, <2>4 DEF CallInv
<1>14. CASE Record(r)
  <2>1. ThreadsInv(r)'
    BY <1>14 DEF Record, CallInv, ThreadsInv
  <2>2. HandleInv(r)'
    BY <1>14 DEF Record, CallInv, ThreadsInv, HandleInv
  <2>3. EngineInv(r)'
    BY <1>14 DEF Record, CallInv, ThreadsInv, HandleInv, EngineInv
  <2>4. AnswerInv(r)'
    BY <1>14 DEF Record, CallInv, ThreadsInv, HandleInv, EngineInv, AnswerInv
  <2> QED
    BY <2>1, <2>2, <2>3, <2>4 DEF CallInv
<1>15. CASE Expire(r)
  <2>1. ThreadsInv(r)'
    BY <1>15 DEF Expire, CallInv, ThreadsInv
  <2>2. HandleInv(r)'
    BY <1>15 DEF Expire, CallInv, ThreadsInv, HandleInv
  <2>3. EngineInv(r)'
    BY <1>15 DEF Expire, CallInv, ThreadsInv, HandleInv, EngineInv
  <2>4. AnswerInv(r)'
    BY <1>15 DEF Expire, CallInv, ThreadsInv, HandleInv, EngineInv, AnswerInv
  <2> QED
    BY <2>1, <2>2, <2>3, <2>4 DEF CallInv
<1>16. CASE Cancel(r)
  <2>1. ThreadsInv(r)'
    BY <1>16 DEF Cancel, CallInv, ThreadsInv
  <2>2. HandleInv(r)'
    BY <1>16 DEF Cancel, CallInv, ThreadsInv, HandleInv
  <2>3. EngineInv(r)'
    BY <1>16 DEF Cancel, CallInv, ThreadsInv, HandleInv, EngineInv
  <2>4. AnswerInv(r)'
    BY <1>16 DEF Cancel, CallInv, ThreadsInv, HandleInv, EngineInv, AnswerInv
  <2> QED
    BY <2>1, <2>2, <2>3, <2>4 DEF CallInv
<1>17. ASSUME NEW x \in Thread, Participate(r, x) PROVE CallInv(r)'
  <2> DEFINE k == op[r][x].kind
  <2>1. k \in {"commit", "close"} /\ op[r][x].step = "called" /\ op[r][x] \in Op
    BY <1>17 DEF Op, Participate
  <2>2. UNCHANGED <<phase, attempt, handler, active, context, pending, ledger, declared>>
    BY <1>17 DEF Participate
  <2>3. \/ /\ op'[r] = [op[r] EXCEPT ![x] = [@ EXCEPT !.step = "settled"]]
           /\ r \in Bound
           /\ engine'[r] = engine[r] \cup {k}
           /\ effects'[r] = IF k = "commit" THEN effects[r] + 1 ELSE effects[r]
        \/ /\ op'[r] = [op[r] EXCEPT ![x] = [@ EXCEPT !.step = "settled"]]
           /\ r \notin Bound /\ engine'[r] = engine[r] /\ effects'[r] = effects[r]
        \/ /\ op'[r] = [op[r] EXCEPT ![x] = [@ EXCEPT !.step = "raised"]]
           /\ engine'[r] = engine[r] /\ effects'[r] = effects[r]
    BY <1>17 DEF Participate
  <2>4. /\ op[r] \in [Thread -> Op]
        /\ \A s : /\ [op[r][x] EXCEPT !.step = s].step = s
                  /\ [op[r][x] EXCEPT !.step = s].kind = k
        /\ \A s : /\ [op[r] EXCEPT ![x] = s][x] = s
                  /\ \A y \in Thread : y # x => [op[r] EXCEPT ![x] = s][y] = op[r][y]
    BY <2>1 DEF Op
  <2>5. /\ op'[r][x].kind = k /\ op'[r][x].step \in {"settled", "raised"}
        /\ op'[r][x].step = "raised" => engine'[r] = engine[r] /\ effects'[r] = effects[r]
        /\ \A y \in Thread : y # x => op'[r][y] = op[r][y]
    <3> HIDE DEF k
    <3>1. ASSUME NEW s, s \in {"settled", "raised"},
                 op'[r] = [op[r] EXCEPT ![x] = [@ EXCEPT !.step = s]]
          PROVE  /\ op'[r][x].kind = k /\ op'[r][x].step = s
                 /\ \A y \in Thread : y # x => op'[r][y] = op[r][y]
      <4>1. op'[r] = [op[r] EXCEPT ![x] = [op[r][x] EXCEPT !.step = s]]
        BY <3>1
      <4> QED
        BY <2>4, <4>1
    <3> QED
      BY <2>3, <3>1
  <2>6. ThreadsInv(r)'
    BY <1>17 DEF Participate, Ended, Op, CallInv, ThreadsInv
  <2>7. HandleInv(r)'
    <3>1. r \in active => context[r] = "active"
      BY DEF CallInv, HandleInv
    <3>2. \A y \in Thread : op'[r][y].step = "moved" => r \notin active
      BY <2>5 DEF CallInv, HandleInv
    <3>3. phase[r] \in {"publishing", "closing"} /\ op'[r]["dispatcher"].step \in {"done", "error"}
            => r \notin active
      BY <2>5 DEF CallInv, HandleInv
    <3>4. r \in active => phase[r] \in {"running", "publishing", "closing"}
      <4>1. CASE x = "handler"
        <5>1. op[r]["handler"] # Idle
          BY <2>1, <4>1
        <5> QED
          BY <5>1 DEF CallInv, ThreadsInv, HandleInv
      <4>2. CASE x = "dispatcher"
        <5>1. op[r]["dispatcher"] # Idle
          BY <2>1, <4>2
        <5> QED
          BY <5>1 DEF CallInv, ThreadsInv
      <4> QED
        BY <4>1, <4>2
    <3>5. phase[r] = "running" /\ op'[r]["handler"].step \in {"called", "settled", "raised"}
            => r \in active
      BY <2>1, <2>5 DEF CallInv, HandleInv
    <3> QED
      BY <2>2, <3>1, <3>2, <3>3, <3>4, <3>5 DEF HandleInv
  <2>8. EngineInv(r)'
    <3> HIDE DEF k
    <3>1. CASE r \notin Bound
      BY <2>2, <2>3, <3>1 DEF CallInv, EngineInv
    <3>2. CASE r \in Bound /\ x = "handler"
      <4>1. op[r]["handler"].step = "called" /\ op[r]["handler"].kind = k /\ op[r]["handler"] # Idle
        BY <2>1, <3>2 DEF k
      <4>2. handler[r] = "running" /\ phase[r] \notin {"new", "begin"}
        BY <4>1 DEF CallInv, ThreadsInv
      <4>3. effects[r] \in Nat /\ (k = "commit" => "commit" \notin engine[r])
        BY <3>2, <4>1 DEF CallInv, EngineInv
      <4>4. phase[r] = "running" => engine[r] = {}
        BY <3>2, <4>1 DEF CallInv, EngineInv
      <4>5. op'[r]["handler"].kind = k /\ op'[r]["handler"].step \in {"settled", "raised"}
        BY <2>5, <3>2
      <4>6. op'[r]["handler"] # Idle
        BY <4>5
      <4>7. CASE op'[r]["handler"].step = "settled"
        <5>1. /\ engine'[r] = engine[r] \cup {k}
              /\ effects'[r] = IF k = "commit" THEN effects[r] + 1 ELSE effects[r]
          BY <2>1, <2>3, <3>2, <4>7 DEF Op
        <5> QED
          BY <2>1, <2>2, <3>2, <4>2, <4>3, <4>4, <4>5, <4>6, <4>7, <5>1 DEF CallInv, EngineInv
      <4>8. CASE op'[r]["handler"].step = "raised"
        <5>1. engine'[r] = engine[r] /\ effects'[r] = effects[r]
          BY <2>5, <3>2, <4>8
        <5> QED
          BY <2>2, <3>2, <4>2, <4>3, <4>4, <4>5, <4>6, <4>8, <5>1 DEF CallInv, EngineInv
      <4> QED
        BY <4>5, <4>7, <4>8
    <3>3. CASE r \in Bound /\ x = "dispatcher"
      <4>1. op[r]["dispatcher"].kind = k /\ op[r]["dispatcher"] # Idle
        BY <2>1, <3>3 DEF k
      <4>2. k = "close" /\ phase[r] = "closing"
        BY <3>3, <4>1, DispatchAssumption DEF CallInv, ThreadsInv
      <4>3. op'[r]["handler"] = op[r]["handler"]
        BY <2>5, <3>3
      <4>4. effects'[r] = effects[r] /\ ("commit" \in engine'[r] <=> "commit" \in engine[r])
        BY <2>3, <4>2
      <4> QED
        BY <2>2, <3>3, <4>2, <4>3, <4>4 DEF CallInv, EngineInv
    <3> QED
      BY <3>1, <3>2, <3>3
  <2>9. AnswerInv(r)'
    BY <1>17 DEF Participate, Ended, Op, CallInv, ThreadsInv, HandleInv, EngineInv, AnswerInv
  <2> QED
    BY <2>6, <2>7, <2>8, <2>9 DEF CallInv
<1>18. ASSUME NEW x \in Thread, Move(r, x) PROVE CallInv(r)'
  <2>1. ThreadsInv(r)'
    BY <1>18 DEF Move, Ended, Op, CallInv, ThreadsInv
  <2>2. HandleInv(r)'
    BY <1>18 DEF Move, Ended, Op, CallInv, ThreadsInv, HandleInv
  <2>3. EngineInv(r)'
    <3>1. /\ op[r][x] \in Op /\ op[r][x].step \in {"settled", "raised"}
          /\ UNCHANGED <<phase, attempt, context, engine, effects, declared>>
          /\ active' = active \ {r}
      BY <1>18 DEF Move
    <3>2. CASE x = "dispatcher"
      <4>1. op'[r]["handler"] = op[r]["handler"]
        BY <1>18, <3>2 DEF Move
      <4> QED
        BY <3>1, <4>1 DEF CallInv, EngineInv
    <3>3. CASE x = "handler"
      <4> DEFINE h == op[r]["handler"]
      <4>1. h.step \in {"settled", "raised"} /\ h # Idle /\ h \in Op
        BY <3>1, <3>3
      <4>2. op'[r]["handler"] = IF h.step = "settled" /\ r \in active
                                THEN [h EXCEPT !.step = "moved"] ELSE Idle
        BY <1>18, <3>3 DEF Move, Ended
      <4>3. handler[r] = "running" /\ phase[r] \notin {"new", "begin"}
        BY <4>1 DEF CallInv, ThreadsInv
      <4>4. CASE h.step = "settled" /\ r \in active
        <5>1. op'[r]["handler"].kind = h.kind /\ op'[r]["handler"].step = "moved"
          BY <4>1, <4>2, <4>4 DEF Op
        <5> QED
          BY <3>1, <4>1, <4>3, <4>4, <5>1 DEF CallInv, EngineInv
      <4>5. CASE ~(h.step = "settled" /\ r \in active)
        <5>1. op'[r]["handler"] = Idle
          BY <4>2, <4>5
        <5> QED
          BY <3>1, <4>1, <4>3, <4>5, <5>1 DEF CallInv, EngineInv, HandleInv
      <4> QED
        BY <4>4, <4>5
    <3> QED
      BY <3>2, <3>3
  <2>4. AnswerInv(r)'
    BY <1>18 DEF Move, Ended, Op, CallInv, ThreadsInv, HandleInv, EngineInv, AnswerInv
  <2> QED
    BY <2>1, <2>2, <2>3, <2>4 DEF CallInv
<1>19. ASSUME NEW x \in Thread, Assign(r, x) PROVE CallInv(r)'
  <2>1. ThreadsInv(r)'
    BY <1>19 DEF Assign, Ended, Op, CallInv, ThreadsInv
  <2>2. HandleInv(r)'
    BY <1>19 DEF Assign, Ended, Op, CallInv, ThreadsInv, HandleInv
  <2>3. EngineInv(r)'
    BY <1>19 DEF Assign, Ended, Op, CallInv, ThreadsInv, HandleInv, EngineInv
  <2>4. AnswerInv(r)'
    BY <1>19 DEF Assign, Ended, Op, CallInv, ThreadsInv, HandleInv, EngineInv, AnswerInv
  <2> QED
    BY <2>1, <2>2, <2>3, <2>4 DEF CallInv
<1>20. ASSUME NEW k \in {"commit", "close"}, HandlerCalls(r, k) PROVE CallInv(r)'
  <2>1. ThreadsInv(r)'
    BY <1>20 DEF HandlerCalls, LookedUp, CallInv, ThreadsInv
  <2>2. HandleInv(r)'
    BY <1>20 DEF HandlerCalls, LookedUp, CallInv, ThreadsInv, HandleInv
  <2>3. EngineInv(r)'
    BY <1>20 DEF HandlerCalls, LookedUp, CallInv, ThreadsInv, HandleInv, EngineInv
  <2>4. AnswerInv(r)'
    BY <1>20 DEF HandlerCalls, LookedUp, CallInv, ThreadsInv, HandleInv, EngineInv, AnswerInv
  <2> QED
    BY <2>1, <2>2, <2>3, <2>4 DEF CallInv
<1>21. ASSUME NEW h \in Ends[r], HandlerEnds(r, h) PROVE CallInv(r)'
  <2>1. ThreadsInv(r)'
    BY <1>21 DEF HandlerEnds, CallInv, ThreadsInv
  <2>2. HandleInv(r)'
    BY <1>21 DEF HandlerEnds, CallInv, ThreadsInv, HandleInv
  <2>3. EngineInv(r)'
    BY <1>21 DEF HandlerEnds, CallInv, ThreadsInv, HandleInv, EngineInv
  <2>4. AnswerInv(r)'
    BY <1>21 DEF HandlerEnds, CallInv, ThreadsInv, HandleInv, EngineInv, AnswerInv
  <2> QED
    BY <2>1, <2>2, <2>3, <2>4 DEF CallInv
<1> QED
  BY <1>1, <1>2, <1>3, <1>4, <1>5, <1>6, <1>7, <1>8, <1>9, <1>10, <1>11, <1>12, <1>13, <1>14, <1>15, <1>16, <1>17, <1>18, <1>19, <1>20, <1>21
  DEF RequestStep, HandlerStep, DispatcherStep, TransactionStep, Thread

-----------------------------------------------------------------------------
\* The invariant holds at first and is kept by every step.
LEMMA InitInv == Init => DispatchInv
<1> SUFFICES ASSUME Init PROVE DispatchInv
  OBVIOUS
<1> USE DispatchAssumption, NoneAssumption DEF Init, Idle, Thread
<1>1. TypeOK
  BY DEF TypeOK, Op
<1>2. ASSUME NEW r \in Request PROVE CallInv(r)
  BY DEF CallInv, ThreadsInv, HandleInv, EngineInv, AnswerInv, Answer
<1> QED
  BY <1>1, <1>2 DEF DispatchInv, CallInv

LEMMA StepInv == DispatchInv /\ [Next]_vars => DispatchInv'
<1> SUFFICES ASSUME DispatchInv, [Next]_vars PROVE DispatchInv'
  OBVIOUS
<1>1. TypeOK /\ \A q \in Request : CallInv(q)
  BY DEF DispatchInv, CallInv
<1>2. CASE UNCHANGED vars
  BY <1>2 DEF vars, DispatchInv, TypeOK, ThreadsInv, HandleInv, EngineInv, AnswerInv
<1>3. ASSUME NEW r \in Request, RequestStep(r) PROVE DispatchInv'
  <2>1. TypeOK'
    BY <1>1, <1>3, TypeStep DEF CallInv
  <2>2. ASSUME NEW q \in Request PROVE CallInv(q)'
    <3>1. CASE q = r
      BY <1>1, <1>3, <3>1, OwnStep
    <3>2. CASE q # r
      BY <1>1, <1>3, <3>2, OtherRequests, SameKeepsInv
    <3> QED
      BY <3>1, <3>2
  <2> QED
    BY <2>1, <2>2 DEF DispatchInv, CallInv
<1> QED
  BY <1>2, <1>3 DEF Next, RequestStep

-----------------------------------------------------------------------------
\* The two threads of every call, its transaction handle, the engine and the answer
\* agree, whatever the dispatcher and the handlers do (conversation/dispatcher.py).
THEOREM DispatchIsSafe == Spec => []DispatchInv
<1> QED
  BY InitInv, StepInv, PTL DEF Spec

\* A supported answer to a call with a participant means that the engine was told to
\* commit the attempt, and nothing else.
THEOREM SupportedMeansCommitted == Spec => []SupportedIsCommitted
<1>1. DispatchInv => SupportedIsCommitted
  BY DispatchAssumption DEF DispatchInv, AnswerInv, SupportedIsCommitted
<1> QED
  BY <1>1, DispatchIsSafe, PTL

\* The engine commits a request once, unless a handler declared its failure idempotent.
THEOREM EffectsHappenOnce == Spec => []EffectOnce
<1>1. DispatchInv => EffectOnce
  BY DEF DispatchInv, EngineInv, EffectOnce, TypeOK
<1> QED
  BY <1>1, DispatchIsSafe, PTL

\* Every call that started its handler retires its transaction before it is answered.
THEOREM OnlyUncopiedCallsLeak == Spec => []LeakOnlyBeforeHandler
<1>1. DispatchInv => LeakOnlyBeforeHandler
  BY DEF DispatchInv, TypeOK, HandleInv, LeakOnlyBeforeHandler
<1> QED
  BY <1>1, DispatchIsSafe, PTL

\* A request in the replay ledger does not reach its handler again.
THEOREM AnsweredCallsAreNotRunAgain == Spec => NotRunAgain
<1>1. DispatchInv /\ [Next]_vars =>
        [\A r \in Request : handler'[r] = "running" /\ handler[r] # "running" => ledger[r] = None]_vars
  <2> SUFFICES ASSUME DispatchInv, NEW q \in Request, RequestStep(q),
                      NEW r \in Request, handler'[r] = "running", handler[r] # "running"
               PROVE  ledger[r] = None
    BY DEF Next, RequestStep, vars
  <2>1. CASE q # r
    BY <2>1, OtherRequests DEF DispatchInv, Same
  <2>2. CASE q = r
    <3>1. BeginHandler(r)
      <4> USE <2>2 DEF dispatcherVars, handlerVars, DispatchInv, TypeOK
      <4>1. \A x \in Thread : ~TransactionStep(r, x)
        BY DEF TransactionStep, Participate, Move, Assign
      <4>2. \A k \in {"commit", "close"} : ~HandlerCalls(r, k)
        BY DEF HandlerCalls
      <4>3. \A h \in Ends[r] : ~HandlerEnds(r, h)
        BY DEF HandlerEnds
      <4>4. ~(SeeCancelled(r) \/ SeeLate(r) \/ SeeFailure(r))
        BY DEF SeeCancelled, SeeLate, SeeFailure, Close
      <4>5. ~(Admit(r) \/ Expire(r) \/ Cancel(r) \/ BeginRefused(r) \/ BeginUncopied(r) \/ BeginLate(r))
        BY DEF Admit, Expire, Cancel, BeginRefused, BeginUncopied, BeginLate
      <4>6. ~(Publish(r) \/ Published(r) \/ Accept(r) \/ Retry(r) \/ GiveUp(r) \/ Record(r))
        BY DEF Publish, Published, Accept, Retry, GiveUp, Record
      <4> QED
        BY <4>1, <4>2, <4>3, <4>4, <4>5, <4>6 DEF RequestStep, HandlerStep, DispatcherStep, Thread
    <3> QED
      BY <3>1 DEF BeginHandler, Begun, DispatchInv, ThreadsInv
  <2> QED
    BY <2>1, <2>2
<1> QED
  BY <1>1, DispatchIsSafe, PTL DEF Spec, NotRunAgain
===================================================================================
