--------------------------- MODULE DeliveryProofs ---------------------------
(***************************************************************************)
(* Theorems about the delivery of operations: it implements the outbox, so *)
(* everything proved in OutboxProofs holds of it, and the acknowledgement  *)
(* of a capture is on record before anybody needs it.                      *)
(***************************************************************************)
EXTENDS Delivery, OutboxProofs

-----------------------------------------------------------------------------
(* Delivery implements Outbox. *)

\* A step of the delivery is a step of the outbox, or leaves the outbox alone.
LEMMA DeliveryStep == [DeliveryNext]_deliveryVars => [Next]_vars
  <1> SUFFICES ASSUME [DeliveryNext]_deliveryVars PROVE Next \/ UNCHANGED vars
    OBVIOUS
  <1>1. ASSUME NEW o \in Op, EnqueueOperation(o) PROVE Next
    BY <1>1 DEF EnqueueOperation, Next
  <1>2. ASSUME NEW w \in Worker, Claim(w) \/ Vanish(w) \/ FlushStep(w) PROVE Next
    BY <1>2 DEF Claim, Vanish, FlushStep, WorkerStep, Next
  <1>3. ASSUME NEW w \in Worker, ExecutorStep(w) PROVE Next \/ UNCHANGED vars
    <2>1. ASSUME NEW r, ExecutorReturns(w, r), r \in Result PROVE Next
      BY <2>1 DEF WorkerStep, Next
    <2>2. ASSUME NEW r \in Op, Supersede(w, r) PROVE Next
      BY <2>2 DEF WorkerStep, Next
    <2>3. CASE Send(w)
      BY <2>3, <2>1 DEF Send, Result
    <2>4. \A o, code : ResultFor(o, code) \in Result
      BY DEF ResultFor, Result
    <2>5. CASE Return(w) \/ RecordAndReturn(w)
      BY <2>1, <2>4, <2>5 DEF Return, RecordAndReturn
    <2>6. CASE RecordFails(w) \/ ReconcileFails(w)
      BY <2>1, <2>6 DEF RecordFails, ReconcileFails, Result
    <2>7. CASE Reconcile(w)
      BY <2>2, <2>7 DEF Reconcile
    <2> QED
      BY <1>3, <2>3, <2>5, <2>6, <2>7 DEF ExecutorStep
  <1>4. CASE ServerStep
    BY <1>4 DEF ServerStep, Serve, Preview, TurnAway, GiveUp, ArriveLate, Settle, ForeignWrite
  <1> QED
    BY <1>1, <1>2, <1>3, <1>4 DEF DeliveryNext, Next, deliveryVars

\* Whatever is proved of the outbox holds of it when the executor behaves as
\* _execute_operation does (runtime.py:653): the result it applies is one of
\* those Outbox allows, and it writes the tables through supersede alone.
THEOREM Implements == DeliverySpec => Spec
  <1>1. DeliveryInit => Init
    BY DEF DeliveryInit
  <1> QED
    BY <1>1, DeliveryStep, PTL DEF DeliverySpec, Spec

\* Exclusive claims and the order of dependencies, among the rest, hold of the
\* delivery (outbox.py:822, runtime.py:653).
THEOREM OutboxHolds == DeliverySpec => [](IInv /\ ExclusiveAttempt)
  BY Implements, Inductive, Exclusive, PTL

-----------------------------------------------------------------------------
(* The inductive invariant. *)

LEMMA DeliveryTypeInit == DeliveryInit => DeliveryTypeOK
  BY DEF DeliveryInit, DeliveryTypeOK, Request, Reply, NoCall, NoAnswer, Init

\* SourceAssumption, as the proofs use it.
LEMMA Sources ==
  ASSUME NEW o \in Op
  PROVE  /\ Target[o] \in Raw /\ Target[o] \in Op
         /\ Named[o] \in Nat
         /\ o \notin Raw => DependsOn[o] = NoOp \/ DependsOn[o] = Target[o]
         /\ o \in Raw => DependsOn[o] = NoOp
  BY SourceAssumption

LEMMA ExpectedType == ASSUME DeliveryTypeOK, NEW o \in Op PROVE Expected(o) \in Nat
  BY Sources, SourceAssumption DEF DeliveryTypeOK, Expected

\* A worker that waits has the operation it waits for.
LEMMA WaitingFor ==
  ASSUME DeliveryTypeOK, CallsOwn, WorkerShape, NEW w \in Worker, call[w] # NoCall
  PROVE  call[w].op \in Op /\ call[w].op = op[w] /\ pc[w] = "executing"
  BY DEF CallsOwn, WorkerShape

\* The server's handling of one request.
LEMMA ProcessKeeps ==
  ASSUME DeliveryTypeOK, ReceiptsTell,
         NEW q \in Request, q.op \in Op, NEW reply, Process(q, reply)
  PROVE  /\ receipt' \in [Op -> {"none", "pending", "rolled_back", "done"}]
         /\ stored' \in [Op -> Nat]
         /\ current' \in [Raw -> Nat]
         /\ life' \in [Raw -> {"active", "stale", "erased"}]
         /\ effects' \in [Op -> Nat]
         /\ ReceiptsTell'
         /\ \A o \in Op : receipt[o] = "done" => receipt'[o] = "done"
         /\ reply.code \in {"done", "replayed"} =>
                receipt'[q.op] = "done" /\ reply.revision = 1
  <1>1. PICK r \in {"pending", "done"} :
           \/ Perform(q, r) /\ TakeEffect(q.op)
           \/ Perform(q, r) /\ r = "pending" /\ UNCHANGED <<current, life, effects>>
           \/ UNCHANGED server
    BY DEF Process
  <1>2. /\ receipt' \in [Op -> {"none", "pending", "rolled_back", "done"}]
        /\ stored' \in [Op -> Nat]
    BY <1>1 DEF DeliveryTypeOK, Perform, server, Request
  <1>3. /\ current' \in [Raw -> Nat]
        /\ life' \in [Raw -> {"active", "stale", "erased"}]
        /\ effects' \in [Op -> Nat]
    BY <1>1, Sources DEF DeliveryTypeOK, TakeEffect, server
  <1>4. ReceiptsTell' /\ \A o \in Op : receipt[o] = "done" => receipt'[o] = "done"
    BY <1>1, Sources DEF DeliveryTypeOK, ReceiptsTell, Perform, TakeEffect, server
  <1>5. reply.code \in {"done", "replayed"} =>
            receipt'[q.op] = "done" /\ reply.revision = 1
    BY DEF Process, Replies, Perform, Said, server, DeliveryTypeOK
  <1> QED
    BY <1>2, <1>3, <1>4, <1>5

\* What a worker sends is a request for its operation.
LEMMA Sent ==
  ASSUME DeliveryTypeOK, WorkerShape, NEW w \in Worker, Send(w)
  PROVE  \/ \E q \in Request : /\ q.op = op[w]
                               /\ call' = [call EXCEPT ![w] = q]
                               /\ UNCHANGED vars
         \/ UNCHANGED call /\ ExecutorReturns(w, "retry")
  <1>1. op[w] \in Op
    BY DEF Send, WorkerShape
  <1>2. Expected(op[w]) \in Nat
    BY <1>1, ExpectedType
  <1> DEFINE preview == op[w] \notin Raw /\ seen[w] = "reconcile_revision"
             request == [op |-> op[w], expected |-> Expected(op[w]), preview |-> preview]
  <1>3. preview \in BOOLEAN
    OBVIOUS
  <1>4. \/ call' = [call EXCEPT ![w] = request] /\ UNCHANGED vars
        \/ UNCHANGED call /\ ExecutorReturns(w, "retry")
    BY DEF Send
  <1> HIDE DEF preview
  <1>5. request \in Request /\ request.op = op[w]
    BY <1>1, <1>2, <1>3 DEF Request
  <1> QED
    BY <1>4, <1>5

\* Every step keeps the types and the agreement of receipts and effects.
LEMMA DeliveryTypeStep ==
  DeliveryTypeOK /\ ReceiptsTell /\ CallsOwn /\ IInv /\ [DeliveryNext]_deliveryVars
    => DeliveryTypeOK' /\ ReceiptsTell'
  <1> SUFFICES ASSUME DeliveryTypeOK, ReceiptsTell, CallsOwn, IInv,
                      [DeliveryNext]_deliveryVars
               PROVE  DeliveryTypeOK' /\ ReceiptsTell'
    OBVIOUS
  <1>0. WorkerShape /\ TypeOK
    BY DEF IInv
  <1>1. CASE UNCHANGED wire
    BY <1>1 DEF wire, executor, server, DeliveryTypeOK, ReceiptsTell
  <1>2. ASSUME NEW w \in Worker, Claim(w) PROVE DeliveryTypeOK' /\ ReceiptsTell'
    <2>1. \E o \in Op : seen' = [seen EXCEPT ![w] = state[o]] /\ state[o] \in OperationState
      BY <1>2, <1>0 DEF Claim, ClaimPage, Candidates, Claimable, OperationState, TypeOK
    <2> QED
      BY <1>2, <2>1 DEF Claim, server, DeliveryTypeOK, ReceiptsTell
  <1>3. ASSUME NEW w \in Worker, Vanish(w) PROVE DeliveryTypeOK' /\ ReceiptsTell'
    <2>1. call[w] # NoCall => call[w].op \in Op
      BY <1>0, WaitingFor
    <2> QED
      BY <1>3, <2>1 DEF Vanish, Hangup, Waiting, NoCall, NoAnswer, Request, Reply, server,
                        DeliveryTypeOK, ReceiptsTell
  <1>4. ASSUME NEW w \in Worker, Send(w) PROVE DeliveryTypeOK' /\ ReceiptsTell'
    <2>1. call' \in [Worker -> Request]
      BY <1>4, <1>0, Sent DEF DeliveryTypeOK
    <2> QED
      BY <1>4, <2>1 DEF Send, server, DeliveryTypeOK, ReceiptsTell
  <1>5. ASSUME NEW w \in Worker,
               Return(w) \/ RecordAndReturn(w) \/ RecordFails(w) \/ Reconcile(w) \/ ReconcileFails(w)
        PROVE  DeliveryTypeOK' /\ ReceiptsTell'
    <2>1. Hangup(w) /\ UNCHANGED <<seen, late, server>>
      BY <1>5 DEF Return, RecordAndReturn, RecordFails, Reconcile, ReconcileFails
    <2>2. revision' \in [Raw -> Nat]
      BY <1>5 DEF Return, RecordAndReturn, RecordFails, Reconcile, ReconcileFails,
                  DeliveryTypeOK, Reply
    <2> QED
      BY <2>1, <2>2 DEF Hangup, NoCall, NoAnswer, Request, Reply, server,
                        DeliveryTypeOK, ReceiptsTell
  <1>6. ASSUME NEW w \in Worker, Serve(w) PROVE DeliveryTypeOK' /\ ReceiptsTell'
    <2>1. PICK reply \in Replies(call[w]) \cup {Said("lost")} :
              Process(call[w], reply) /\ answer' \in {[answer EXCEPT ![w] = reply],
                                                      [answer EXCEPT ![w] = Said("garbled")]}
      BY <1>6 DEF Serve
    <2>2. call[w] \in Request /\ call[w].op \in Op
      BY <1>6, <1>0, WaitingFor DEF Serve, Waiting, DeliveryTypeOK
    <2>3. reply \in Reply /\ Said("garbled") \in Reply
      BY <2>1 DEF Replies, Said, Reply, Regular, Irregular
    <2> QED
      BY <1>6, <2>1, <2>2, <2>3, ProcessKeeps DEF Serve, DeliveryTypeOK
  <1>7. ASSUME NEW w \in Worker, Preview(w) \/ TurnAway(w) \/ GiveUp(w)
        PROVE  DeliveryTypeOK' /\ ReceiptsTell'
    <2>1. call[w] \in Request /\ call[w].op \in Op /\ Target[call[w].op] \in Raw
      BY <1>7, <1>0, WaitingFor, Sources DEF Preview, TurnAway, GiveUp, Waiting, DeliveryTypeOK
    <2>2. answer' \in [Worker -> Reply]
      BY <1>7, <2>1 DEF Preview, TurnAway, GiveUp, Said, Reply, Regular, Irregular,
                        DeliveryTypeOK
    <2>3. late' \subseteq {q \in Request : q.op \in Op /\ ~q.preview}
      BY <1>7, <2>1 DEF Preview, TurnAway, GiveUp, DeliveryTypeOK
    <2> QED
      BY <1>7, <2>2, <2>3 DEF Preview, TurnAway, GiveUp, server, DeliveryTypeOK, ReceiptsTell
  <1>8. CASE ArriveLate
    <2>1. PICK q \in late : /\ late' = late \ {q}
                            /\ \E reply \in Replies(q) \cup {Said("lost")} : Process(q, reply)
      BY <1>8 DEF ArriveLate
    <2>2. q \in Request /\ q.op \in Op
      BY DEF DeliveryTypeOK
    <2>3. PICK reply : Process(q, reply)
      BY <2>1
    <2> QED
      BY <1>8, <2>1, <2>2, <2>3, ProcessKeeps DEF ArriveLate, executor, DeliveryTypeOK
  <1>9. ASSUME NEW o \in Op, Settle(o) PROVE DeliveryTypeOK' /\ ReceiptsTell'
    BY <1>9 DEF Settle, executor, DeliveryTypeOK, ReceiptsTell
  <1>10. ASSUME NEW s \in Raw, ForeignWrite(s) PROVE DeliveryTypeOK' /\ ReceiptsTell'
    BY <1>10 DEF ForeignWrite, executor, DeliveryTypeOK, ReceiptsTell
  <1> QED
    BY <1>1, <1>2, <1>3, <1>4, <1>5, <1>6, <1>7, <1>8, <1>9, <1>10
       DEF DeliveryNext, EnqueueOperation, FlushStep, ExecutorStep, ServerStep, deliveryVars

\* A request belongs to the operation its worker executes, also while other
\* workers take that operation over.
LEMMA CallsOwnStep ==
  DeliveryTypeOK /\ CallsOwn /\ IInv /\ [DeliveryNext]_deliveryVars => CallsOwn'
  <1> SUFFICES ASSUME DeliveryTypeOK, CallsOwn, IInv, [DeliveryNext]_deliveryVars
               PROVE  CallsOwn'
    OBVIOUS
  <1>0. WorkerShape /\ TypeOK
    BY DEF IInv
  <1>1. ASSUME UNCHANGED <<call, answer>>,
               \A w \in Worker : pc[w] = "executing" => pc'[w] = "executing" /\ op'[w] = op[w]
        PROVE  CallsOwn'
    BY <1>1 DEF CallsOwn
  <1>2. ASSUME NEW w \in Worker, Hangup(w),
               \A v \in Worker : v # w => pc'[v] = pc[v] /\ op'[v] = op[v]
        PROVE  CallsOwn'
    BY <1>2 DEF Hangup, CallsOwn, DeliveryTypeOK
  <1>3. ASSUME NEW w \in Worker, Waiting(w), UNCHANGED <<vars, call>>,
               \E r : answer' = [answer EXCEPT ![w] = r]
        PROVE  CallsOwn'
    BY <1>3 DEF Waiting, CallsOwn, DeliveryTypeOK, vars, worker
  <1>4. ASSUME NEW o \in Op, EnqueueOperation(o) PROVE CallsOwn'
    BY <1>4, <1>1 DEF EnqueueOperation, Enqueue, wire, executor
  <1>5. ASSUME NEW u \in Unblocker, Unblocking(u), UNCHANGED wire PROVE CallsOwn'
    BY <1>5, <1>1 DEF Unblocking, UnblockBegins, UnblockAuth, UnblockFails, worker, wire,
                      executor
  <1>6. ASSUME NEW w \in Worker, Claim(w) PROVE CallsOwn'
    BY <1>6, <1>1, <1>0 DEF Claim, ClaimPage, TypeOK
  <1>7. ASSUME NEW w \in Worker, Vanish(w) PROVE CallsOwn'
    BY <1>7, <1>2, <1>0 DEF Vanish, Abandon, LeaveFlush, LetGo, TypeOK
  <1>8. ASSUME NEW w \in Worker, FlushStep(w) PROVE CallsOwn'
    <2>1. UNCHANGED <<call, answer>>
      BY <1>8 DEF FlushStep, wire, executor
    <2>2. \A v \in Worker : pc[v] = "executing" => pc'[v] = "executing" /\ op'[v] = op[v]
      <3>1. CASE FlushStart(w)
        BY <3>1, <1>0 DEF FlushStart, TypeOK
      <3>2. CASE DeadlineBeforeClaim(w) \/ NothingToClaim(w)
        BY <3>2, <1>0 DEF DeadlineBeforeClaim, NothingToClaim, LeaveFlush, LetGo, TypeOK
      <3>3. CASE ReleaseUnattempted(w)
        BY <3>3, <1>0 DEF ReleaseUnattempted, LeaveFlush, LetGo, TypeOK
      <3>4. CASE StartAttempt(w) \/ RenewClaim(w)
        BY <3>4, <1>0 DEF StartAttempt, RenewClaim, TypeOK
      <3>5. CASE ApplyFailure(w) \/ Archive(w) \/ ApplySuperseded(w)
        BY <3>5, <1>0 DEF ApplyFailure, Archive, ApplySuperseded, LetGo, TypeOK
      <3>6. CASE ClaimLost(w)
        BY <3>6, <1>0 DEF ClaimLost, LeaveFlush, LetGo, TypeOK
      <3> QED
        BY <1>8, <3>1, <3>2, <3>3, <3>4, <3>5, <3>6 DEF FlushStep
    <2> QED
      BY <1>1, <2>1, <2>2
  <1>9. ASSUME NEW w \in Worker, Send(w) PROVE CallsOwn'
    <2>1. pc[w] = "executing" /\ call[w] = NoCall /\ UNCHANGED answer
      BY <1>9 DEF Send
    <2>2. CASE \E q \in Request : /\ q.op = op[w]
                                 /\ call' = [call EXCEPT ![w] = q]
                                 /\ UNCHANGED vars
      BY <2>1, <2>2 DEF CallsOwn, DeliveryTypeOK, vars, worker
    <2>3. CASE ExecutorReturns(w, "retry") /\ UNCHANGED call
      BY <2>1, <2>3, <1>0 DEF CallsOwn, ExecutorReturns, TypeOK
    <2> QED
      BY <1>9, <1>0, <2>2, <2>3, Sent
  <1>10. ASSUME NEW w \in Worker,
                Return(w) \/ RecordAndReturn(w) \/ RecordFails(w) \/ Reconcile(w) \/ ReconcileFails(w)
         PROVE  CallsOwn'
    <2>1. Hangup(w)
      BY <1>10 DEF Return, RecordAndReturn, RecordFails, Reconcile, ReconcileFails
    <2>2. (\E r : ExecutorReturns(w, r)) \/ (\E r : Supersede(w, r))
      BY <1>10 DEF Return, RecordAndReturn, RecordFails, Reconcile, ReconcileFails
    <2>3. \A v \in Worker : v # w => pc'[v] = pc[v] /\ op'[v] = op[v]
      BY <2>2, <1>0 DEF ExecutorReturns, Supersede, TypeOK
    <2> QED
      BY <1>2, <2>1, <2>3
  <1>11. ASSUME NEW w \in Worker, Serve(w) \/ Preview(w) \/ TurnAway(w) \/ GiveUp(w)
         PROVE  CallsOwn'
    BY <1>11, <1>3 DEF Serve, Preview, TurnAway, GiveUp
  <1>12. ASSUME UNCHANGED <<vars, executor>> PROVE CallsOwn'
    BY <1>12, <1>1 DEF vars, worker, executor
  <1>13. CASE ArriveLate \/ (\E o \in Op : Settle(o)) \/ (\E s \in Raw : ForeignWrite(s))
    BY <1>12, <1>13 DEF ArriveLate, Settle, ForeignWrite
  <1>14. ASSUME NEW t \in Token, LeaseExpires(t), UNCHANGED wire PROVE CallsOwn'
    BY <1>14, <1>1 DEF LeaseExpires, worker, wire, executor
  <1>15. CASE UNCHANGED deliveryVars
    BY <1>12, <1>15 DEF deliveryVars, wire
  <1> QED
    BY <1>4, <1>5, <1>6, <1>7, <1>8, <1>9, <1>10, <1>11, <1>13, <1>14, <1>15
       DEF DeliveryNext, ExecutorStep, ServerStep

Success == {"succeed", "replay"}
Acked == {"done", "replayed"}

\* The server never takes an acknowledgement back.
LEMMA ReceiptsStay ==
  ASSUME DeliveryTypeOK, ReceiptsTell, CallsOwn, WorkerShape, [DeliveryNext]_deliveryVars,
         NEW o \in Op, receipt[o] = "done"
  PROVE  receipt'[o] = "done"
  <1>1. CASE UNCHANGED server
    BY <1>1 DEF server
  <1>2. ASSUME NEW w \in Worker, Serve(w) PROVE receipt'[o] = "done"
    <2>1. call[w] \in Request /\ call[w].op \in Op
      BY <1>2, WaitingFor DEF Serve, Waiting, DeliveryTypeOK
    <2> QED
      BY <1>2, <2>1, ProcessKeeps DEF Serve
  <1>3. CASE ArriveLate
    BY <1>3, ProcessKeeps DEF ArriveLate, DeliveryTypeOK
  <1>4. ASSUME NEW p \in Op, Settle(p) PROVE receipt'[o] = "done"
    BY <1>4 DEF Settle, DeliveryTypeOK
  <1>5. ASSUME NEW s \in Raw, ForeignWrite(s) PROVE receipt'[o] = "done"
    BY <1>5 DEF ForeignWrite
  <1>6. ASSUME NEW w \in Worker, Preview(w) \/ TurnAway(w) \/ GiveUp(w) PROVE UNCHANGED server
    BY <1>6 DEF Preview, TurnAway, GiveUp
  <1>7. ASSUME NEW w \in Worker, Claim(w) \/ Vanish(w) \/ FlushStep(w) PROVE UNCHANGED server
    BY <1>7 DEF Claim, Vanish, FlushStep, wire
  <1>8. ASSUME NEW w \in Worker, ExecutorStep(w) PROVE UNCHANGED server
    BY <1>8 DEF ExecutorStep, Send, Return, RecordAndReturn, RecordFails, Reconcile, ReconcileFails
  <1>9. ASSUME NEW p \in Op, EnqueueOperation(p) PROVE UNCHANGED server
    BY <1>9 DEF EnqueueOperation, wire
  <1> QED
    BY <1>1, <1>2, <1>3, <1>4, <1>5, <1>6, <1>7, <1>8, <1>9
       DEF DeliveryNext, ServerStep, deliveryVars, wire

\* What is acknowledged and recorded remains so.
LEMMA RecordedStays ==
  ASSUME DeliveryTypeOK, ReceiptsTell, CallsOwn, SuccessVouched, WorkerShape,
         [DeliveryNext]_deliveryVars, NEW o \in Op, Recorded(o)
  PROVE  Recorded(o)'
  <1>1. receipt'[o] = "done"
    BY ReceiptsStay DEF Recorded
  <1>2. CASE UNCHANGED revision
    BY <1>1, <1>2 DEF Recorded
  <1>3. ASSUME NEW w \in Worker, RecordAndReturn(w) PROVE Recorded(o)'
    BY <1>1, <1>3 DEF RecordAndReturn, Acknowledged, SuccessVouched, Recorded, DeliveryTypeOK
  <1>4. ASSUME NEW w \in Worker, ExecutorStep(w), ~RecordAndReturn(w) PROVE UNCHANGED revision
    BY <1>4 DEF ExecutorStep, Send, Return, RecordFails, Reconcile, ReconcileFails
  <1>5. ASSUME NEW w \in Worker, Claim(w) \/ Vanish(w) \/ FlushStep(w) PROVE UNCHANGED revision
    BY <1>5 DEF Claim, Vanish, FlushStep, wire, executor
  <1>6. CASE ServerStep
    BY <1>2, <1>6 DEF ServerStep, Serve, Preview, TurnAway, GiveUp, ArriveLate, Settle,
                      ForeignWrite, executor
  <1>7. ASSUME NEW p \in Op, EnqueueOperation(p) PROVE UNCHANGED revision
    BY <1>7 DEF EnqueueOperation, wire, executor
  <1> QED
    BY <1>2, <1>3, <1>4, <1>5, <1>6, <1>7 DEF DeliveryNext, deliveryVars, wire, executor

\* An acknowledging answer is of the request its worker waits for, or stays.
LEMMA AnswersVouched ==
  ASSUME DeliveryTypeOK, ReceiptsTell, CallsOwn, SuccessVouched, WorkerShape,
         [DeliveryNext]_deliveryVars, NEW w \in Worker, answer'[w].code \in Acked
  PROVE  receipt'[call'[w].op] = "done" /\ answer'[w].revision # 0
  <1> USE DEF Acked
  <1>1. CASE answer'[w] = answer[w] /\ call'[w] = call[w]
    <2>1. call[w].op \in Op /\ receipt[call[w].op] = "done" /\ answer[w].revision # 0
      <3>1. answer[w] # NoAnswer
        BY <1>1 DEF NoAnswer
      <3> QED
        BY <1>1, <3>1, WaitingFor DEF CallsOwn, SuccessVouched
    <2> QED
      BY <1>1, <2>1, ReceiptsStay
  <1>2. ASSUME NEW v \in Worker, Serve(v)
        PROVE  receipt'[call'[w].op] = "done" /\ answer'[w].revision # 0
    <2>1. CASE v # w
      BY <1>1, <1>2, <2>1 DEF Serve, DeliveryTypeOK
    <2>2. CASE v = w
      <3>1. PICK reply : Process(call[w], reply) /\ answer' \in {[answer EXCEPT ![w] = reply],
                                                               [answer EXCEPT ![w] = Said("garbled")]}
        BY <1>2, <2>2 DEF Serve
      <3>2. answer'[w] = reply
        BY <3>1 DEF DeliveryTypeOK, Said
      <3>3. call[w] \in Request /\ call[w].op \in Op /\ call' = call
        BY <1>2, <2>2, WaitingFor DEF Serve, Waiting, DeliveryTypeOK
      <3> QED
        BY <3>1, <3>2, <3>3, ProcessKeeps
    <2> QED
      BY <2>1, <2>2
  <1>3. ASSUME NEW v \in Worker, Preview(v) \/ TurnAway(v) \/ GiveUp(v)
        PROVE  answer'[w] = answer[w] /\ call'[w] = call[w]
    BY <1>3 DEF Preview, TurnAway, GiveUp, Said, DeliveryTypeOK
  <1>4. ASSUME NEW v \in Worker, Hangup(v)
        PROVE  answer'[w] = answer[w] /\ call'[w] = call[w]
    BY <1>4 DEF Hangup, NoAnswer, DeliveryTypeOK
  <1>5. ASSUME NEW v \in Worker, Send(v)
        PROVE  answer'[w] = answer[w] /\ call'[w] = call[w]
    <2>1. answer' = answer /\ call[v] = NoCall
      BY <1>5 DEF Send
    <2>2. answer[w] # NoAnswer
      BY <2>1 DEF NoAnswer
    <2>3. v # w
      BY <2>1, <2>2 DEF CallsOwn
    <2> QED
      BY <1>5, <2>1, <2>3, Sent DEF DeliveryTypeOK
  <1>6. ASSUME NEW v \in Worker, ExecutorStep(v), ~Send(v) PROVE Hangup(v)
    BY <1>6 DEF ExecutorStep, Return, RecordAndReturn, RecordFails, Reconcile, ReconcileFails
  <1>7. ASSUME UNCHANGED executor \/ UNCHANGED <<call, answer>>
        PROVE  answer'[w] = answer[w] /\ call'[w] = call[w]
    BY <1>7 DEF executor
  <1>8. ASSUME NEW v \in Worker, Claim(v) \/ Vanish(v) \/ FlushStep(v)
        PROVE  answer'[w] = answer[w] /\ call'[w] = call[w]
    BY <1>4, <1>7, <1>8 DEF Claim, Vanish, FlushStep, wire
  <1>9. CASE ServerStep
    BY <1>1, <1>2, <1>3, <1>7, <1>9 DEF ServerStep, ArriveLate, Settle, ForeignWrite
  <1>10. ASSUME NEW p \in Op, EnqueueOperation(p) PROVE UNCHANGED executor
    BY <1>10 DEF EnqueueOperation, wire
  <1> QED
    BY <1>1, <1>4, <1>5, <1>6, <1>7, <1>8, <1>9, <1>10 DEF DeliveryNext, deliveryVars, wire

\* The outbox's own steps invent no result: they keep a worker's result with
\* its operation, or set it to what the executor returned, or to "superseded".
LEMMA ResultFrame ==
  ASSUME TypeOK, WorkerShape, [Next]_vars,
         NEW w \in Worker, result'[w] \notin {"none", "superseded"}
  PROVE  \/ result'[w] = result[w] /\ op'[w] = op[w]
         \/ ExecutorReturns(w, result'[w])
  <1> USE DEF vars, worker, TypeOK
  <1>1. ASSUME NEW v \in Worker, WorkerStep(v)
        PROVE  \/ result'[w] = result[w] /\ op'[w] = op[w]
               \/ ExecutorReturns(w, result'[w])
    <2>1. CASE FlushStart(v) \/ StartAttempt(v) \/ RenewClaim(v)
      BY <2>1 DEF FlushStart, StartAttempt, RenewClaim
    <2>2. CASE DeadlineBeforeClaim(v) \/ NothingToClaim(v) \/ ReleaseUnattempted(v)
               \/ ClaimLost(v) \/ Abandon(v)
      BY <2>2 DEF DeadlineBeforeClaim, NothingToClaim, ReleaseUnattempted, ClaimLost, Abandon,
                  LeaveFlush, LetGo
    <2>3. CASE ClaimPage(v)
      BY <2>3 DEF ClaimPage, WorkerShape
    <2>4. CASE ApplyFailure(v) \/ Archive(v) \/ ApplySuperseded(v)
      BY <2>4 DEF ApplyFailure, Archive, ApplySuperseded, LetGo
    <2>5. ASSUME NEW r \in Result, ExecutorReturns(v, r)
          PROVE  \/ result'[w] = result[w] /\ op'[w] = op[w]
                 \/ ExecutorReturns(w, result'[w])
      BY <2>5 DEF ExecutorReturns
    <2>6. ASSUME NEW r \in Op, Supersede(v, r) PROVE result'[w] = result[w] /\ op'[w] = op[w]
      BY <2>6 DEF Supersede
    <2> QED
      BY <1>1, <2>1, <2>2, <2>3, <2>4, <2>5, <2>6 DEF WorkerStep
  <1>2. ASSUME NEW o \in Op, Enqueue(o) PROVE result'[w] = result[w] /\ op'[w] = op[w]
    BY <1>2 DEF Enqueue
  <1>3. ASSUME NEW u \in Unblocker, Unblocking(u) PROVE result'[w] = result[w] /\ op'[w] = op[w]
    BY <1>3 DEF Unblocking, UnblockBegins, UnblockAuth, UnblockFails
  <1>4. ASSUME NEW t \in Token, LeaseExpires(t) PROVE result'[w] = result[w] /\ op'[w] = op[w]
    BY <1>4 DEF LeaseExpires
  <1> QED
    BY <1>1, <1>2, <1>3, <1>4 DEF Next

\* ... and a delivered outcome is written by Archive alone, from such a result.
LEMMA OutcomeFrame ==
  ASSUME TypeOK, WorkerShape, [Next]_vars, NEW o \in Op, outcome'[o] \in Delivered
  PROVE  \/ outcome[o] = outcome'[o]
         \/ \E w \in Worker : op[w] = o /\ result[w] \in Success
  <1> USE DEF Success, vars, table, TypeOK, Delivered
  <1>1. ASSUME NEW w \in Worker, Archive(w)
        PROVE  outcome[o] = outcome'[o] \/ (op[w] = o /\ result[w] \in Success)
    BY <1>1 DEF Archive, OutcomeAfter
  <1>2. ASSUME NEW w \in Worker, ApplyFailure(w) PROVE outcome[o] = outcome'[o]
    BY <1>2 DEF ApplyFailure
  <1>3. ASSUME NEW w \in Worker, NEW r \in Op, Supersede(w, r) PROVE outcome[o] = outcome'[o]
    BY <1>3 DEF Supersede
  <1>4. ASSUME NEW p \in Op, Enqueue(p) PROVE outcome[o] = outcome'[o]
    BY <1>4 DEF Enqueue
  <1>5. ASSUME NEW u \in Unblocker, UnblockAuth(u) PROVE outcome[o] = outcome'[o]
    BY <1>5 DEF UnblockAuth
  <1> QED
    BY <1>1, <1>2, <1>3, <1>4, <1>5, RowsFrame DEF RowsUntouched

\* Only these two steps return anything but a retry.
LEMMA WhatReturns ==
  ASSUME TypeOK, DeliveryTypeOK, WorkerShape, [DeliveryNext]_deliveryVars,
         NEW w \in Worker, ExecutorReturns(w, result'[w]), result'[w] # "retry"
  PROVE  Return(w) \/ RecordAndReturn(w)
  <1>0. pc[w] = "executing" /\ pc'[w] = "applying"
    BY DEF ExecutorReturns, TypeOK
  <1>1. \A v \in Worker : v # w => pc'[v] = pc[v]
    BY DEF ExecutorReturns
  <1>2. ASSUME NEW v \in Worker, Return(v) \/ RecordAndReturn(v)
        PROVE  Return(w) \/ RecordAndReturn(w)
    BY <1>1, <1>2 DEF Return, RecordAndReturn, ExecutorReturns, TypeOK
  <1>3. ASSUME NEW v \in Worker, ExecutorReturns(v, "retry") PROVE FALSE
    BY <1>1, <1>3 DEF ExecutorReturns, TypeOK
  <1>4. ASSUME NEW v \in Worker, NEW r \in Op, Supersede(v, r) PROVE FALSE
    BY <1>1, <1>4 DEF ExecutorReturns, Supersede, TypeOK
  <1>5. ASSUME UNCHANGED pc PROVE FALSE
    BY <1>0, <1>5
  <1>6. ASSUME NEW v \in Worker, Claim(v) \/ Vanish(v) \/ FlushStep(v) PROVE FALSE
    <2>1. v = w => FALSE
      BY <1>0, <1>6 DEF TypeOK, Claim, Vanish, FlushStep, FlushStart, DeadlineBeforeClaim,
                        NothingToClaim, ClaimPage, ReleaseUnattempted, StartAttempt, RenewClaim,
                        ApplyFailure, Archive, ApplySuperseded, ClaimLost, Abandon, LeaveFlush,
                        LetGo, Stopped
    <2>2. v # w => pc'[w] = pc[w]
      BY <1>6 DEF TypeOK, Claim, Vanish, FlushStep, FlushStart, DeadlineBeforeClaim,
                        NothingToClaim, ClaimPage, ReleaseUnattempted, StartAttempt, RenewClaim,
                        ApplyFailure, Archive, ApplySuperseded, ClaimLost, Abandon, LeaveFlush,
                        LetGo, Stopped
    <2> QED
      BY <1>0, <2>1, <2>2
  <1>7. ASSUME UNCHANGED vars PROVE FALSE
    BY <1>5, <1>7 DEF vars, worker
  <1>8. ASSUME NEW v \in Worker, Send(v) PROVE FALSE
    BY <1>3, <1>7, <1>8, Sent
  <1>9. ASSUME NEW o \in Op, EnqueueOperation(o) PROVE FALSE
    BY <1>5, <1>9 DEF EnqueueOperation, Enqueue
  <1>10. ASSUME NEW u \in Unblocker, Unblocking(u) PROVE FALSE
    BY <1>5, <1>10 DEF Unblocking, UnblockBegins, UnblockAuth, UnblockFails, worker
  <1>11. ASSUME NEW t \in Token, LeaseExpires(t) PROVE FALSE
    BY <1>5, <1>11 DEF LeaseExpires, worker
  <1>12. ASSUME ServerStep PROVE FALSE
    BY <1>7, <1>12 DEF ServerStep, Serve, Preview, TurnAway, GiveUp, ArriveLate, Settle,
                       ForeignWrite
  <1>13. ASSUME NEW v \in Worker, ExecutorStep(v) PROVE Return(w) \/ RecordAndReturn(w)
    BY <1>2, <1>3, <1>4, <1>8, <1>13 DEF ExecutorStep, RecordFails, Reconcile, ReconcileFails
  <1> QED
    BY <1>6, <1>7, <1>9, <1>10, <1>11, <1>12, <1>13 DEF DeliveryNext, deliveryVars

\* Success is returned of what the server has just acknowledged, and of a
\* capture only with its revision recorded.
LEMMA ReturnsVouched ==
  ASSUME DeliveryTypeOK, CallsOwn, SuccessVouched, TypeOK, WorkerShape,
         [DeliveryNext]_deliveryVars,
         NEW w \in Worker, ExecutorReturns(w, result'[w]), result'[w] \in Success
  PROVE  Recorded(op[w])' /\ op'[w] = op[w]
  <1> USE DEF Success
  <1>0. op' = op /\ op[w] \in Op
    BY DEF ExecutorReturns, TypeOK, WorkerShape
  <1>1. \A o, code : ResultFor(o, code) \in Success => code \in Acked
    BY DEF ResultFor, Acked
  <1>2. ASSUME answer[w].code \in Acked
        PROVE  receipt[op[w]] = "done" /\ answer[w].revision # 0
    <2>1. answer[w] # NoAnswer
      BY <1>2 DEF NoAnswer, Acked
    <2> QED
      BY <1>2, <2>1 DEF CallsOwn, SuccessVouched, Acked
  <1>3. CASE Return(w)
    <2>1. answer[w].code \in Acked
      BY <1>1, <1>3 DEF Return, ExecutorReturns, TypeOK
    <2>2. op[w] \notin Raw
      BY <1>3, <2>1 DEF Return, Acknowledged, Acked
    <2> QED
      BY <1>0, <1>2, <1>3, <2>1, <2>2 DEF Return, server, Recorded
  <1>4. CASE RecordAndReturn(w)
    <2>1. answer[w].code \in Acked /\ op[w] \in Raw
      BY <1>4 DEF RecordAndReturn, Acknowledged, Acked
    <2> QED
      BY <1>0, <1>2, <1>4, <2>1 DEF RecordAndReturn, server, Recorded, DeliveryTypeOK
  <1> QED
    BY <1>3, <1>4, WhatReturns

LEMMA SuccessVouchedStep ==
  DeliveryTypeOK /\ ReceiptsTell /\ CallsOwn /\ SuccessVouched /\ IInv
    /\ [DeliveryNext]_deliveryVars => SuccessVouched'
  <1> SUFFICES ASSUME DeliveryTypeOK, ReceiptsTell, CallsOwn, SuccessVouched, IInv,
                      [DeliveryNext]_deliveryVars
               PROVE  SuccessVouched'
    OBVIOUS
  <1>0. TypeOK /\ WorkerShape /\ [Next]_vars
    BY DeliveryStep DEF IInv
  <1>1. ASSUME NEW w \in Worker, answer'[w].code \in {"done", "replayed"}
        PROVE  receipt'[call'[w].op] = "done" /\ answer'[w].revision # 0
    BY <1>0, <1>1, AnswersVouched DEF Acked
  <1>2. ASSUME NEW w \in Worker, result'[w] \in {"succeed", "replay"}
        PROVE  Recorded(op[w])'
    <2>1. CASE result'[w] = result[w] /\ op'[w] = op[w]
      <3>1. op[w] \in Op /\ Recorded(op[w])
        BY <1>0, <1>2, <2>1 DEF SuccessVouched, WorkerShape, TypeOK
      <3>2. PICK o \in Op : o = op[w]
        BY <3>1
      <3>3. Recorded(o)'
        BY <1>0, <3>1, <3>2, RecordedStays
      <3> QED
        BY <2>1, <3>2, <3>3 DEF Recorded
    <2>2. CASE ExecutorReturns(w, result'[w])
      BY <1>0, <1>2, <2>2, ReturnsVouched DEF Success
    <2> QED
      BY <1>0, <1>2, <2>1, <2>2, ResultFrame
  <1>3. ASSUME NEW o \in Op, outcome'[o] \in Delivered PROVE Recorded(o)'
    <2>1. Recorded(o)
      BY <1>0, <1>3, OutcomeFrame DEF SuccessVouched, Success
    <2> QED
      BY <1>0, <2>1, RecordedStays
  <1> QED
    BY <1>1, <1>2, <1>3 DEF SuccessVouched

-----------------------------------------------------------------------------
(* Theorems. *)

\* DeliveryIInv and the outbox's IInv hold together of every reachable state.
THEOREM DeliveryInductive == DeliverySpec => [](DeliveryIInv /\ IInv)
  <1>1. DeliveryInit => DeliveryIInv
    <2>1. DeliveryInit => ReceiptsTell
      BY DEF DeliveryInit, ReceiptsTell
    <2>2. DeliveryInit => CallsOwn
      BY DEF DeliveryInit, CallsOwn
    <2>3. DeliveryInit => SuccessVouched
      BY DEF DeliveryInit, Init, SuccessVouched, NoAnswer, Delivered
    <2> QED
      BY <2>1, <2>2, <2>3, DeliveryTypeInit DEF DeliveryIInv
  <1>2. DeliveryIInv /\ IInv /\ [DeliveryNext]_deliveryVars => DeliveryIInv'
    BY DeliveryTypeStep, CallsOwnStep, SuccessVouchedStep DEF DeliveryIInv
  <1>3. DeliverySpec => []IInv
    BY Implements, Inductive, PTL
  <1> QED
    BY <1>1, <1>2, <1>3, PTL DEF DeliverySpec

\* What the outbox reports as delivered has taken effect at the server, exactly
\* once, and the server vouches for it (apply_result, outbox.py:939, of what
\* _execute_operation returns, runtime.py:653).
THEOREM DeliveredReal == DeliverySpec => []DeliveredIsReal
  <1>1. DeliveryIInv => DeliveredIsReal
    BY DEF DeliveryIInv, SuccessVouched, Recorded, ReceiptsTell, DeliveredIsReal
  <1> QED
    BY <1>1, DeliveryInductive, PTL

\* A dependent correction never lacks the revision of the capture it waited for
\* (record_turn_revision, runtime.py:660, before apply_result, outbox.py:939).
THEOREM Hydrated == DeliverySpec => []HydrationReady
  <1>1. DeliveryIInv /\ IInv => HydrationReady
    <2> SUFFICES ASSUME DeliveryIInv, IInv,
                        NEW w \in Worker, op[w] # NoOp, op[w] \notin Raw
                 PROVE  Expected(op[w]) # 0
      BY DEF HydrationReady
    <2>1. op[w] \in Op
      BY DEF IInv, TypeOK
    <2>2. CASE Named[op[w]] # 0
      BY <2>2 DEF Expected
    <2>3. CASE Named[op[w]] = 0
      <3>1. DependsOn[op[w]] \in Raw /\ DependsOn[op[w]] # NoOp
        BY <2>1, <2>3, SourceAssumption, SentinelAssumption
      <3>2. outcome[DependsOn[op[w]]] \in Delivered
        BY <3>1 DEF IInv, DependencyRespected, DependencyDelivered
      <3>3. revision[DependsOn[op[w]]] # 0
        BY <3>1, <3>2, SourceAssumption DEF DeliveryIInv, SuccessVouched, Recorded
      <3> QED
        BY <2>3, <3>1, <3>3 DEF Expected
    <2> QED
      BY <2>2, <2>3
  <1> QED
    BY <1>1, DeliveryInductive, PTL

-----------------------------------------------------------------------------
(* Effects.  The inductive invariant behind EffectOnce and KeyKeepsRequest. *)

\* The expected_revision every request of an operation carries, whenever it is
\* filled in: the one it names, or the first revision of its capture.
Fixed(o) == IF Named[o] # 0 \/ DependsOn[o] = NoOp THEN Named[o] ELSE 1

\* Requests, however late, and receipts carry that revision and no other.
RequestsFixed ==
    /\ \A o \in Raw : revision[o] \in {0, 1}
    /\ \A w \in Worker : call[w] # NoCall => call[w].expected = Fixed(call[w].op)
    /\ \A q \in late : q.expected = Fixed(q.op)
    /\ \A o \in Op : receipt[o] \in {"pending", "done"} => stored[o] = Fixed(o)
    /\ \A w \in Worker : answer[w].code \in {"done", "replayed"} => answer[w].revision = 1

\* No operation is about a revision the source has not reached yet.
RevisionsReached ==
    /\ \A s \in Raw : effects[s] <= current[s]
    /\ \A o \in Op : Known(o) => Named[o] <= current[Target[o]]
    /\ \A w \in Worker : answer[w].code = "current" =>
          answer[w].revision <= current[Target[call[w].op]]

\* The source has moved on from the revision the operation is about, and no
\* receipt holds it: it can never take effect.
Hopeless(o) ==
    /\ o \notin Raw
    /\ receipt[o] \in {"none", "rolled_back"}
    /\ Fixed(o) < current[Target[o]]

\* A conflict means just that, from the answer to the tombstone.
ConflictsLast ==
    /\ \A w \in Worker : answer[w].code = "conflict" => Hopeless(call[w].op)
    /\ \A w \in Worker : result[w] = "reconcile_revision" => Hopeless(op[w])
    /\ \A o \in Op :
          state[o] = "reconcile_revision" \/ outcome[o] = "superseded" => Hopeless(o)

\* Nothing the outbox does not know is on its way or has taken effect.
SentKnown ==
    /\ \A q \in late : Known(q.op)
    /\ \A o \in Op : effects[o] > 0 => Known(o)

EffectIInv ==
    RequestsFixed /\ KeyKeepsRequest /\ RevisionsReached /\ ConflictsLast /\ SentKnown

\* What the proofs below start from.
Base == DeliveryIInv /\ IInv /\ [DeliveryNext]_deliveryVars

LEMMA FixedType == ASSUME NEW o \in Op PROVE Fixed(o) \in Nat
  BY Sources DEF Fixed

\* A step that leaves the executor's wire alone, hangs up, or is one of these.
LEMMA WireFrame ==
  ASSUME [DeliveryNext]_deliveryVars
  PROVE  \/ UNCHANGED <<call, answer, revision, late, server>>
         \/ \E w \in Worker : /\ Hangup(w)
                              /\ late' \subseteq late \cup {q \in {call[w]} : Waiting(w)}
                              /\ RecordAndReturn(w) \/ UNCHANGED revision
                              /\ UNCHANGED server
         \/ \E w \in Worker : Send(w)
         \/ \E w \in Worker : Serve(w)
         \/ \E w \in Worker : Preview(w) \/ TurnAway(w) \/ GiveUp(w)
         \/ ArriveLate
         \/ \E o \in Op : Settle(o)
         \/ \E s \in Raw : ForeignWrite(s)
  <1>1. ASSUME UNCHANGED wire PROVE UNCHANGED <<call, answer, revision, late, server>>
    BY <1>1 DEF wire, executor
  <1>2. ASSUME NEW w \in Worker, Claim(w)
        PROVE  UNCHANGED <<call, answer, revision, late, server>>
    BY <1>2 DEF Claim
  <1>3. ASSUME NEW w \in Worker, Vanish(w)
        PROVE  /\ Hangup(w) /\ UNCHANGED <<revision, server>>
               /\ late' \subseteq late \cup {q \in {call[w]} : Waiting(w)}
    BY <1>3 DEF Vanish
  <1>4. ASSUME NEW w \in Worker,
               Return(w) \/ RecordAndReturn(w) \/ RecordFails(w) \/ Reconcile(w) \/ ReconcileFails(w)
        PROVE  /\ Hangup(w) /\ late' = late /\ UNCHANGED server
               /\ RecordAndReturn(w) \/ UNCHANGED revision
    BY <1>4 DEF Return, RecordAndReturn, RecordFails, Reconcile, ReconcileFails
  <1> QED
    BY <1>1, <1>2, <1>3, <1>4
       DEF DeliveryNext, EnqueueOperation, FlushStep, ExecutorStep, ServerStep, deliveryVars

\* Whichever request the server handles is fixed, and of a known operation.
Handled(q) ==
    /\ q \in Request
    /\ q.op \in Op
    /\ q.expected = Fixed(q.op)
    /\ Known(q.op)

\* The server's tables change by one such request, by Settle or ForeignWrite.
LEMMA ServerFrame ==
  ASSUME Base, RequestsFixed, SentKnown
  PROVE  \/ UNCHANGED server
         \/ \E q : Handled(q) /\ \E reply : Process(q, reply)
         \/ \E o \in Op : Settle(o)
         \/ \E s \in Raw : ForeignWrite(s)
  <1> USE DEF Base, DeliveryIInv, IInv
  <1>1. ASSUME NEW w \in Worker, Serve(w) PROVE Handled(call[w]) /\ \E reply : Process(call[w], reply)
    <2>1. call[w] # NoCall /\ \E reply : Process(call[w], reply)
      BY <1>1 DEF Serve, Waiting
    <2>2. call[w].op \in Op /\ call[w].op = op[w]
      BY <2>1, WaitingFor
    <2>3. Known(op[w])
      BY <2>2, SentinelAssumption DEF FlushMemory
    <2> QED
      BY <2>1, <2>2, <2>3 DEF Handled, RequestsFixed, DeliveryTypeOK
  <1>2. ASSUME ArriveLate PROVE \E q : Handled(q) /\ \E reply : Process(q, reply)
    BY <1>2 DEF ArriveLate, Handled, RequestsFixed, SentKnown, DeliveryTypeOK
  <1>3. ASSUME NEW w \in Worker, Send(w) \/ Preview(w) \/ TurnAway(w) \/ GiveUp(w)
        PROVE  UNCHANGED server
    BY <1>3 DEF Send, Preview, TurnAway, GiveUp
  <1> QED
    BY <1>1, <1>2, <1>3, WireFrame

\* What handling a fixed request does to the server's tables.
LEMMA Handling ==
  ASSUME Base, RequestsFixed, NEW q, Handled(q), NEW reply, Process(q, reply)
  PROVE  /\ \A s \in Raw : current[s] <= current'[s]
         /\ \A s \in Raw : effects[s] <= current[s] => effects'[s] <= current'[s]
         /\ \A o \in Op : effects'[o] > 0 => effects[o] > 0 \/ o = q.op
         /\ \A o \in Op : receipt'[o] \in {"pending", "done"} => stored'[o] = Fixed(o)
         /\ \A o \in Op : Hopeless(o) => receipt'[o] = receipt[o]
  <1> USE DEF Base, DeliveryIInv, DeliveryTypeOK, Handled
  <1>1. PICK r \in {"pending", "done"} :
           \/ Perform(q, r) /\ TakeEffect(q.op)
           \/ Perform(q, r) /\ UNCHANGED <<current, life, effects>>
           \/ UNCHANGED server
    BY DEF Process
  <1>2. Target[q.op] \in Raw /\ \A s \in Raw : s \in Op /\ Target[s] = s
    BY SourceAssumption
  <1>3. CASE UNCHANGED server
    BY <1>3, SourceAssumption DEF server, RequestsFixed
  <1>4. CASE Perform(q, r)
    <2>1. \A o \in Op : receipt'[o] \in {"pending", "done"} => stored'[o] = Fixed(o)
      BY <1>4 DEF Perform, RequestsFixed
    <2>2. ~Hopeless(q.op)
      BY <1>2, <1>4, FixedType DEF Perform, Acceptable, Hopeless
    <2>3. \A o \in Op : Hopeless(o) => receipt'[o] = receipt[o]
      BY <1>4, <2>2 DEF Perform
    <2>4. /\ \A s \in Raw : current[s] <= current'[s]
          /\ \A s \in Raw : effects[s] <= current[s] => effects'[s] <= current'[s]
          /\ \A o \in Op : effects'[o] > 0 => effects[o] > 0 \/ o = q.op
      <3>1. CASE UNCHANGED <<current, life, effects>>
        BY <1>2, <3>1
      <3>2. CASE TakeEffect(q.op)
        BY <1>2, <3>2 DEF TakeEffect
      <3> QED
        BY <1>1, <1>4, <3>1, <3>2 DEF server
    <2> QED
      BY <2>1, <2>3, <2>4
  <1> QED
    BY <1>1, <1>3, <1>4

\* Revisions only grow, and an operation without prospects remains so.
LEMMA RevisionsGrow ==
  ASSUME Base, RequestsFixed, SentKnown
  PROVE  /\ \A s \in Raw : current[s] <= current'[s]
         /\ \A s \in Raw : effects[s] <= current[s] => effects'[s] <= current'[s]
         /\ \A o \in Op : receipt'[o] \in {"pending", "done"} => stored'[o] = Fixed(o)
         /\ \A o \in Op : Hopeless(o) => Hopeless(o)'
  <1> USE DEF Base, DeliveryIInv, DeliveryTypeOK
  <1>1. /\ \A s \in Raw : current[s] <= current'[s]
        /\ \A s \in Raw : effects[s] <= current[s] => effects'[s] <= current'[s]
        /\ \A o \in Op : receipt'[o] \in {"pending", "done"} => stored'[o] = Fixed(o)
        /\ \A o \in Op : Hopeless(o) => receipt'[o] = receipt[o]
    <2>1. CASE UNCHANGED server
      BY <2>1, SourceAssumption DEF server, RequestsFixed
    <2>2. ASSUME NEW o \in Op, Settle(o)
          PROVE  /\ UNCHANGED <<stored, current, effects>>
                 /\ receipt[o] = "pending"
                 /\ \A p \in Op : p # o => receipt'[p] = receipt[p]
      BY <2>2 DEF Settle
    <2>3. ASSUME NEW o \in Op, Settle(o)
          PROVE  /\ \A s \in Raw : current[s] <= current'[s] /\ effects'[s] = effects[s]
                 /\ \A p \in Op : receipt'[p] \in {"pending", "done"} => stored'[p] = Fixed(p)
                 /\ \A p \in Op : Hopeless(p) => receipt'[p] = receipt[p]
      BY <2>2, <2>3 DEF Hopeless, RequestsFixed
    <2>4. ASSUME NEW s \in Raw, ForeignWrite(s)
          PROVE  /\ \A t \in Raw : current[t] <= current'[t] /\ effects'[t] = effects[t]
                 /\ UNCHANGED <<receipt, stored>>
      BY <2>4, SourceAssumption DEF ForeignWrite
    <2>5. \A s \in Raw : effects[s] \in Nat /\ current[s] \in Nat
      BY SourceAssumption
    <2>6. current' \in [Raw -> Nat] /\ effects' \in [Op -> Nat]
      BY DeliveryTypeStep
    <2>7. CASE \E o \in Op : Settle(o)
      <3>1. /\ \A s \in Raw : current[s] <= current'[s] /\ effects'[s] = effects[s]
            /\ \A p \in Op : receipt'[p] \in {"pending", "done"} => stored'[p] = Fixed(p)
            /\ \A p \in Op : Hopeless(p) => receipt'[p] = receipt[p]
        BY <2>3, <2>7
      <3> QED
        BY <2>5, <2>6, <3>1
    <2>8. CASE \E s \in Raw : ForeignWrite(s)
      <3>1. /\ \A t \in Raw : current[t] <= current'[t] /\ effects'[t] = effects[t]
            /\ UNCHANGED <<receipt, stored>>
        BY <2>4, <2>8
      <3> QED
        BY <2>5, <2>6, <3>1 DEF RequestsFixed
    <2>9. CASE \E q : Handled(q) /\ \E reply : Process(q, reply)
      BY <2>9, Handling
    <2> QED
      BY <2>1, <2>7, <2>8, <2>9, ServerFrame
  <1>2. ASSUME NEW o \in Op, Hopeless(o) PROVE Hopeless(o)'
    <2>1. Fixed(o) \in Nat /\ Target[o] \in Raw
      BY FixedType, Sources
    <2>2. current' \in [Raw -> Nat]
      BY DeliveryTypeStep
    <2> QED
      BY <1>1, <1>2, <2>1, <2>2 DEF Hopeless, Fixed
  <1> QED
    BY <1>1, <1>2

\* Only requests that were waited for are left behind.
LEMMA LateFrame ==
  ASSUME [DeliveryNext]_deliveryVars, NEW q \in late'
  PROVE  q \in late \/ \E w \in Worker : call[w] = q /\ q # NoCall
  <1>1. ASSUME NEW w \in Worker, GiveUp(w)
        PROVE  q \in late \/ (call[w] = q /\ q # NoCall)
    BY <1>1 DEF GiveUp, Waiting
  <1>2. ASSUME NEW w \in Worker, late' \subseteq late \cup {p \in {call[w]} : Waiting(w)}
        PROVE  q \in late \/ (call[w] = q /\ q # NoCall)
    BY <1>2 DEF Waiting
  <1>3. ASSUME NEW w \in Worker, Serve(w) \/ Preview(w) \/ TurnAway(w) \/ Send(w)
        PROVE  late' = late
    BY <1>3 DEF Serve, Preview, TurnAway, Send
  <1>4. ArriveLate => late' \subseteq late
    BY DEF ArriveLate
  <1>5. (\E p \in Op : Settle(p)) \/ (\E s \in Raw : ForeignWrite(s)) => late' = late
    BY DEF Settle, ForeignWrite
  <1> QED
    BY <1>1, <1>2, <1>3, <1>4, <1>5, WireFrame

\* A worker fills in the fixed revision: the capture it waited for was
\* acknowledged with its first one.
LEMMA SentFixed ==
  ASSUME Base, RequestsFixed, NEW w \in Worker, Send(w)
  PROVE  /\ UNCHANGED <<answer, revision, late, server>>
         /\ \/ UNCHANGED call
            \/ \E q \in Request : q.expected = Fixed(op[w]) /\ q.op = op[w]
                                    /\ call' = [call EXCEPT ![w] = q]
  <1> USE DEF Base, DeliveryIInv, IInv
  <1>1. op[w] \in Op
    BY DEF Send, WorkerShape
  <1>2. ASSUME op[w] \in Raw \/ Expected(op[w]) # 0 PROVE Expected(op[w]) = Fixed(op[w])
    <2>1. CASE Named[op[w]] # 0 \/ DependsOn[op[w]] = NoOp
      BY <2>1 DEF Expected, Fixed
    <2>2. CASE Named[op[w]] = 0 /\ DependsOn[op[w]] # NoOp
      <3>1. op[w] \notin Raw /\ DependsOn[op[w]] \in Raw
        BY <1>1, <2>2, Sources
      <3> QED
        BY <1>2, <2>2, <3>1 DEF Expected, Fixed, RequestsFixed
    <2> QED
      BY <2>1, <2>2
  <1> DEFINE request == [op |-> op[w], expected |-> Expected(op[w]),
                         preview |-> op[w] \notin Raw /\ seen[w] = "reconcile_revision"]
  <1>3. UNCHANGED call \/ (/\ op[w] \in Raw \/ Expected(op[w]) # 0
                           /\ call' = [call EXCEPT ![w] = request])
    BY DEF Send
  <1>4. Expected(op[w]) \in Nat
    BY <1>1, ExpectedType
  <1>5. request \in Request
    BY <1>1, <1>4 DEF Request
  <1> QED
    BY <1>2, <1>3, <1>5 DEF Send

\* What the server answers to a fixed request.
LEMMA RepliesFixed ==
  ASSUME DeliveryTypeOK, RequestsFixed, NEW q, Handled(q),
         NEW reply \in Replies(q) \cup {Said("lost")}
  PROVE  /\ reply.code # "mismatch" /\ reply.code # "current"
         /\ reply.code \in {"done", "replayed"} => reply.revision = 1
         /\ reply.code = "conflict" =>
                /\ receipt[q.op] \in {"none", "rolled_back"}
                /\ q.op \notin Raw
                /\ q.expected # current[Target[q.op]]
  <1> USE DEF Handled, RequestsFixed, DeliveryTypeOK, Replies, Said
  <1>1. CASE receipt[q.op] \in {"pending", "done"}
    BY <1>1
  <1>2. CASE receipt[q.op] \in {"none", "rolled_back"}
    BY <1>2 DEF Acceptable
  <1> QED
    BY <1>1, <1>2

\* What a worker finds in answer' is what it had, or has come just now.
LEMMA Answers ==
  ASSUME Base, RequestsFixed, SentKnown, NEW w \in Worker,
         answer'[w].code \in {"done", "replayed", "conflict", "mismatch", "current"}
  PROVE  \/ answer'[w] = answer[w] /\ call'[w] = call[w] /\ call[w] # NoCall
         \/ /\ Serve(w) /\ Handled(call[w]) /\ call' = call
            /\ answer'[w] \in Replies(call[w]) \cup {Said("lost")}
            /\ Process(call[w], answer'[w])
         \/ Preview(w) /\ call' = call /\ call[w].op \in Op
  <1> USE DEF Base, DeliveryIInv, IInv, DeliveryTypeOK
  <1>0. CASE answer'[w] = answer[w] /\ call'[w] = call[w]
    BY <1>0 DEF CallsOwn, NoAnswer
  <1>1. ASSUME NEW v \in Worker, Serve(v) \/ Preview(v) \/ TurnAway(v) \/ GiveUp(v), v # w
        PROVE  answer'[w] = answer[w] /\ call'[w] = call[w]
    BY <1>1 DEF Serve, Preview, TurnAway, GiveUp
  <1>2. CASE Serve(w)
    <2>1. PICK reply \in Replies(call[w]) \cup {Said("lost")} :
             Process(call[w], reply) /\ answer' \in {[answer EXCEPT ![w] = reply],
                                                     [answer EXCEPT ![w] = Said("garbled")]}
      BY <1>2 DEF Serve
    <2>2. answer'[w] = reply
      BY <2>1 DEF Said
    <2>3. call[w] # NoCall /\ call' = call
      BY <1>2 DEF Serve, Waiting
    <2>4. call[w].op \in Op /\ call[w].op = op[w]
      BY <2>3, WaitingFor
    <2>5. Known(op[w])
      BY <2>4, SentinelAssumption DEF FlushMemory
    <2> QED
      BY <1>2, <2>1, <2>2, <2>3, <2>4, <2>5 DEF Handled, RequestsFixed
  <1>3. CASE Preview(w)
    BY <1>3, WaitingFor DEF Preview, Waiting
  <1>4. CASE TurnAway(w) \/ GiveUp(w)
    BY <1>4 DEF TurnAway, GiveUp, Said
  <1>5. ASSUME NEW v \in Worker, Hangup(v) PROVE answer'[w] = answer[w] /\ call'[w] = call[w]
    BY <1>5 DEF Hangup, NoAnswer
  <1>6. ASSUME NEW v \in Worker, Send(v) PROVE answer'[w] = answer[w] /\ call'[w] = call[w]
    <2>1. answer' = answer /\ call[v] = NoCall
      BY <1>6 DEF Send
    <2>2. answer[w] # NoAnswer
      BY <2>1 DEF NoAnswer
    <2>3. v # w
      BY <2>1, <2>2 DEF CallsOwn
    <2> QED
      BY <1>6, <2>1, <2>3, SentFixed
  <1>7. CASE UNCHANGED <<call, answer>>
    BY <1>0, <1>7
  <1>8. ArriveLate \/ (\E o \in Op : Settle(o)) \/ (\E s \in Raw : ForeignWrite(s))
          => UNCHANGED <<call, answer>>
    BY DEF ArriveLate, Settle, ForeignWrite, executor
  <1> QED
    BY <1>0, <1>1, <1>2, <1>3, <1>4, <1>5, <1>6, <1>7, <1>8, WireFrame

\* Requests stay fixed, and so no key is found with another one.
LEMMA RequestsFixedStep ==
  ASSUME Base, RequestsFixed, KeyKeepsRequest, SentKnown
  PROVE  RequestsFixed' /\ KeyKeepsRequest'
  <1> USE DEF Base, DeliveryIInv, IInv, DeliveryTypeOK
  <1>1. \A o \in Op : receipt'[o] \in {"pending", "done"} => stored'[o] = Fixed(o)
    BY RevisionsGrow
  <1>2. ASSUME NEW w \in Worker
        PROVE  /\ answer'[w].code \in {"done", "replayed"} => answer'[w].revision = 1
               /\ answer'[w].code # "mismatch"
    <2>1. CASE answer'[w] = answer[w]
      BY <2>1 DEF RequestsFixed, KeyKeepsRequest
    <2>2. CASE Handled(call[w]) /\ answer'[w] \in Replies(call[w]) \cup {Said("lost")}
      BY <2>2, RepliesFixed
    <2>3. CASE Preview(w)
      BY <2>3 DEF Preview, Said
    <2> QED
      BY <2>1, <2>2, <2>3, Answers
  <1>3. ASSUME NEW o \in Raw PROVE revision'[o] \in {0, 1}
    <2>1. ASSUME NEW w \in Worker, RecordAndReturn(w) PROVE revision'[o] \in {0, 1}
      BY <2>1 DEF RecordAndReturn, Acknowledged, RequestsFixed
    <2>2. CASE UNCHANGED revision
      BY <2>2 DEF RequestsFixed
    <2>3. ASSUME NEW w \in Worker, Serve(w) \/ Preview(w) \/ TurnAway(w) \/ GiveUp(w) \/ Send(w)
          PROVE  UNCHANGED revision
      BY <2>3 DEF Serve, Preview, TurnAway, GiveUp, Send
    <2>4. ArriveLate \/ (\E p \in Op : Settle(p)) \/ (\E s \in Raw : ForeignWrite(s))
            => UNCHANGED revision
      BY DEF ArriveLate, Settle, ForeignWrite, executor
    <2> QED
      BY <2>1, <2>2, <2>3, <2>4, WireFrame
  <1>4. ASSUME NEW w \in Worker, call'[w] # NoCall PROVE call'[w].expected = Fixed(call'[w].op)
    <2>1. CASE call'[w] = call[w]
      BY <1>4, <2>1 DEF RequestsFixed
    <2>2. ASSUME NEW v \in Worker, Send(v) PROVE call'[w].expected = Fixed(call'[w].op)
      BY <2>1, <2>2, SentFixed
    <2>3. ASSUME NEW v \in Worker, Hangup(v) PROVE call'[w] = call[w]
      BY <1>4, <2>3 DEF Hangup
    <2>4. ASSUME NEW v \in Worker, Serve(v) \/ Preview(v) \/ TurnAway(v) \/ GiveUp(v)
          PROVE  UNCHANGED call
      BY <2>4 DEF Serve, Preview, TurnAway, GiveUp
    <2>5. ArriveLate \/ (\E p \in Op : Settle(p)) \/ (\E s \in Raw : ForeignWrite(s))
            => UNCHANGED call
      BY DEF ArriveLate, Settle, ForeignWrite, executor
    <2> QED
      BY <2>1, <2>2, <2>3, <2>4, <2>5, WireFrame
  <1>5. ASSUME NEW q \in late' PROVE q.expected = Fixed(q.op)
    BY LateFrame DEF RequestsFixed
  <1> QED
    BY <1>1, <1>2, <1>3, <1>4, <1>5 DEF RequestsFixed, KeyKeepsRequest, Fixed

\* An operation becomes known by a producer, or as a replacement.
LEMMA KnownFrame ==
  ASSUME Base, NEW o \in Op, Known(o)'
  PROVE  \/ Known(o)
         \/ EnqueueOperation(o)
         \/ \E w \in Worker : /\ Supersede(w, o)
                              /\ answer[w].code = "current"
                              /\ Named[o] = answer[w].revision
  <1> USE DEF Base, DeliveryIInv, IInv, TypeOK, Known, Row, vars, table
  <1>1. ASSUME NEW w \in Worker, op[w] \in Op PROVE Known(op[w])
    BY <1>1, SentinelAssumption DEF FlushMemory
  <1>2. ASSUME RowsUntouched PROVE Known(o)
    BY <1>2 DEF RowsUntouched
  <1>3. ASSUME NEW p \in Op, EnqueueOperation(p) PROVE Known(o) \/ EnqueueOperation(o)
    BY <1>3 DEF EnqueueOperation, Enqueue
  <1>4. ASSUME NEW u \in Unblocker, Unblocking(u) PROVE Known(o)
    BY <1>4 DEF Unblocking, UnblockBegins, UnblockAuth, UnblockFails
  <1>5. ASSUME NEW w \in Worker, ApplyFailure(w) PROVE Known(o)
    BY <1>1, <1>5 DEF ApplyFailure, WorkerShape
  <1>6. ASSUME NEW w \in Worker, Archive(w) PROVE Known(o)
    BY <1>1, <1>6 DEF Archive, WorkerShape
  <1>7. ASSUME NEW w \in Worker, FlushStep(w) PROVE Known(o)
    BY <1>2, <1>5, <1>6, <1>7
       DEF FlushStep, FlushStart, DeadlineBeforeClaim, NothingToClaim, ReleaseUnattempted,
           StartAttempt, RenewClaim, ApplySuperseded, ClaimLost, RowsUntouched
  <1>8. ASSUME NEW w \in Worker, Claim(w) \/ Vanish(w) PROVE Known(o)
    BY <1>2, <1>8 DEF Claim, ClaimPage, Vanish, Abandon, RowsUntouched
  <1>9. ASSUME NEW w \in Worker, Reconcile(w)
        PROVE  \/ Known(o)
               \/ Supersede(w, o) /\ answer[w].code = "current" /\ Named[o] = answer[w].revision
    <2>1. PICK r \in Op : Named[r] = answer[w].revision /\ Supersede(w, r)
      BY <1>9 DEF Reconcile
    <2>2. o # r => Known(o)
      BY <1>1, <2>1 DEF Supersede, WorkerShape
    <2> QED
      BY <1>9, <2>1, <2>2 DEF Reconcile
  <1>10. ASSUME NEW w \in Worker, ExecutorStep(w), ~Reconcile(w) PROVE Known(o)
    BY <1>2, <1>10 DEF ExecutorStep, Send, Return, RecordAndReturn, RecordFails, ReconcileFails,
                       ExecutorReturns, RowsUntouched
  <1>11. ASSUME UNCHANGED vars PROVE Known(o)
    BY <1>2, <1>11 DEF RowsUntouched
  <1>12. CASE ServerStep
    BY <1>11, <1>12 DEF ServerStep, Serve, Preview, TurnAway, GiveUp, ArriveLate, Settle,
                        ForeignWrite
  <1>13. ASSUME NEW t \in Token, LeaseExpires(t) PROVE Known(o)
    BY <1>2, <1>13 DEF LeaseExpires, RowsUntouched
  <1> QED
    BY <1>3, <1>4, <1>7, <1>8, <1>9, <1>10, <1>11, <1>12, <1>13 DEF DeliveryNext, deliveryVars

LEMMA BaseKnownStays ==
  ASSUME Base, NEW o \in Op, Known(o)
  PROVE  Known(o)'
  BY KnownStays, DeliveryStep DEF Base, IInv

\* What is known is about a revision that has been.
LEMMA RevisionsReachedStep ==
  ASSUME Base, RequestsFixed, RevisionsReached, SentKnown
  PROVE  RevisionsReached'
  <1> USE DEF Base, DeliveryIInv, DeliveryTypeOK
  <1>1. \A s \in Raw : effects'[s] <= current'[s] /\ current[s] <= current'[s]
    BY RevisionsGrow DEF RevisionsReached
  <1>2. current' \in [Raw -> Nat] /\ current \in [Raw -> Nat] /\ answer' \in [Worker -> Reply]
    BY DeliveryTypeStep
  <1>3. ASSUME NEW o \in Op, Known(o)' PROVE Named[o] <= current'[Target[o]]
    <2>0. Target[o] \in Raw /\ Named[o] \in Nat
      BY Sources
    <2>1. Named[o] <= current[Target[o]]
      <3>1. CASE Known(o)
        BY <3>1 DEF RevisionsReached
      <3>2. CASE EnqueueOperation(o)
        BY <3>2 DEF EnqueueOperation
      <3>3. ASSUME NEW w \in Worker, Supersede(w, o), answer[w].code = "current",
                   Named[o] = answer[w].revision
            PROVE  Named[o] <= current[Target[o]]
        <4>1. answer[w] # NoAnswer
          BY <3>3 DEF NoAnswer
        <4>2. call[w].op = op[w]
          BY <4>1 DEF CallsOwn
        <4>3. ReplacementOf[o] = op[w] /\ op[w] \in Op
          BY <3>3 DEF Supersede, IInv, WorkerShape
        <4>4. Target[o] = Target[op[w]]
          BY <4>3, SourceAssumption, SentinelAssumption
        <4> QED
          BY <3>3, <4>2, <4>4 DEF RevisionsReached
      <3> QED
        BY <1>3, <3>1, <3>2, <3>3, KnownFrame
    <2> QED
      BY <1>1, <1>2, <2>0, <2>1
  <1>4. ASSUME NEW w \in Worker, answer'[w].code = "current"
        PROVE  answer'[w].revision <= current'[Target[call'[w].op]]
    <2>1. CASE answer'[w] = answer[w] /\ call'[w] = call[w] /\ call[w] # NoCall
      <3>1. call[w].op \in Op
        BY <2>1, WaitingFor DEF IInv
      <3>2. Target[call[w].op] \in Raw /\ answer[w].revision \in Nat
        BY <3>1, Sources DEF Reply
      <3> QED
        BY <1>1, <1>2, <1>4, <2>1, <3>2 DEF RevisionsReached
    <2>2. CASE Preview(w) /\ call' = call /\ call[w].op \in Op
      <3>1. Target[call[w].op] \in Raw
        BY <2>2, Sources
      <3>2. answer'[w].revision = current[Target[call[w].op]] /\ current' = current
        BY <1>4, <2>2 DEF Preview, Said, server
      <3> QED
        BY <1>2, <2>2, <3>1, <3>2
    <2>3. CASE Handled(call[w]) /\ answer'[w] \in Replies(call[w]) \cup {Said("lost")}
      BY <1>4, <2>3, RepliesFixed
    <2> QED
      BY <1>4, <2>1, <2>2, <2>3, Answers
  <1> QED
    BY <1>1, <1>3, <1>4 DEF RevisionsReached

LEMMA SentKnownStep ==
  ASSUME Base, RequestsFixed, SentKnown
  PROVE  SentKnown'
  <1> USE DEF Base, DeliveryIInv
  <1>1. ASSUME NEW q \in late' PROVE Known(q.op)'
    <2>1. q.op \in Op /\ Known(q.op)
      <3>1. CASE q \in late
        BY <3>1 DEF SentKnown, DeliveryTypeOK
      <3>2. ASSUME NEW w \in Worker, call[w] = q, q # NoCall PROVE q.op \in Op /\ Known(q.op)
        <4>1. q.op \in Op /\ q.op = op[w]
          BY <3>2, WaitingFor DEF IInv
        <4> QED
          BY <4>1, SentinelAssumption DEF IInv, FlushMemory
      <3> QED
        BY <3>1, <3>2, LateFrame
    <2>2. PICK o \in Op : o = q.op
      BY <2>1
    <2>3. Known(o)'
      BY <2>1, <2>2, BaseKnownStays
    <2> QED
      BY <2>2, <2>3 DEF Known, Row
  <1>2. ASSUME NEW o \in Op, effects'[o] > 0 PROVE Known(o)'
    <2>1. effects[o] > 0 \/ Known(o)
      <3>1. ASSUME NEW q, Handled(q), \E reply : Process(q, reply) PROVE effects[o] > 0 \/ Known(o)
        BY <1>2, <3>1, Handling DEF Handled
      <3>2. UNCHANGED server \/ (\E p \in Op : Settle(p)) \/ (\E s \in Raw : ForeignWrite(s))
              => effects' = effects
        BY DEF server, Settle, ForeignWrite
      <3> QED
        BY <1>2, <3>1, <3>2, ServerFrame
    <2> QED
      BY <2>1, BaseKnownStays DEF SentKnown
  <1> QED
    BY <1>1, <1>2 DEF SentKnown

\* A conflict with a fixed request of a known operation: its revision has passed.
LEMMA ConflictMeans ==
  ASSUME Base, RequestsFixed, RevisionsReached, SentKnown,
         NEW w \in Worker, Serve(w), Handled(call[w]),
         answer'[w] \in Replies(call[w]) \cup {Said("lost")}, answer'[w].code = "conflict"
  PROVE  Hopeless(call[w].op)
  <1> USE DEF Base, DeliveryIInv, IInv
  <1> DEFINE o == call[w].op
  <1>1. /\ receipt[o] \in {"none", "rolled_back"}
        /\ o \notin Raw
        /\ Fixed(o) # current[Target[o]]
    BY RepliesFixed DEF Handled
  <1>2. o \in Op /\ Known(o) /\ o = op[w]
    BY DEF Handled, Serve, Waiting, CallsOwn
  <1>3. Target[o] \in Raw /\ Fixed(o) \in Nat /\ current[Target[o]] \in Nat
    BY <1>2, Sources, FixedType DEF DeliveryTypeOK
  <1>4. Fixed(o) <= current[Target[o]]
    <2>1. CASE Named[o] # 0 \/ DependsOn[o] = NoOp
      BY <1>2, <2>1 DEF RevisionsReached, Fixed
    <2>2. CASE Named[o] = 0 /\ DependsOn[o] # NoOp
      <3>1. DependsOn[o] = Target[o]
        BY <1>1, <1>2, <2>2, Sources
      <3>2. outcome[Target[o]] \in Delivered
        BY <1>2, <3>1, <2>2, SentinelAssumption DEF DependencyRespected, DependencyDelivered
      <3>3. effects[Target[o]] = 1
        BY <1>2, <3>2, Sources DEF SuccessVouched, Recorded, ReceiptsTell
      <3>4. effects[Target[o]] <= current[Target[o]]
        BY <1>3 DEF RevisionsReached
      <3> QED
        BY <1>3, <2>2, <3>3, <3>4 DEF Fixed
    <2> QED
      BY <2>1, <2>2
  <1> QED
    BY <1>1, <1>3, <1>4 DEF Hopeless

\* RECONCILE_REVISION is returned of a conflict alone.
LEMMA ReturnsConflict ==
  ASSUME Base, ConflictsLast,
         NEW w \in Worker, ExecutorReturns(w, result'[w]), result'[w] = "reconcile_revision"
  PROVE  op'[w] = op[w] /\ op[w] \in Op /\ Hopeless(op[w])
  <1> USE DEF Base, DeliveryIInv, IInv
  <1>0. op' = op /\ op[w] \in Op
    BY DEF ExecutorReturns, WorkerShape
  <1>1. \A o, code : ResultFor(o, code) = "reconcile_revision" => code = "conflict"
    BY DEF ResultFor
  <1>2. answer[w].code = "conflict"
    <2>1. CASE Return(w)
      BY <1>1, <2>1 DEF Return, ExecutorReturns, TypeOK
    <2>2. CASE RecordAndReturn(w)
      BY <1>1, <2>2 DEF RecordAndReturn, ExecutorReturns, TypeOK
    <2> QED
      BY <2>1, <2>2, WhatReturns
  <1>3. answer[w] # NoAnswer
    BY <1>2 DEF NoAnswer
  <1> QED
    BY <1>0, <1>2, <1>3 DEF CallsOwn, ConflictsLast

\* What conflicts stays without prospects on its way to RECONCILE_REVISION.
LEMMA ConflictsLastStep ==
  ASSUME Base, RequestsFixed, RevisionsReached, ConflictsLast, SentKnown
  PROVE  ConflictsLast'
  <1> USE DEF Base, DeliveryIInv, IInv
  <1>0. [Next]_vars
    BY DeliveryStep
  <1>1. ASSUME NEW o \in Op, Hopeless(o) PROVE Hopeless(o)'
    BY <1>1, RevisionsGrow
  <1>2. ASSUME NEW w \in Worker, answer'[w].code = "conflict" PROVE Hopeless(call[w].op)'
    <2>1. Hopeless(call[w].op) /\ call[w].op \in Op /\ call'[w] = call[w]
      <3>1. CASE answer'[w] = answer[w] /\ call'[w] = call[w] /\ call[w] # NoCall
        BY <1>2, <3>1, WaitingFor DEF ConflictsLast
      <3>2. CASE /\ Serve(w) /\ Handled(call[w]) /\ call' = call
                 /\ answer'[w] \in Replies(call[w]) \cup {Said("lost")}
        BY <1>2, <3>2, ConflictMeans DEF Handled
      <3>3. CASE Preview(w)
        BY <1>2, <3>3 DEF Preview, Said, DeliveryTypeOK
      <3> QED
        BY <1>2, <3>1, <3>2, <3>3, Answers
    <2>2. PICK o \in Op : o = call[w].op
      BY <2>1
    <2>3. Hopeless(o)'
      BY <1>1, <2>1, <2>2
    <2> QED
      BY <2>1, <2>2, <2>3 DEF Hopeless, Fixed
  <1>3. ASSUME NEW w \in Worker, result'[w] = "reconcile_revision" PROVE Hopeless(op[w])'
    <2>1. op'[w] = op[w] /\ op[w] \in Op /\ Hopeless(op[w])
      <3>1. CASE result'[w] = result[w] /\ op'[w] = op[w]
        BY <1>3, <3>1 DEF ConflictsLast, WorkerShape, TypeOK
      <3> QED
        BY <1>0, <1>3, <3>1, ResultFrame, ReturnsConflict
    <2>2. PICK o \in Op : o = op[w]
      BY <2>1
    <2>3. Hopeless(o)'
      BY <1>1, <2>1, <2>2
    <2> QED
      BY <2>1, <2>2, <2>3 DEF Hopeless, Fixed
  <1>4. ASSUME NEW o \in Op, state'[o] = "reconcile_revision" \/ outcome'[o] = "superseded"
        PROVE  Hopeless(o)'
    <2> USE DEF TypeOK
    <2>1. Hopeless(o)
      <3>1. CASE state'[o] = state[o] /\ outcome'[o] = outcome[o]
        BY <1>4, <3>1 DEF ConflictsLast
      <3>2. ASSUME NEW p \in Op, Enqueue(p) PROVE Hopeless(o)
        BY <1>4, <3>2 DEF Enqueue, ConflictsLast
      <3>3. ASSUME NEW u \in Unblocker, UnblockAuth(u) PROVE Hopeless(o)
        BY <1>4, <3>3 DEF UnblockAuth, ConflictsLast
      <3>4. ASSUME NEW w \in Worker, NEW r \in Op, Supersede(w, r) PROVE Hopeless(o)
        BY <1>4, <3>4 DEF Supersede, ConflictsLast, WorkerShape
      <3>5. ASSUME NEW w \in Worker, ApplyFailure(w) PROVE Hopeless(o)
        <4>1. StateAfter(result[w]) = "reconcile_revision" => result[w] = "reconcile_revision"
          BY <3>5 DEF ApplyFailure, Failure, StateAfter
        <4> QED
          BY <1>4, <3>5, <4>1 DEF ApplyFailure, ConflictsLast, WorkerShape
      <3>6. ASSUME NEW w \in Worker, Archive(w) PROVE Hopeless(o)
        <4>1. OutcomeAfter(result[w]) # "superseded"
          BY <3>6 DEF Archive, OutcomeAfter
        <4> QED
          BY <1>4, <3>6, <4>1 DEF Archive, ConflictsLast
      <3> QED
        BY <1>0, <3>1, <3>2, <3>3, <3>4, <3>5, <3>6, RowsFrame DEF RowsUntouched
    <2> QED
      BY <1>1, <2>1
  <1> QED
    BY <1>2, <1>3, <1>4 DEF ConflictsLast

-----------------------------------------------------------------------------

\* Requests stay fixed, and a conflict is final, in every reachable state.
THEOREM EffectInductive == DeliverySpec => [](EffectIInv /\ DeliveryIInv /\ IInv)
  <1>1. DeliveryInit => EffectIInv
    <2> SUFFICES ASSUME DeliveryInit PROVE EffectIInv
      OBVIOUS
    <2>1. RequestsFixed /\ KeyKeepsRequest
      BY DEF DeliveryInit, RequestsFixed, KeyKeepsRequest, NoAnswer
    <2>2. RevisionsReached
      BY SourceAssumption DEF DeliveryInit, Init, RevisionsReached, NoAnswer, Known, Row
    <2>3. ConflictsLast /\ SentKnown
      BY DEF DeliveryInit, Init, ConflictsLast, SentKnown, NoAnswer
    <2> QED
      BY <2>1, <2>2, <2>3 DEF EffectIInv
  <1>2. EffectIInv /\ DeliveryIInv /\ IInv /\ [DeliveryNext]_deliveryVars => EffectIInv'
    BY RequestsFixedStep, RevisionsReachedStep, ConflictsLastStep, SentKnownStep
       DEF EffectIInv, Base
  <1> QED
    BY <1>1, <1>2, DeliveryInductive, PTL DEF DeliverySpec

\* Although expected_revision is filled in anew for every attempt, the server
\* never finds another request under the key of an operation (runtime.py:678).
THEOREM KeyKept == DeliverySpec => []KeyKeepsRequest
  <1>1. EffectIInv => KeyKeepsRequest
    BY DEF EffectIInv
  <1> QED
    BY <1>1, EffectInductive, PTL

\* An operation, and a correction with all its replacements, takes effect at
\* most once, whatever is lost, late, repeated or taken over: it is replaced
\* only after its revision has passed, when it cannot succeed any more
\* (_reconcile_correction, runtime.py:741).
THEOREM EffectOnceHolds == DeliverySpec => []EffectOnce
  <1>1. EffectIInv /\ DeliveryIInv /\ IInv => EffectOnce
    <2> SUFFICES ASSUME EffectIInv, DeliveryIInv, IInv
                 PROVE  EffectOnce
      OBVIOUS
    <2> USE DEF EffectIInv, DeliveryIInv, IInv, DeliveryTypeOK
    <2>1. \A o \in Op : effects[o] \in {0, 1}
      BY DEF ReceiptsTell
    <2>2. ASSUME NEW o \in Op, NEW r \in Op, ReplacementOf[r] = o, effects[r] # 0
          PROVE  replacedBy[o] = r /\ effects[o] = 0
      <3>1. Known(r)
        BY <2>1, <2>2 DEF SentKnown
      <3>2. replacedBy[o] = r
        BY <2>2, <3>1 DEF LineageIntact
      <3>3. outcome[o] = "superseded"
        BY <3>2, SentinelAssumption DEF LineageIntact
      <3>4. Hopeless(o)
        BY <3>3 DEF ConflictsLast
      <3> QED
        BY <3>2, <3>4 DEF Hopeless, ReceiptsTell
    <2>3. ASSUME NEW o \in Op, NEW p \in Lineage(o), NEW r \in Lineage(o), p # r
          PROVE  effects[p] = 0 \/ effects[r] = 0
      BY <2>2, <2>3 DEF Lineage
    <2> QED
      BY <2>1, <2>3 DEF EffectOnce, Lineage
  <1> QED
    BY <1>1, EffectInductive, PTL

=============================================================================
