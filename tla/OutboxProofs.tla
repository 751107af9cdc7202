---------------------------- MODULE OutboxProofs ----------------------------
(***************************************************************************)
(* Theorems about the durable outbox, for any operations, workers, tokens, *)
(* dependencies and number of vanished workers.  IInv is inductive; its    *)
(* parts are proved one lemma each, action by action.                      *)
(***************************************************************************)
EXTENDS Outbox, FiniteSetTheorems, TLAPS

\* Shapes shared by the actions, expanded in every step below.
USE DEF table, worker, unblocking, vars

LEMMA TypeInit == Init => TypeOK
  BY SentinelAssumption, BoundAssumption DEF Init, TypeOK

\* Every transaction keeps the types of the tables and of the workers.
LEMMA TypeStep == TypeOK /\ WorkerShape /\ [Next]_vars => TypeOK'
  <1> SUFFICES ASSUME TypeOK, WorkerShape, [Next]_vars PROVE TypeOK'
    OBVIOUS
  <1> USE DEF TypeOK, Stopped, LetGo, LeaveFlush, ForgetTokens, Touch
  <1>1. ASSUME NEW o \in Op, Enqueue(o) PROVE TypeOK'
    BY <1>1 DEF Enqueue, NewestBut, NewlyReady, Rows, OperationState
  <1>2. ASSUME NEW u \in Unblocker, Unblocking(u) PROVE TypeOK'
    BY <1>2 DEF Unblocking, UnblockBegins, UnblockAuth, UnblockFails, OperationState
  <1>3. ASSUME NEW w \in Worker, WorkerStep(w) PROVE TypeOK'
    <2>1. CASE FlushStart(w)
      BY <2>1 DEF FlushStart, Rows
    <2>2. CASE DeadlineBeforeClaim(w)
      BY <2>2 DEF DeadlineBeforeClaim
    <2>3. CASE NothingToClaim(w)
      BY <2>3 DEF NothingToClaim
    <2>4. CASE ClaimPage(w)
      BY <2>4 DEF ClaimPage, Candidates
    <2>5. CASE ReleaseUnattempted(w)
      <3>1. ready' \in [Worker -> SUBSET Op]
        BY <2>5 DEF ReleaseUnattempted
      <3>2. claim' \in [Op -> Token \cup {NoToken}]
        BY <2>5 DEF ReleaseUnattempted
      <3> QED
        BY <2>5, <3>1, <3>2 DEF ReleaseUnattempted
    <2>6. CASE StartAttempt(w)
      BY <2>6 DEF StartAttempt, WorkerShape
    <2>7. CASE RenewClaim(w)
      BY <2>7 DEF RenewClaim
    <2>8. ASSUME NEW r \in Result, ExecutorReturns(w, r) PROVE TypeOK'
      BY <2>8 DEF ExecutorReturns
    <2>9. ASSUME NEW r \in Op, Supersede(w, r) PROVE TypeOK'
      BY <2>9 DEF WorkerShape, Supersede, NewestBut, NewlyReady, DeleteRow, Rows, OperationState,
                  Outcome, Result
    <2>10. CASE ApplyFailure(w)
      <3>1. ready' \in [Worker -> SUBSET Op]
        BY <2>10 DEF ApplyFailure
      <3>2. StateAfter(result[w]) \in OperationState
        BY <2>10 DEF ApplyFailure, Failure, StateAfter, OperationState
      <3> QED
        BY <2>10, <3>1, <3>2 DEF ApplyFailure
    <2>11. CASE Archive(w)
      BY <2>11 DEF Archive, OutcomeAfter, Outcome, DeleteRow
    <2>12. CASE ApplySuperseded(w)
      BY <2>12 DEF ApplySuperseded
    <2>13. CASE ClaimLost(w)
      BY <2>13 DEF ClaimLost
    <2>14. CASE Abandon(w)
      BY <2>14, BoundAssumption DEF Abandon
    <2> QED
      BY <1>3, <2>1, <2>2, <2>3, <2>4, <2>5, <2>6, <2>7, <2>8, <2>9, <2>10, <2>11,
         <2>12, <2>13, <2>14 DEF WorkerStep
  <1>4. ASSUME NEW t \in Token, LeaseExpires(t) PROVE TypeOK'
    BY <1>4 DEF LeaseExpires
  <1>5. CASE UNCHANGED vars
    BY <1>5
  <1> QED
    BY <1>1, <1>2, <1>3, <1>4, <1>5 DEF Next

-----------------------------------------------------------------------------
(* Which steps write which tables. *)

\* A step that leaves the worker's operation alone or drops it, and touches
\* neither a row's state nor a tombstone.
RowsUntouched == UNCHANGED <<state, outcome, replacedBy>>

LEMMA RowsFrame ==
  ASSUME [Next]_vars
  PROVE  \/ \E o \in Op : Enqueue(o)
         \/ \E u \in Unblocker : UnblockAuth(u)
         \/ \E w \in Worker, r \in Op : Supersede(w, r)
         \/ \E w \in Worker : ApplyFailure(w)
         \/ \E w \in Worker : Archive(w)
         \/ RowsUntouched
  <1> USE DEF RowsUntouched
  <1>1. ASSUME NEW w \in Worker, WorkerStep(w)
        PROVE  \/ \E r \in Op : Supersede(w, r)
               \/ ApplyFailure(w)
               \/ Archive(w)
               \/ RowsUntouched
    BY <1>1 DEF WorkerStep, FlushStart, DeadlineBeforeClaim, NothingToClaim, ClaimPage,
                ReleaseUnattempted, StartAttempt, RenewClaim, ExecutorReturns,
                ApplySuperseded, ClaimLost, Abandon
  <1>2. ASSUME NEW t \in Token, LeaseExpires(t) PROVE RowsUntouched
    BY <1>2 DEF LeaseExpires
  <1>3. ASSUME NEW u \in Unblocker, Unblocking(u) PROVE UnblockAuth(u) \/ RowsUntouched
    BY <1>3 DEF Unblocking, UnblockBegins, UnblockFails
  <1> QED
    BY <1>1, <1>2, <1>3 DEF Next

\* A row has no tombstone: the two transactions that write one delete the row,
\* and no known id is inserted again.
LEMMA OneTableStep ==
  TypeOK /\ WorkerShape /\ ClaimsClaimable /\ OneTable /\ [Next]_vars => OneTable'
  <1> SUFFICES ASSUME TypeOK, WorkerShape, ClaimsClaimable, OneTable, [Next]_vars
               PROVE OneTable'
    OBVIOUS
  <1> USE DEF TypeOK, OneTable, Row
  <1>1. ASSUME NEW o \in Op, Enqueue(o) PROVE OneTable'
    BY <1>1 DEF Enqueue, Known
  <1>2. ASSUME NEW u \in Unblocker, UnblockAuth(u) PROVE OneTable'
    BY <1>2 DEF UnblockAuth
  <1>3. ASSUME NEW w \in Worker, NEW r \in Op, Supersede(w, r) PROVE OneTable'
    BY <1>3, ReplacementAssumption DEF Supersede, Known
  <1>4. ASSUME NEW w \in Worker, ApplyFailure(w) PROVE OneTable'
    <2>1. op[w] \in Op /\ tok[w] \in Token /\ claim[op[w]] = tok[w]
      BY <1>4 DEF ApplyFailure, WorkerShape, Holds
    <2>2. state[op[w]] \in Claimable
      BY <2>1, SentinelAssumption DEF ClaimsClaimable
    <2> QED
      BY <1>4, <2>1, <2>2 DEF ApplyFailure, Claimable
  <1>5. ASSUME NEW w \in Worker, Archive(w) PROVE OneTable'
    BY <1>5 DEF Archive
  <1>6. CASE RowsUntouched
    BY <1>6 DEF RowsUntouched
  <1> QED
    BY <1>1, <1>2, <1>3, <1>4, <1>5, <1>6, RowsFrame

\* What a worker whose claim still stands knows of its row.
LEMMA HeldRow ==
  ASSUME WorkerShape, ClaimsClaimable, OneTable,
         NEW w \in Worker, pc[w] \in {"claimed", "executing", "applying"}, Holds(w)
  PROVE  /\ op[w] \in Op
         /\ tok[w] \in Token
         /\ claim[op[w]] = tok[w]
         /\ state[op[w]] \in Claimable
         /\ outcome[op[w]] = "none"
  <1>1. op[w] \in Op /\ tok[w] \in Token /\ claim[op[w]] = tok[w]
    BY DEF WorkerShape, Holds
  <1>2. state[op[w]] \in Claimable
    BY <1>1, SentinelAssumption DEF ClaimsClaimable
  <1> QED
    BY <1>1, <1>2 DEF OneTable, Row, Claimable

\* Tombstones stay as they are.
LEMMA TombstonesStay ==
  ASSUME TypeOK, WorkerShape, ClaimsClaimable, OneTable, [Next]_vars,
         NEW o \in Op, outcome[o] # "none"
  PROVE  outcome'[o] = outcome[o] /\ replacedBy'[o] = replacedBy[o]
  <1>1. ASSUME NEW q \in Op, Enqueue(q) PROVE outcome' = outcome /\ replacedBy' = replacedBy
    BY <1>1 DEF Enqueue
  <1>2. ASSUME NEW w \in Worker, NEW r \in Op, Supersede(w, r)
        PROVE outcome'[o] = outcome[o] /\ replacedBy'[o] = replacedBy[o]
    <2>1. outcome[op[w]] = "none"
      BY <1>2, HeldRow DEF Supersede
    <2> QED
      BY <1>2, <2>1 DEF Supersede, TypeOK
  <1>3. ASSUME NEW w \in Worker, Archive(w)
        PROVE outcome'[o] = outcome[o] /\ replacedBy'[o] = replacedBy[o]
    <2>1. outcome[op[w]] = "none"
      BY <1>3, HeldRow DEF Archive
    <2> QED
      BY <1>3, <2>1 DEF Archive, TypeOK
  <1> QED
    BY <1>1, <1>2, <1>3, RowsFrame DEF RowsUntouched, UnblockAuth, ApplyFailure
-----------------------------------------------------------------------------
(* The remaining parts of IInv. *)

\* A worker's program counter tells what it carries.
LEMMA WorkerShapeStep ==
  TypeOK /\ WorkerShape /\ [Next]_vars => WorkerShape'
  <1> SUFFICES ASSUME TypeOK, WorkerShape, [Next]_vars
               PROVE WorkerShape'
    OBVIOUS
  <1> USE DEF TypeOK, WorkerShape, Stopped, LetGo, LeaveFlush
  <1>1. ASSUME NEW o \in Op, Enqueue(o) PROVE WorkerShape'
    BY <1>1 DEF Enqueue
  <1>2. ASSUME NEW u \in Unblocker, Unblocking(u) PROVE WorkerShape'
    BY <1>2 DEF Unblocking, UnblockBegins, UnblockAuth, UnblockFails
  <1>3. ASSUME NEW w \in Worker, WorkerStep(w) PROVE WorkerShape'
    <2>1. CASE FlushStart(w)
      BY <2>1 DEF FlushStart
    <2>2. CASE DeadlineBeforeClaim(w)
      BY <2>2 DEF DeadlineBeforeClaim
    <2>3. CASE NothingToClaim(w)
      BY <2>3 DEF NothingToClaim
    <2>4. CASE ClaimPage(w)
      BY <2>4 DEF ClaimPage, Candidates
    <2>5. CASE ReleaseUnattempted(w)
      BY <2>5 DEF ReleaseUnattempted
    <2>6. CASE StartAttempt(w)
      BY <2>6 DEF StartAttempt
    <2>7. CASE RenewClaim(w)
      BY <2>7 DEF RenewClaim
    <2>8. ASSUME NEW r \in Result, ExecutorReturns(w, r) PROVE WorkerShape'
      BY <2>8 DEF ExecutorReturns, Result
    <2>9. ASSUME NEW r \in Op, Supersede(w, r) PROVE WorkerShape'
      BY <2>9 DEF Supersede
    <2>10. CASE ApplyFailure(w)
      BY <2>10 DEF ApplyFailure
    <2>11. CASE Archive(w)
      BY <2>11 DEF Archive
    <2>12. CASE ApplySuperseded(w)
      BY <2>12 DEF ApplySuperseded
    <2>13. CASE ClaimLost(w)
      BY <2>13 DEF ClaimLost
    <2>14. CASE Abandon(w)
      BY <2>14 DEF Abandon
    <2> QED
      BY <1>3, <2>1, <2>2, <2>3, <2>4, <2>5, <2>6, <2>7, <2>8, <2>9, <2>10, <2>11,
         <2>12, <2>13, <2>14 DEF WorkerStep
  <1>4. ASSUME NEW t \in Token, LeaseExpires(t) PROVE WorkerShape'
    BY <1>4 DEF LeaseExpires
  <1>5. CASE UNCHANGED vars
    BY <1>5
  <1> QED
    BY <1>1, <1>2, <1>3, <1>4, <1>5 DEF Next

\* A token is carried by one row and one worker: claim_page issues a fresh one.
LEMMA TokensUniqueStep ==
  TypeOK /\ WorkerShape /\ TokensUnique /\ [Next]_vars => TokensUnique'
  <1> SUFFICES ASSUME TypeOK, WorkerShape, TokensUnique, [Next]_vars
               PROVE TokensUnique'
    OBVIOUS
  <1> USE DEF TypeOK, TokensUnique, LetGo, LeaveFlush, Holds
  <1>1. ASSUME NEW o \in Op, Enqueue(o) PROVE TokensUnique'
    BY <1>1 DEF Enqueue
  <1>2. ASSUME NEW u \in Unblocker, Unblocking(u) PROVE TokensUnique'
    BY <1>2 DEF Unblocking, UnblockBegins, UnblockAuth, UnblockFails
  <1>3. ASSUME NEW w \in Worker, WorkerStep(w) PROVE TokensUnique'
    <2>1. CASE FlushStart(w)
      BY <2>1 DEF FlushStart
    <2>2. CASE DeadlineBeforeClaim(w)
      BY <2>2 DEF DeadlineBeforeClaim
    <2>3. CASE NothingToClaim(w)
      BY <2>3 DEF NothingToClaim
    <2>4. CASE ClaimPage(w)
      BY <2>4, SentinelAssumption DEF ClaimPage, Candidates, Outstanding
    <2>5. CASE ReleaseUnattempted(w)
      BY <2>5 DEF ReleaseUnattempted
    <2>6. CASE StartAttempt(w)
      BY <2>6 DEF StartAttempt
    <2>7. CASE RenewClaim(w)
      BY <2>7 DEF RenewClaim
    <2>8. ASSUME NEW r \in Result, ExecutorReturns(w, r) PROVE TokensUnique'
      BY <2>8 DEF ExecutorReturns
    <2>9. ASSUME NEW r \in Op, Supersede(w, r) PROVE TokensUnique'
      BY <2>9 DEF Supersede
    <2>10. CASE ApplyFailure(w)
      BY <2>10 DEF ApplyFailure
    <2>11. CASE Archive(w)
      BY <2>11 DEF Archive
    <2>12. CASE ApplySuperseded(w)
      BY <2>12 DEF ApplySuperseded
    <2>13. CASE ClaimLost(w)
      BY <2>13 DEF ClaimLost
    <2>14. CASE Abandon(w)
      BY <2>14 DEF Abandon
    <2> QED
      BY <1>3, <2>1, <2>2, <2>3, <2>4, <2>5, <2>6, <2>7, <2>8, <2>9, <2>10, <2>11,
         <2>12, <2>13, <2>14 DEF WorkerStep
  <1>4. ASSUME NEW t \in Token, LeaseExpires(t) PROVE TokensUnique'
    BY <1>4 DEF LeaseExpires
  <1>5. CASE UNCHANGED vars
    BY <1>5
  <1> QED
    BY <1>1, <1>2, <1>3, <1>4, <1>5 DEF Next

\* A claim changes hands only when its lease has run out.
LEMMA LostOnlyByLapseStep ==
  TypeOK /\ WorkerShape /\ TokensUnique /\ LostOnlyByLapse /\ [Next]_vars => LostOnlyByLapse'
  <1> SUFFICES ASSUME TypeOK, WorkerShape, TokensUnique, LostOnlyByLapse, [Next]_vars
               PROVE LostOnlyByLapse'
    OBVIOUS
  <1> USE DEF TypeOK, LostOnlyByLapse, LetGo, LeaveFlush, Holds, ForgetTokens, Outstanding
  <1>1. ASSUME NEW o \in Op, Enqueue(o) PROVE LostOnlyByLapse'
    BY <1>1 DEF Enqueue
  <1>2. ASSUME NEW u \in Unblocker, Unblocking(u) PROVE LostOnlyByLapse'
    BY <1>2 DEF Unblocking, UnblockBegins, UnblockAuth, UnblockFails
  <1>3. ASSUME NEW w \in Worker, WorkerStep(w) PROVE LostOnlyByLapse'
    <2>1. CASE FlushStart(w)
      BY <2>1 DEF FlushStart
    <2>2. CASE DeadlineBeforeClaim(w)
      BY <2>2 DEF DeadlineBeforeClaim
    <2>3. CASE NothingToClaim(w)
      BY <2>3 DEF NothingToClaim
    <2>4. CASE ClaimPage(w)
      BY <2>4, SentinelAssumption DEF ClaimPage, Candidates, Unclaimed, TokensUnique, WorkerShape
    <2>5. CASE ReleaseUnattempted(w)
      BY <2>5 DEF ReleaseUnattempted, TokensUnique, WorkerShape
    <2>6. CASE StartAttempt(w)
      BY <2>6 DEF StartAttempt
    <2>7. CASE RenewClaim(w)
      BY <2>7, SentinelAssumption DEF RenewClaim, TokensUnique, WorkerShape
    <2>8. ASSUME NEW r \in Result, ExecutorReturns(w, r) PROVE LostOnlyByLapse'
      BY <2>8 DEF ExecutorReturns, WorkerShape
    <2>9. ASSUME NEW r \in Op, Supersede(w, r) PROVE LostOnlyByLapse'
      BY <2>9 DEF Supersede, TokensUnique, WorkerShape
    <2>10. CASE ApplyFailure(w)
      BY <2>10 DEF ApplyFailure, TokensUnique, WorkerShape
    <2>11. CASE Archive(w)
      BY <2>11 DEF Archive, TokensUnique, WorkerShape
    <2>12. CASE ApplySuperseded(w)
      BY <2>12 DEF ApplySuperseded
    <2>13. CASE ClaimLost(w)
      BY <2>13 DEF ClaimLost
    <2>14. CASE Abandon(w)
      BY <2>14 DEF Abandon
    <2> QED
      BY <1>3, <2>1, <2>2, <2>3, <2>4, <2>5, <2>6, <2>7, <2>8, <2>9, <2>10, <2>11,
         <2>12, <2>13, <2>14 DEF WorkerStep
  <1>4. ASSUME NEW t \in Token, LeaseExpires(t) PROVE LostOnlyByLapse'
    BY <1>4 DEF LeaseExpires
  <1>5. CASE UNCHANGED vars
    BY <1>5
  <1> QED
    BY <1>1, <1>2, <1>3, <1>4, <1>5 DEF Next

\* Only rows that can be replayed carry a claim: parking a row clears it.
LEMMA ClaimsClaimableStep ==
  TypeOK /\ WorkerShape /\ TokensUnique /\ ClaimsClaimable /\ OneTable /\ [Next]_vars
    => ClaimsClaimable'
  <1> SUFFICES ASSUME TypeOK, WorkerShape, TokensUnique, ClaimsClaimable, OneTable, [Next]_vars
               PROVE ClaimsClaimable'
    OBVIOUS
  <1> USE DEF TypeOK, ClaimsClaimable
  <1>1. ASSUME NEW o \in Op, Enqueue(o) PROVE ClaimsClaimable'
    BY <1>1 DEF Enqueue, Claimable
  <1>2. ASSUME NEW u \in Unblocker, Unblocking(u) PROVE ClaimsClaimable'
    BY <1>2 DEF Unblocking, UnblockBegins, UnblockAuth, UnblockFails, Claimable
  <1>3. ASSUME NEW w \in Worker, WorkerStep(w) PROVE ClaimsClaimable'
    <2>1. CASE ClaimPage(w)
      BY <2>1 DEF ClaimPage, Candidates
    <2>2. CASE ReleaseUnattempted(w)
      BY <2>2 DEF ReleaseUnattempted
    <2>3. ASSUME NEW r \in Op, Supersede(w, r) PROVE ClaimsClaimable'
      BY <2>3 DEF Supersede, Claimable
    <2>4. CASE ApplyFailure(w)
      BY <2>4 DEF ApplyFailure
    <2>5. CASE Archive(w)
      BY <2>5 DEF Archive
    <2>6. CASE UNCHANGED <<state, claim>>
      BY <2>6
    <2> QED
      BY <1>3, <2>1, <2>2, <2>3, <2>4, <2>5, <2>6
      DEF WorkerStep, FlushStart, DeadlineBeforeClaim, NothingToClaim, StartAttempt,
          RenewClaim, ExecutorReturns, ApplySuperseded, ClaimLost, Abandon
  <1>4. ASSUME NEW t \in Token, LeaseExpires(t) PROVE ClaimsClaimable'
    BY <1>4 DEF LeaseExpires
  <1>5. CASE UNCHANGED vars
    BY <1>5
  <1> QED
    BY <1>1, <1>2, <1>3, <1>4, <1>5 DEF Next

\* A delivered dependency stays delivered.
LEMMA DeliveredStays ==
  ASSUME TypeOK, WorkerShape, ClaimsClaimable, OneTable, [Next]_vars,
         NEW o \in Op, DependencyDelivered(o)
  PROVE  DependencyDelivered(o)'
  <1>1. CASE DependsOn[o] = NoOp
    BY <1>1 DEF DependencyDelivered
  <1>2. CASE DependsOn[o] # NoOp
    <2>1. DependsOn[o] \in Op /\ outcome[DependsOn[o]] \in Delivered
      BY <1>2, DependsAssumption DEF DependencyDelivered
    <2>2. outcome'[DependsOn[o]] = outcome[DependsOn[o]]
      BY <2>1, TombstonesStay DEF Delivered
    <2> QED
      BY <2>1, <2>2 DEF DependencyDelivered
  <1> QED
    BY <1>1, <1>2

\* The only way to get hold of an operation is claim_page.
LEMMA HeldBefore ==
  ASSUME TypeOK, [Next]_vars, NEW w \in Worker, op'[w] # NoOp
  PROVE  op'[w] = op[w] \/ ClaimPage(w)
  <1> USE DEF TypeOK, LetGo, LeaveFlush
  <1>1. ASSUME NEW v \in Worker, WorkerStep(v) PROVE op'[w] = op[w] \/ ClaimPage(w)
    <2>1. CASE ClaimPage(v)
      <3>1. CASE v # w
        BY <2>1, <3>1 DEF ClaimPage
      <3> QED
        BY <2>1, <3>1
    <2> QED
      BY <1>1, <2>1
      DEF WorkerStep, FlushStart, DeadlineBeforeClaim, NothingToClaim, ReleaseUnattempted,
          StartAttempt, RenewClaim, ExecutorReturns, Supersede, ApplyFailure, Archive,
          ApplySuperseded, ClaimLost, Abandon
  <1> QED
    BY <1>1 DEF Next, Enqueue, Unblocking, UnblockBegins, UnblockAuth, UnblockFails,
                    LeaseExpires

\* Dependencies come first, for every worker, claim lost or not.
LEMMA DependencyStep ==
  TypeOK /\ WorkerShape /\ ClaimsClaimable /\ OneTable /\ DependencyRespected /\ [Next]_vars
    => DependencyRespected'
  <1> SUFFICES ASSUME TypeOK, WorkerShape, ClaimsClaimable, OneTable, DependencyRespected,
                      [Next]_vars, NEW w \in Worker, op'[w] # NoOp
               PROVE DependencyDelivered(op[w])'
    BY DEF DependencyRespected
  <1>1. CASE op'[w] = op[w]
    <2>1. op[w] \in Op /\ DependencyDelivered(op[w])
      BY <1>1 DEF TypeOK, DependencyRespected
    <2>2. DependencyDelivered(op[w])'
      BY <1>1, <2>1, DeliveredStays DEF DependencyDelivered
    <2> QED
      BY <2>2
  <1>2. CASE ClaimPage(w)
    <2>1. PICK o \in Candidates(w) : op' = [op EXCEPT ![w] = o]
      BY <1>2 DEF ClaimPage
    <2> QED
      BY <1>2, <2>1 DEF ClaimPage, Candidates, DependencyDelivered, TypeOK
  <1> QED
    BY <1>1, <1>2, HeldBefore

\* A known id stays known: a row is deleted only by leaving a tombstone.
LEMMA KnownStays ==
  ASSUME TypeOK, WorkerShape, ClaimsClaimable, OneTable, [Next]_vars,
         NEW o \in Op, Known(o)
  PROVE  Known(o)'
  <1> USE DEF TypeOK, Known, Row
  <1>1. CASE outcome[o] # "none"
    BY <1>1, TombstonesStay
  <1>2. CASE Row(o)
    <2>1. ASSUME NEW q \in Op, Enqueue(q) PROVE Known(o)'
      BY <1>2, <2>1 DEF Enqueue
    <2>2. ASSUME NEW u \in Unblocker, UnblockAuth(u) PROVE Known(o)'
      BY <1>2, <2>2 DEF UnblockAuth
    <2>3. ASSUME NEW w \in Worker, NEW r \in Op, Supersede(w, r) PROVE Known(o)'
      BY <1>2, <2>3 DEF Supersede
    <2>4. ASSUME NEW w \in Worker, ApplyFailure(w) PROVE Known(o)'
      <3>1. StateAfter(result[w]) # "absent"
        BY <2>4 DEF ApplyFailure, Failure, StateAfter
      <3> QED
        BY <1>2, <2>4, <3>1 DEF ApplyFailure
    <2>5. ASSUME NEW w \in Worker, Archive(w) PROVE Known(o)'
      <3>1. OutcomeAfter(result[w]) # "none"
        BY <2>5 DEF Archive, OutcomeAfter
      <3> QED
        BY <1>2, <2>5, <3>1 DEF Archive
    <2>6. CASE RowsUntouched
      BY <1>2, <2>6 DEF RowsUntouched
    <2> QED
      BY <2>1, <2>2, <2>3, <2>4, <2>5, <2>6, RowsFrame
  <1> QED
    BY <1>1, <1>2

\* A worker brings home "superseded" from an operation that has its tombstone.
LEMMA SupersededGoneStep ==
  TypeOK /\ WorkerShape /\ ClaimsClaimable /\ OneTable /\ SupersededGone /\ [Next]_vars
    => SupersededGone'
  <1> SUFFICES ASSUME TypeOK, WorkerShape, ClaimsClaimable, OneTable, SupersededGone,
                      [Next]_vars, NEW v \in Worker, result'[v] = "superseded"
               PROVE  outcome'[op'[v]] # "none"
    BY DEF SupersededGone
  <1> USE DEF TypeOK, WorkerShape, LetGo, LeaveFlush
  <1>1. ASSUME result[v] = "superseded", op'[v] = op[v] PROVE outcome'[op'[v]] # "none"
    <2>1. op[v] \in Op /\ outcome[op[v]] # "none"
      BY <1>1 DEF SupersededGone
    <2> QED
      BY <1>1, <2>1, TombstonesStay
  <1>2. ASSUME NEW w \in Worker, WorkerStep(w)
        PROVE  \/ result[v] = "superseded" /\ op'[v] = op[v]
               \/ outcome'[op'[v]] # "none"
    <2>1. CASE FlushStart(w) \/ StartAttempt(w) \/ RenewClaim(w)
      BY <2>1 DEF FlushStart, StartAttempt, RenewClaim
    <2>2. CASE DeadlineBeforeClaim(w) \/ NothingToClaim(w) \/ ReleaseUnattempted(w)
               \/ ClaimLost(w) \/ Abandon(w)
      BY <2>2 DEF DeadlineBeforeClaim, NothingToClaim, ReleaseUnattempted, ClaimLost, Abandon
    <2>3. CASE ClaimPage(w)
      BY <2>3 DEF ClaimPage
    <2>4. CASE ApplyFailure(w) \/ Archive(w) \/ ApplySuperseded(w)
      BY <2>4 DEF ApplyFailure, Archive, ApplySuperseded
    <2>5. ASSUME NEW r \in Result, ExecutorReturns(w, r)
          PROVE  result[v] = "superseded" /\ op'[v] = op[v]
      BY <2>5 DEF ExecutorReturns
    <2>6. ASSUME NEW r \in Op, Supersede(w, r)
          PROVE  \/ result[v] = "superseded" /\ op'[v] = op[v]
                 \/ outcome'[op'[v]] # "none"
      BY <2>6 DEF Supersede
    <2> QED
      BY <1>2, <2>1, <2>2, <2>3, <2>4, <2>5, <2>6 DEF WorkerStep
  <1>3. ASSUME NEW o \in Op, Enqueue(o) PROVE result'[v] = result[v] /\ op'[v] = op[v]
    BY <1>3 DEF Enqueue
  <1>4. ASSUME NEW u \in Unblocker, Unblocking(u) PROVE result'[v] = result[v] /\ op'[v] = op[v]
    BY <1>4 DEF Unblocking, UnblockBegins, UnblockAuth, UnblockFails
  <1>5. ASSUME NEW t \in Token, LeaseExpires(t) PROVE result'[v] = result[v] /\ op'[v] = op[v]
    BY <1>5 DEF LeaseExpires
  <1> QED
    BY <1>1, <1>2, <1>3, <1>4, <1>5 DEF Next

\* A flush holds and has attempted what was in the table.
FlushKnown ==
    \A w \in Worker : \A o \in attempted[w] \cup ({op[w]} \ {NoOp}) : Known(o)
\* What it attempted, or holds, is not ready for it, unless its claim is lost.
LostRow(w, o) == o = op[w] /\ ~Holds(w) /\ result[w] # "superseded"
FlushApart ==
    \A w \in Worker : \A o \in ready[w] \cap (attempted[w] \cup {op[w]}) : LostRow(w, o)
\* What it is about to attempt it has not, and outside a flush nothing.
FlushFresh ==
    \A w \in Worker :
        /\ pc[w] = "claimed" => op[w] \notin attempted[w]
        /\ pc[w] \in {"idle", "closed"} => attempted[w] = {}

LEMMA FlushKnownStep ==
  TypeOK /\ WorkerShape /\ ClaimsClaimable /\ OneTable /\ FlushKnown /\ [Next]_vars
    => FlushKnown'
  <1> SUFFICES ASSUME TypeOK, WorkerShape, ClaimsClaimable, OneTable, FlushKnown, [Next]_vars,
                      NEW w \in Worker, NEW o \in attempted'[w] \cup ({op'[w]} \ {NoOp})
               PROVE Known(o)'
    BY DEF FlushKnown
  <1>1. \/ o \in attempted[w] \cup ({op[w]} \ {NoOp})
        \/ ClaimPage(w) /\ o = op'[w]
    <2>1. ASSUME NEW v \in Worker, WorkerStep(v), ~ClaimPage(v)
          PROVE o \in attempted[w] \cup ({op[w]} \ {NoOp})
      <3>1. CASE StartAttempt(v)
        BY <3>1, SentinelAssumption DEF TypeOK, WorkerShape, StartAttempt
      <3>2. CASE ~StartAttempt(v)
        <4>1. /\ attempted' = attempted \/ attempted' = [attempted EXCEPT ![v] = {}]
              /\ op' = op \/ op' = [op EXCEPT ![v] = NoOp]
          BY <2>1, <3>2 DEF WorkerStep, FlushStart, DeadlineBeforeClaim, NothingToClaim,
             ReleaseUnattempted, RenewClaim, ExecutorReturns, Supersede, ApplyFailure, Archive,
             ApplySuperseded, ClaimLost, Abandon, LetGo, LeaveFlush
        <4> QED
          BY <4>1 DEF TypeOK
      <3> QED
        BY <3>1, <3>2
    <2>2. ASSUME NEW v \in Worker, ClaimPage(v)
          PROVE \/ o \in attempted[w] \cup ({op[w]} \ {NoOp})
                \/ v = w /\ o = op'[w]
      BY <2>2 DEF TypeOK, ClaimPage
    <2> QED
      BY <2>1, <2>2 DEF Next, Enqueue, Unblocking, UnblockBegins, UnblockAuth, UnblockFails,
                    LeaseExpires
  <1>2. CASE o \in attempted[w] \cup ({op[w]} \ {NoOp})
    <2>1. o \in Op /\ Known(o)
      BY <1>2 DEF TypeOK, FlushKnown
    <2> QED
      BY <2>1, KnownStays
  <1>3. CASE ClaimPage(w) /\ o = op'[w]
    BY <1>3 DEF TypeOK, ClaimPage, Candidates, Claimable, Known, Row
  <1> QED
    BY <1>1, <1>2, <1>3

\* A lost claim stays lost: claim_page issues no token that a worker carries.
LEMMA LostStays ==
  ASSUME TypeOK, WorkerShape, [Next]_vars,
         NEW v \in Worker, NEW o \in Op, LostRow(v, o), op'[v] = op[v]
  PROVE  LostRow(v, o)'
  <1> USE DEF TypeOK, WorkerShape, LostRow, Holds, LetGo, LeaveFlush
  <1>1. tok[v] \in Token /\ claim[o] # tok[v] /\ o # NoOp
    BY SentinelAssumption
  <1>2. ASSUME NEW w \in Worker, WorkerStep(w) PROVE LostRow(v, o)'
    <2>1. CASE ClaimPage(w)
      <3>1. PICK q \in Candidates(w), t \in Token \ Outstanding :
               /\ claim' = [claim EXCEPT ![q] = t]
               /\ op' = [op EXCEPT ![w] = q]
               /\ tok' = [tok EXCEPT ![w] = t]
        BY <2>1 DEF ClaimPage
      <3>2. v # w /\ t # tok[v]
        <4>1. op[w] = NoOp
          BY <2>1 DEF ClaimPage
        <4>2. tok[v] \in Outstanding
          BY DEF Outstanding
        <4> QED
          BY <1>1, <3>1, <4>1, <4>2
      <3>3. claim'[o] # tok[v] /\ tok'[v] = tok[v]
        BY <1>1, <3>1, <3>2 DEF Candidates
      <3> QED
        BY <2>1, <3>3 DEF ClaimPage
    <2>2. CASE StartAttempt(w) \/ RenewClaim(w) \/ FlushStart(w)
      BY <1>1, <2>2 DEF StartAttempt, RenewClaim, FlushStart
    <2>3. CASE DeadlineBeforeClaim(w) \/ NothingToClaim(w) \/ ClaimLost(w) \/ Abandon(w)
      BY <1>1, <2>3 DEF DeadlineBeforeClaim, NothingToClaim, ClaimLost, Abandon
    <2>4. CASE ReleaseUnattempted(w)
      BY <1>1, <2>4, SentinelAssumption DEF ReleaseUnattempted
    <2>5. ASSUME NEW r \in Result, ExecutorReturns(w, r) PROVE LostRow(v, o)'
      BY <1>1, <2>5 DEF ExecutorReturns
    <2>6. ASSUME NEW r \in Op, Supersede(w, r) PROVE LostRow(v, o)'
      BY <1>1, <2>6, SentinelAssumption DEF Supersede
    <2>7. CASE ApplyFailure(w) \/ Archive(w) \/ ApplySuperseded(w)
      BY <1>1, <2>7, SentinelAssumption DEF ApplyFailure, Archive, ApplySuperseded
    <2> QED
      BY <1>2, <2>1, <2>2, <2>3, <2>4, <2>5, <2>6, <2>7 DEF WorkerStep
  <1> QED
    BY <1>1, <1>2 DEF Next, Enqueue, Unblocking, UnblockBegins, UnblockAuth, UnblockFails,
                      LeaseExpires

\* What a flush attempted becomes ready for it again only when unblock_auth was
\* overtaken, and then either the flush forgets it or its claim is lost.
LEMMA FlushApartStep ==
  TypeOK /\ WorkerShape /\ ClaimsClaimable /\ OneTable /\ SupersededGone /\ FlushKnown
         /\ FlushApart /\ FlushFresh /\ [Next]_vars => FlushApart'
  <1> SUFFICES ASSUME TypeOK, WorkerShape, ClaimsClaimable, OneTable, SupersededGone,
                      FlushKnown, FlushApart, FlushFresh, [Next]_vars, NEW v \in Worker,
                      TypeOK', NEW o \in ready'[v] \cap (attempted'[v] \cup {op'[v]})
               PROVE LostRow(v, o)'
    BY TypeStep DEF FlushApart
  <1> DEFINE Before == o \in ready[v] \cap (attempted[v] \cup {op[v]}) /\ op'[v] = op[v]
  <1>1. o \in Op
    BY DEF TypeOK
  <1>2. CASE Before
    BY <1>1, <1>2, LostStays DEF FlushApart
  <1>3. \A p \in Op : ~Known(p) => \A w \in Worker : p \notin attempted[w] /\ p # op[w]
    BY SentinelAssumption DEF FlushKnown
  <1>4. ASSUME NEW q \in Op, Enqueue(q) PROVE Before
    BY <1>3, <1>4 DEF Enqueue, NewlyReady, TypeOK
  <1>5. ASSUME NEW u \in Unblocker, Unblocking(u) PROVE Before \/ LostRow(v, o)'
    <2>1. CASE UnblockBegins(u) \/ UnblockFails(u)
      BY <2>1 DEF UnblockBegins, UnblockFails
    <2>2. CASE UnblockAuth(u) /\ ~Before
      <3>1. o = op[v] /\ state[o] = "blocked_auth" /\ UNCHANGED <<claim, op, tok, result>>
        BY <2>2 DEF UnblockAuth, TypeOK
      <3>2. claim[o] = NoToken /\ outcome[o] = "none"
        BY <1>1, <3>1 DEF ClaimsClaimable, Claimable, OneTable, Row
      <3>3. tok[v] \in Token
        BY <1>1, <3>1, SentinelAssumption DEF WorkerShape, TypeOK
      <3> QED
        BY <3>1, <3>2, <3>3, SentinelAssumption DEF LostRow, Holds, SupersededGone
    <2> QED
      BY <1>5, <2>1, <2>2 DEF Unblocking
  <1>6. ASSUME NEW w \in Worker, WorkerStep(w), w # v PROVE Before
    <2> USE DEF TypeOK, LetGo, LeaveFlush, Touch
    <2>1. CASE FlushStart(w) \/ StartAttempt(w) \/ RenewClaim(w)
      BY <1>6, <2>1 DEF FlushStart, StartAttempt, RenewClaim
    <2>2. CASE DeadlineBeforeClaim(w) \/ NothingToClaim(w) \/ ClaimLost(w) \/ Abandon(w)
      BY <1>6, <2>2 DEF DeadlineBeforeClaim, NothingToClaim, ClaimLost, Abandon
    <2>3. CASE ClaimPage(w)
      BY <1>6, <2>3 DEF ClaimPage
    <2>4. CASE ReleaseUnattempted(w)
      BY <1>6, <2>4 DEF ReleaseUnattempted
    <2>5. ASSUME NEW r \in Result, ExecutorReturns(w, r) PROVE Before
      BY <1>6, <2>5 DEF ExecutorReturns
    <2>6. ASSUME NEW r \in Op, Supersede(w, r) PROVE Before
      BY <1>3, <1>6, <2>6 DEF Supersede, NewlyReady
    <2>7. CASE ApplyFailure(w) \/ Archive(w) \/ ApplySuperseded(w)
      BY <1>6, <2>7 DEF ApplyFailure, Archive, ApplySuperseded
    <2> QED
      BY <1>6, <2>1, <2>2, <2>3, <2>4, <2>5, <2>6, <2>7 DEF WorkerStep
  <1>7. ASSUME WorkerStep(v) PROVE Before
    <2> USE DEF TypeOK, LetGo, LeaveFlush, Touch
    <2>1. CASE FlushStart(v)
      BY <2>1, SentinelAssumption DEF FlushStart, Rows, WorkerShape, FlushFresh
    <2>2. CASE DeadlineBeforeClaim(v) \/ NothingToClaim(v) \/ ClaimLost(v) \/ Abandon(v)
               \/ ReleaseUnattempted(v)
      BY <2>2 DEF DeadlineBeforeClaim, NothingToClaim, ClaimLost, Abandon,
                  ReleaseUnattempted
    <2>3. CASE ClaimPage(v)
      <3>1. o \in ready[v] /\ o \in attempted[v] /\ op[v] = NoOp
        BY <2>3 DEF ClaimPage, WorkerShape
      <3> QED
        BY <1>1, <3>1, SentinelAssumption DEF FlushApart, LostRow
    <2>4. CASE StartAttempt(v) \/ RenewClaim(v)
      BY <2>4 DEF StartAttempt, RenewClaim
    <2>5. ASSUME NEW r \in Result, ExecutorReturns(v, r) PROVE Before
      BY <2>5 DEF ExecutorReturns
    <2>6. ASSUME NEW r \in Op, Supersede(v, r) PROVE Before
      BY <1>3, <2>6 DEF Supersede, NewlyReady
    <2>7. CASE ApplyFailure(v) \/ Archive(v) \/ ApplySuperseded(v)
      <3>1. o \in ready[v] /\ o \in attempted[v]
        BY <1>1, <2>7, SentinelAssumption DEF ApplyFailure, Archive, ApplySuperseded
      <3>2. Holds(v) \/ result[v] = "superseded"
        BY <2>7 DEF ApplyFailure, Archive, ApplySuperseded
      <3> QED
        BY <3>1, <3>2 DEF FlushApart, LostRow
    <2> QED
      BY <1>7, <2>1, <2>2, <2>3, <2>4, <2>5, <2>6, <2>7 DEF WorkerStep
  <1>8. ASSUME NEW t \in Token, LeaseExpires(t) PROVE Before
    BY <1>8 DEF LeaseExpires
  <1>9. ASSUME UNCHANGED vars PROVE Before
    BY <1>9
  <1> HIDE DEF Before
  <1> QED
    BY <1>2, <1>4, <1>5, <1>6, <1>7, <1>8, <1>9 DEF Next

\* A flush claims nothing it has attempted, and forgets when it ends.
LEMMA FlushFreshStep ==
  TypeOK /\ WorkerShape /\ FlushApart /\ FlushFresh /\ [Next]_vars => FlushFresh'
  <1> SUFFICES ASSUME TypeOK, WorkerShape, FlushApart, FlushFresh, [Next]_vars
               PROVE FlushFresh'
    OBVIOUS
  <1> USE DEF TypeOK, FlushFresh, Stopped, LetGo, LeaveFlush
  <1>1. ASSUME NEW w \in Worker, WorkerStep(w) PROVE FlushFresh'
    <2>1. CASE FlushStart(w) \/ StartAttempt(w) \/ RenewClaim(w)
      BY <2>1 DEF FlushStart, StartAttempt, RenewClaim
    <2>2. CASE DeadlineBeforeClaim(w) \/ NothingToClaim(w) \/ ClaimLost(w) \/ Abandon(w)
               \/ ReleaseUnattempted(w)
      BY <2>2 DEF DeadlineBeforeClaim, NothingToClaim, ClaimLost, Abandon,
                  ReleaseUnattempted
    <2>3. CASE ClaimPage(w)
      <3>1. PICK o \in Candidates(w) : op' = [op EXCEPT ![w] = o]
        BY <2>3 DEF ClaimPage
      <3>2. o \in Op /\ o \in ready[w] /\ op[w] = NoOp
        BY <2>3, <3>1 DEF ClaimPage, Candidates, WorkerShape
      <3>3. o \notin attempted[w]
        BY <3>2, SentinelAssumption DEF FlushApart, LostRow
      <3> QED
        BY <2>3, <3>1, <3>3 DEF ClaimPage
    <2>4. ASSUME NEW r \in Result, ExecutorReturns(w, r) PROVE FlushFresh'
      BY <2>4 DEF ExecutorReturns
    <2>5. ASSUME NEW r \in Op, Supersede(w, r) PROVE FlushFresh'
      BY <2>5 DEF Supersede
    <2>6. CASE ApplyFailure(w) \/ Archive(w) \/ ApplySuperseded(w)
      BY <2>6 DEF ApplyFailure, Archive, ApplySuperseded
    <2> QED
      BY <1>1, <2>1, <2>2, <2>3, <2>4, <2>5, <2>6 DEF WorkerStep
  <1> QED
    BY <1>1 DEF Next, Enqueue, Unblocking, UnblockBegins, UnblockAuth, UnblockFails,
                LeaseExpires

LEMMA FlushMemoryStep ==
  TypeOK /\ WorkerShape /\ ClaimsClaimable /\ OneTable /\ SupersededGone /\ FlushMemory
         /\ [Next]_vars => FlushMemory'
  <1>1. FlushMemory <=> FlushKnown /\ FlushApart /\ FlushFresh
    BY DEF FlushMemory, FlushKnown, FlushApart, FlushFresh, LostRow
  <1>2. FlushMemory' <=> (FlushKnown /\ FlushApart /\ FlushFresh)'
    BY DEF FlushMemory, FlushKnown, FlushApart, FlushFresh, LostRow
  <1> QED
    BY <1>1, <1>2, FlushKnownStep, FlushApartStep, FlushFreshStep

\* A superseded operation and its replacement change hands in one transaction.
LEMMA LineageStep ==
  TypeOK /\ WorkerShape /\ ClaimsClaimable /\ OneTable /\ LineageIntact /\ [Next]_vars
    => LineageIntact'
  <1> SUFFICES ASSUME TypeOK, WorkerShape, ClaimsClaimable, OneTable, LineageIntact,
                      [Next]_vars
               PROVE LineageIntact'
    OBVIOUS
  <1> USE DEF TypeOK, LineageIntact, Known, Row
  <1>1. ASSUME NEW o \in Op, Enqueue(o) PROVE LineageIntact'
    BY <1>1, SentinelAssumption DEF Enqueue
  <1>2. ASSUME NEW u \in Unblocker, UnblockAuth(u) PROVE LineageIntact'
    BY <1>2 DEF UnblockAuth
  <1>3. ASSUME NEW w \in Worker, NEW r \in Op, Supersede(w, r) PROVE LineageIntact'
    <2> DEFINE o == op[w]
    <2>1. o \in Op /\ outcome[o] = "none" /\ state[o] \in Claimable
      BY <1>3, HeldRow DEF Supersede
    <2>2. /\ r # o
          /\ state' = [state EXCEPT ![o] = "absent", ![r] = "pending"]
          /\ outcome' = [outcome EXCEPT ![o] = "superseded"]
          /\ replacedBy' = [replacedBy EXCEPT ![o] = r]
          /\ ReplacementOf[r] = o
      BY <1>3, <2>1, ReplacementAssumption, SentinelAssumption DEF Supersede
    <2> HIDE DEF o
    <2>3. replacedBy[o] = NoOp
      BY <2>1
    <2>4. \A q \in Op : q # r => Known(q)' = Known(q)
      BY <2>1, <2>2 DEF Claimable
    <2>5. Known(r)'
      BY <2>1, <2>2
    <2>6. ASSUME NEW p \in Op
          PROVE (outcome'[p] = "superseded") = (replacedBy'[p] # NoOp)
      BY <2>1, <2>2, SentinelAssumption
    <2>7. ASSUME NEW p \in Op, NEW q \in Op, ReplacementOf[q] = p
          PROVE Known(q)' = (replacedBy'[p] = q)
      <3>1. CASE q = r
        BY <3>1, <2>1, <2>2, <2>5, <2>7
      <3>2. CASE q # r /\ p = o
        BY <3>2, <2>1, <2>2, <2>3, <2>4, <2>7, SentinelAssumption
      <3>3. CASE q # r /\ p # o
        BY <3>3, <2>1, <2>2, <2>4, <2>7
      <3> QED
        BY <3>1, <3>2, <3>3
    <2> QED
      BY <2>6, <2>7
  <1>4. ASSUME NEW w \in Worker, ApplyFailure(w) PROVE LineageIntact'
    <2>1. op[w] \in Op /\ state[op[w]] \in Claimable
      BY <1>4, HeldRow DEF ApplyFailure
    <2>2. state'[op[w]] # "absent"
      BY <1>4, <2>1 DEF ApplyFailure, Failure, StateAfter
    <2>3. \A q \in Op : Known(q)' = Known(q)
      BY <1>4, <2>1, <2>2 DEF ApplyFailure, Claimable
    <2> QED
      BY <1>4, <2>3 DEF ApplyFailure
  <1>5. ASSUME NEW w \in Worker, Archive(w) PROVE LineageIntact'
    <2>1. op[w] \in Op /\ state[op[w]] \in Claimable /\ outcome[op[w]] = "none"
      BY <1>5, HeldRow DEF Archive
    <2>2. outcome'[op[w]] \in {"succeeded", "replayed", "obsolete"}
      BY <1>5, <2>1 DEF Archive, OutcomeAfter
    <2>3. \A q \in Op : Known(q)' = Known(q)
      BY <1>5, <2>1, <2>2 DEF Archive, Claimable
    <2>4. \A q \in Op : (outcome'[q] = "superseded") = (outcome[q] = "superseded")
      BY <1>5, <2>1, <2>2 DEF Archive
    <2> QED
      BY <1>5, <2>3, <2>4 DEF Archive
  <1>6. CASE RowsUntouched
    BY <1>6 DEF RowsUntouched
  <1> QED
    BY <1>1, <1>2, <1>3, <1>4, <1>5, <1>6, RowsFrame

-----------------------------------------------------------------------------
(* Theorems. *)

LEMMA IInvInit == Init => IInv
  <1> SUFFICES ASSUME Init PROVE IInv
    OBVIOUS
  <1>1. TypeOK
    BY TypeInit
  <1>2. /\ WorkerShape /\ TokensUnique /\ LostOnlyByLapse /\ ClaimsClaimable /\ OneTable
        /\ SupersededGone
    BY DEF Init, WorkerShape, TokensUnique, LostOnlyByLapse, ClaimsClaimable, OneTable, Row,
           SupersededGone
  <1>3. DependencyRespected /\ FlushMemory
    BY DEF Init, DependencyRespected, FlushMemory
  <1>4. LineageIntact
    BY SentinelAssumption DEF Init, LineageIntact, Known, Row
  <1> QED
    BY <1>1, <1>2, <1>3, <1>4 DEF IInv

LEMMA IInvStep == IInv /\ [Next]_vars => IInv'
  BY TypeStep, WorkerShapeStep, TokensUniqueStep, LostOnlyByLapseStep, ClaimsClaimableStep,
     OneTableStep, SupersededGoneStep, DependencyStep, FlushMemoryStep, LineageStep DEF IInv

\* The inductive invariant of the outbox: what its rows, claims, tombstones and
\* workers can be told from one another by.
THEOREM Inductive == Spec => []IInv
  <1>1. Init => IInv
    BY IInvInit
  <1>2. IInv /\ [Next]_vars => IInv'
    BY IInvStep
  <1> QED
    BY <1>1, <1>2, PTL DEF Spec

\* Every table and every worker keeps its type.
THEOREM TypeCorrect == Spec => []TypeOK
  BY Inductive, PTL DEF IInv

\* Two executors hold one operation only when a lease ran out (claim_page).
THEOREM Exclusive == Spec => []ExclusiveAttempt
  <1>1. IInv => ExclusiveAttempt
    <2> SUFFICES ASSUME IInv, NEW v \in Worker, NEW w \in Worker,
                        v # w, op[v] = op[w], op[v] # NoOp,
                        result[v] # "superseded", result[w] # "superseded"
                 PROVE tok[v] \in lapsed \/ tok[w] \in lapsed
      BY DEF ExclusiveAttempt
    <2>1. tok[v] \in Token /\ tok[w] \in Token /\ tok[v] # tok[w]
      BY SentinelAssumption DEF IInv, TypeOK, WorkerShape, TokensUnique
    <2>2. ~Holds(v) \/ ~Holds(w)
      BY <2>1 DEF Holds
    <2> QED
      BY <2>2 DEF IInv, LostOnlyByLapse
  <1> QED
    BY <1>1, Inductive, PTL

\* A dependent operation is attempted only after its dependency was delivered.
THEOREM DependenciesFirst == Spec => []DependencyRespected
  BY Inductive, PTL DEF IInv

\* supersede is atomic: tombstone and replacement always agree.
THEOREM LineageHolds == Spec => []LineageIntact
  BY Inductive, PTL DEF IInv

\* A flush that keeps failing attempts each operation at most once.
THEOREM NoHotRetries == Spec => NoHotRetry
  <1>1. IInv => [ColdStep]_vars
    BY DEF IInv, FlushMemory, ColdStep
  <1> QED
    BY <1>1, Inductive, PTL DEF NoHotRetry

\* A dead letter stays one, and only unblock_auth moves what is blocked.
THEOREM ParkedHolds == Spec => ParkedStays
  <1>1. ASSUME IInv, [Next]_vars, NEW o \in Op
        PROVE /\ state[o] = "dead_letter" => state'[o] = "dead_letter"
              /\ (state[o] = "blocked_auth" /\ state'[o] # "blocked_auth") =>
                     \E u \in Unblocker : UnblockAuth(u)
    <2> USE DEF IInv, TypeOK
    <2>1. ASSUME NEW q \in Op, Enqueue(q), state[o] # "absent" PROVE state'[o] = state[o]
      BY <2>1 DEF Enqueue, Known, Row
    <2>2. ASSUME NEW w \in Worker, NEW r \in Op, Supersede(w, r),
                 state[o] \notin Claimable, state[o] # "absent"
          PROVE state'[o] = state[o]
      BY <1>1, <2>2 DEF Supersede, Known, Row, Claimable
    <2>3. ASSUME NEW w \in Worker, ApplyFailure(w), state[o] \notin Claimable
          PROVE state'[o] = state[o]
      BY <1>1, <2>3, HeldRow DEF ApplyFailure
    <2>4. ASSUME NEW w \in Worker, Archive(w), state[o] \notin Claimable
          PROVE state'[o] = state[o]
      BY <1>1, <2>4, HeldRow DEF Archive
    <2>5. ASSUME NEW u \in Unblocker, UnblockAuth(u), state[o] # "blocked_auth"
          PROVE state'[o] = state[o]
      BY <2>5 DEF UnblockAuth
    <2> QED
      BY <1>1, <2>1, <2>2, <2>3, <2>4, <2>5, RowsFrame DEF RowsUntouched, Claimable
  <1>2. IInv /\ [Next]_vars => [ParkedStep]_vars
    BY <1>1 DEF ParkedStep
  <1> QED
    BY <1>2, Inductive, PTL DEF Spec, ParkedStays

\* Nobody but the holder of an unexpired claim writes its row.
THEOREM Fenced == Spec => FencedWrite
  <1> DEFINE Written(o) == <<state[o], claim[o], outcome[o]>>' # <<state[o], claim[o], outcome[o]>>
             ByHolder(o) == \E w \in Worker : tok[w] = claim[o] /\ pc'[w] # pc[w]
  <1>1. ASSUME IInv, Next, NEW o \in Op, claim[o] # NoToken, Written(o)
        PROVE  claim[o] \in lapsed \/ ByHolder(o)
    <2> USE DEF IInv, TypeOK
    <2>1. ASSUME NEW q \in Op, Enqueue(q) PROVE FALSE
      BY <1>1, <2>1 DEF Enqueue, Known, Row, ClaimsClaimable, Claimable
    <2>2. ASSUME NEW u \in Unblocker, Unblocking(u) PROVE FALSE
      BY <1>1, <2>2 DEF Unblocking, UnblockBegins, UnblockAuth, UnblockFails,
                        ClaimsClaimable, Claimable
    <2>3. ASSUME NEW w \in Worker, WorkerStep(w) PROVE claim[o] \in lapsed \/ ByHolder(o)
      <3>1. CASE ClaimPage(w)
        BY <1>1, <3>1 DEF ClaimPage, Candidates, Unclaimed
      <3>2. CASE ReleaseUnattempted(w)
        BY <1>1, <3>2 DEF ReleaseUnattempted, Holds, LeaveFlush, LetGo, Stopped
      <3>3. ASSUME NEW r \in Op, Supersede(w, r) PROVE ByHolder(o)
        <4>1. o # r
          BY <1>1, <3>3 DEF Supersede, Known, Row, ClaimsClaimable, Claimable
        <4>2. o = op[w]
          BY <1>1, <3>3, <4>1 DEF Supersede
        <4> QED
          BY <1>1, <3>3, <4>2 DEF Supersede, Holds
      <3>4. CASE ApplyFailure(w)
        BY <1>1, <3>4 DEF ApplyFailure, Holds, LetGo
      <3>5. CASE Archive(w)
        BY <1>1, <3>5 DEF Archive, Holds, LetGo
      <3>6. CASE UNCHANGED <<state, claim, outcome>>
        BY <1>1, <3>6
      <3> QED
        BY <2>3, <3>1, <3>2, <3>3, <3>4, <3>5, <3>6
        DEF WorkerStep, FlushStart, DeadlineBeforeClaim, NothingToClaim, StartAttempt,
            RenewClaim, ExecutorReturns, ApplySuperseded, ClaimLost, Abandon
    <2>4. ASSUME NEW t \in Token, LeaseExpires(t) PROVE FALSE
      BY <1>1, <2>4 DEF LeaseExpires
    <2> QED
      BY <1>1, <2>1, <2>2, <2>3, <2>4 DEF Next
  <1>2. IInv /\ [Next]_vars => [FencedStep]_vars
    BY <1>1 DEF FencedStep
  <1> QED
    BY <1>2, Inductive, PTL DEF Spec, FencedWrite

-----------------------------------------------------------------------------
(* The outbox implements AbstractOutbox. *)

LEMMA AbstractInit == Init => Abstract!Init
  BY DEF Init, Abstract!Init, Fate, Row

LEMMA AbstractStep == IInv /\ [Next]_vars => [Abstract!Next]_Fate
  <1> SUFFICES ASSUME IInv, [Next]_vars PROVE [Abstract!Next]_Fate
    OBVIOUS
  <1> USE DEF IInv, TypeOK, Row
  <1>1. ASSUME NEW o \in Op, Enqueue(o) PROVE Abstract!Accept(o)
    BY <1>1 DEF Enqueue, Abstract!Accept, Fate, Known
  <1>2. ASSUME NEW u \in Unblocker, UnblockAuth(u) PROVE UNCHANGED Fate
    BY <1>2 DEF UnblockAuth, Fate
  <1>3. ASSUME NEW w \in Worker, pc[w] \in {"claimed", "executing", "applying"}, Holds(w)
        PROVE  /\ op[w] \in Op
               /\ Fate[op[w]] = "queued"
               /\ Abstract!DependencyDelivered(op[w])
    <2>1. op[w] \in Op /\ state[op[w]] \in Claimable /\ DependencyDelivered(op[w])
      BY <1>3, HeldRow, SentinelAssumption DEF DependencyRespected
    <2> QED
      BY <2>1, DependsAssumption
      DEF Claimable, Fate, DependencyDelivered, Delivered, OneTable,
          Abstract!DependencyDelivered, Abstract!Delivered
  <1>4. ASSUME NEW w \in Worker, NEW r \in Op, Supersede(w, r)
        PROVE Abstract!Replace(op[w], r)
    <2>1. /\ op[w] \in Op
          /\ Fate[op[w]] = "queued"
          /\ Abstract!DependencyDelivered(op[w])
      BY <1>3, <1>4 DEF Supersede
    <2>2. Fate[r] = "unknown" /\ ReplacementOf[r] = op[w] /\ r # op[w]
      BY <1>4, <2>1, ReplacementAssumption, SentinelAssumption DEF Supersede, Fate, Known
    <2>3. Fate' = [Fate EXCEPT ![op[w]] = "superseded", ![r] = "queued"]
      BY <1>4, <2>1, <2>2 DEF Supersede, Fate
    <2> QED
      BY <2>1, <2>2, <2>3 DEF Abstract!Replace
  <1>5. ASSUME NEW w \in Worker, ApplyFailure(w) PROVE UNCHANGED Fate
    <2>1. op[w] \in Op /\ state[op[w]] # "absent"
      BY <1>5, HeldRow DEF ApplyFailure, Claimable
    <2>2. state'[op[w]] # "absent"
      BY <1>5, <2>1 DEF ApplyFailure, Failure, StateAfter
    <2> QED
      BY <1>5, <2>1, <2>2 DEF ApplyFailure, Fate
  <1>6. ASSUME NEW w \in Worker, Archive(w)
        PROVE \E f \in Abstract!Final : Abstract!Finish(op[w], f)
    <2> DEFINE f == OutcomeAfter(result[w])
    <2>1. /\ op[w] \in Op
          /\ Fate[op[w]] = "queued"
          /\ Abstract!DependencyDelivered(op[w])
      BY <1>3, <1>6 DEF Archive
    <2>2. f \in Abstract!Final /\ f # "none"
      BY <1>6 DEF Archive, OutcomeAfter, Abstract!Final
    <2>3. Fate' = [Fate EXCEPT ![op[w]] = f]
      BY <1>6, <2>1, <2>2 DEF Archive, Fate
    <2> QED
      BY <2>1, <2>2, <2>3 DEF Abstract!Finish
  <1>7. CASE RowsUntouched
    BY <1>7 DEF RowsUntouched, Fate
  <1>8. \A w \in Worker, r \in Op : Supersede(w, r) => op[w] \in Op
    BY <1>3 DEF Supersede
  <1>9. \A w \in Worker : Archive(w) => op[w] \in Op
    BY <1>3 DEF Archive
  <1> QED
    BY <1>1, <1>2, <1>4, <1>5, <1>6, <1>7, <1>8, <1>9, RowsFrame DEF Abstract!Next

\* Whatever producers, workers, leases and lost workers do, an accepted
\* operation is neither lost nor finished twice, and is handed to a replacement
\* in one step.
THEOREM Promise == Spec => KeepsPromise
  BY AbstractInit, AbstractStep, Inductive, PTL DEF Spec, KeepsPromise, Abstract!Spec

-----------------------------------------------------------------------------
(* Claims nobody answers for. *)

Orphan(o) == claim[o] # NoToken /\ \A w \in Worker : tok[w] # claim[o]
Orphans == {o \in Op : Orphan(o)}

\* Only a worker that vanishes makes an orphan, and of one claim.
LEMMA OrphanMade ==
  ASSUME IInv, [Next]_vars
  PROVE  \/ Orphans' \subseteq Orphans /\ abandons' = abandons
         \/ \E o : Orphans' \subseteq Orphans \cup {o} /\ abandons' = abandons + 1
  <1> USE DEF IInv, TypeOK, WorkerShape, LetGo, LeaveFlush, Holds, Orphans, Orphan
  <1>1. ASSUME UNCHANGED <<claim, tok>> PROVE Orphans' = Orphans
    BY <1>1
  \* The claim a worker lets go of was its operation's, or nobody's.
  <1>2. ASSUME NEW w \in Worker, tok' = [tok EXCEPT ![w] = NoToken],
               \A p \in Op : p # op[w] => claim'[p] = claim[p],
               op[w] \in Op => claim'[op[w]] = NoToken \/
                                (claim'[op[w]] = claim[op[w]] /\ claim[op[w]] # tok[w])
        PROVE  Orphans' \subseteq Orphans
    BY <1>2 DEF TokensUnique
  <1>3. ASSUME NEW w \in Worker, WorkerStep(w), ~Abandon(w)
        PROVE  Orphans' \subseteq Orphans /\ abandons' = abandons
    <2>1. CASE FlushStart(w) \/ StartAttempt(w) \/ RenewClaim(w)
      BY <1>1, <2>1 DEF FlushStart, StartAttempt, RenewClaim
    <2>2. CASE DeadlineBeforeClaim(w) \/ NothingToClaim(w)
      <3>1. tok' = tok /\ claim' = claim /\ abandons' = abandons
        BY <2>2 DEF DeadlineBeforeClaim, NothingToClaim
      <3> QED
        BY <1>1, <3>1
    <2>3. CASE ClaimPage(w)
      <3>1. PICK o \in Op, t \in Token \ Outstanding :
               /\ claim' = [claim EXCEPT ![o] = t]
               /\ tok' = [tok EXCEPT ![w] = t]
        BY <2>3 DEF ClaimPage, Candidates
      <3>2. tok[w] = NoToken /\ abandons' = abandons
        BY <2>3 DEF ClaimPage
      <3> QED
        BY <3>1, <3>2
    <2>4. CASE ReleaseUnattempted(w)
      <3>1. /\ tok' = [tok EXCEPT ![w] = NoToken] /\ abandons' = abandons
            /\ \A p \in Op : p # op[w] => claim'[p] = claim[p]
            /\ op[w] \in Op => claim'[op[w]] = NoToken \/
                                (claim'[op[w]] = claim[op[w]] /\ claim[op[w]] # tok[w])
        BY <2>4 DEF ReleaseUnattempted
      <3> QED
        BY <1>2, <3>1
    <2>5. ASSUME NEW r \in Result, ExecutorReturns(w, r)
          PROVE  Orphans' \subseteq Orphans /\ abandons' = abandons
      BY <1>1, <2>5 DEF ExecutorReturns
    <2>6. ASSUME NEW r \in Op, Supersede(w, r)
          PROVE  Orphans' \subseteq Orphans /\ abandons' = abandons
      BY <2>6 DEF Supersede
    <2>7. CASE ApplyFailure(w) \/ Archive(w)
      <3>1. /\ tok' = [tok EXCEPT ![w] = NoToken] /\ abandons' = abandons
            /\ claim' = [claim EXCEPT ![op[w]] = NoToken]
        BY <2>7 DEF ApplyFailure, Archive
      <3> QED
        BY <1>2, <3>1
    <2>8. CASE ApplySuperseded(w)
      <3>1. tok' = [tok EXCEPT ![w] = NoToken] /\ claim' = claim /\ abandons' = abandons
        BY <2>8 DEF ApplySuperseded
      <3>2. op[w] \in Op /\ tok[w] # NoToken /\ outcome[op[w]] # "none"
        BY <2>8, SentinelAssumption DEF ApplySuperseded, SupersededGone
      <3>3. claim[op[w]] = NoToken
        BY <3>2 DEF ClaimsClaimable, OneTable, Row, Claimable
      <3> QED
        BY <1>2, <3>1, <3>2, <3>3
    <2>9. CASE ClaimLost(w)
      <3>1. /\ tok' = [tok EXCEPT ![w] = NoToken] /\ claim' = claim /\ abandons' = abandons
            /\ claim[op[w]] # tok[w]
        BY <2>9 DEF ClaimLost
      <3> QED
        BY <1>2, <3>1
    <2> QED
      BY <1>3, <2>1, <2>2, <2>3, <2>4, <2>5, <2>6, <2>7, <2>8, <2>9 DEF WorkerStep
  <1>4. ASSUME NEW w \in Worker, Abandon(w)
        PROVE  Orphans' \subseteq Orphans \cup {op[w]} /\ abandons' = abandons + 1
    BY <1>4 DEF Abandon, TokensUnique
  <1>5. ASSUME NEW o \in Op, Enqueue(o) PROVE Orphans' = Orphans /\ abandons' = abandons
    BY <1>1, <1>5 DEF Enqueue
  <1>6. ASSUME NEW u \in Unblocker, Unblocking(u)
        PROVE  Orphans' = Orphans /\ abandons' = abandons
    BY <1>1, <1>6 DEF Unblocking, UnblockBegins, UnblockAuth, UnblockFails
  <1>7. ASSUME NEW t \in Token, LeaseExpires(t) PROVE Orphans' = Orphans /\ abandons' = abandons
    BY <1>1, <1>7 DEF LeaseExpires
  <1>8. CASE UNCHANGED vars
    BY <1>1, <1>8
  <1> HIDE DEF IInv, TypeOK, WorkerShape, Orphans, Orphan
  <1> QED
    BY <1>3, <1>4, <1>5, <1>6, <1>7, <1>8 DEF Next

OrphansCounted == IsFiniteSet(Orphans) /\ Cardinality(Orphans) <= abandons

LEMMA OrphansCountedStep ==
  IInv /\ OrphansCounted /\ [Next]_vars => OrphansCounted'
  <1> SUFFICES ASSUME IInv, OrphansCounted, [Next]_vars PROVE OrphansCounted'
    OBVIOUS
  <1> USE DEF OrphansCounted
  <1>0. abandons \in Nat /\ Cardinality(Orphans) \in Nat
    BY BoundAssumption, FS_CardinalityType DEF IInv, TypeOK
  <1>1. ASSUME Orphans' \subseteq Orphans, abandons' = abandons PROVE OrphansCounted'
    <2>1. IsFiniteSet(Orphans') /\ Cardinality(Orphans') <= Cardinality(Orphans)
      BY <1>1, FS_Subset
    <2>2. Cardinality(Orphans') \in Nat
      BY <2>1, FS_CardinalityType
    <2> QED
      BY <1>0, <1>1, <2>1, <2>2
  <1>2. ASSUME NEW o, Orphans' \subseteq Orphans \cup {o}, abandons' = abandons + 1
        PROVE  OrphansCounted'
    <2> DEFINE more == Orphans \cup {o}
    <2>1. IsFiniteSet(more) /\ Cardinality(more) \in {Cardinality(Orphans), Cardinality(Orphans) + 1}
      BY FS_AddElement
    <2> HIDE DEF more
    <2>2. IsFiniteSet(Orphans') /\ Cardinality(Orphans') <= Cardinality(more)
      BY <1>2, <2>1, FS_Subset DEF more
    <2>3. Cardinality(Orphans') \in Nat
      BY <2>2, FS_CardinalityType
    <2> QED
      BY <1>0, <1>2, <2>1, <2>2, <2>3
  <1> QED
    BY <1>1, <1>2, OrphanMade

\* Every claim no worker answers for was left by a worker that vanished; the
\* deadline of a shutdown, a lost lease and a late result leave none behind
\* (_release_unattempted, outbox.py:1219).
THEOREM ClaimsAccountedHolds == Spec => []ClaimsAccounted
  <1>1. Init => OrphansCounted
    <2> SUFFICES ASSUME Init PROVE OrphansCounted
      OBVIOUS
    <2>1. Orphans = {} /\ abandons = 0
      BY DEF Init, Orphans, Orphan
    <2> QED
      BY <2>1, FS_EmptySet DEF OrphansCounted
  <1>2. IInv /\ OrphansCounted /\ [Next]_vars => OrphansCounted'
    BY OrphansCountedStep
  <1>3. OrphansCounted => ClaimsAccounted
    BY DEF OrphansCounted, Orphans, Orphan, ClaimsAccounted
  <1> QED
    BY <1>1, <1>2, <1>3, Inductive, PTL DEF Spec
=============================================================================
