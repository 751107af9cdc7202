------------------------------ MODULE Delivery ------------------------------
(***************************************************************************)
(* What a flush does with a claimed operation: SibylRuntime._execute_      *)
(* operation and _reconcile_correction (src/runtime.py:653), the client's  *)
(* verdict on each answer (src/client.py), and the Sibyl server as this    *)
(* code relies on it.  Every step is a step of Outbox, whose executor's    *)
(* result is now the one the answer leads to, or leaves Outbox unchanged.  *)
(*                                                                         *)
(* A captured turn is one source.  Requests are told apart by their        *)
(* idempotency key, which is the operation, and by the expected_revision   *)
(* they carry (0: none).  The client may give up on a request that still   *)
(* reaches the server.                                                     *)
(*                                                                         *)
(* Definitions marked "Fault" are not the code: each is what a neighbour   *)
(* would be with a plausible bug, kept to show that a property notices.    *)
(***************************************************************************)
EXTENDS Outbox

CONSTANTS
    Raw,          \* the operations that create a source; the others correct one
    Target,       \* the capture whose source each operation is about
    Named,        \* expected_revision in the request as it was enqueued
    Trouble,      \* the answers other than the regular ones that may come
    MaxRevision   \* BOUND: how far other writers may take a revision

ASSUME SourceAssumption ==
    /\ Raw \subseteq Op
    /\ Target \in [Op -> Raw]
    /\ \A o \in Raw : Target[o] = o /\ ReplacementOf[o] = NoOp /\ DependsOn[o] = NoOp
    /\ Named \in [Op -> Nat]
    /\ \A o \in Raw : Named[o] = 0
    /\ \A o \in Op \ Raw : DependsOn[o] \in {NoOp, Target[o]}
    /\ \A o \in Op \ Raw : DependsOn[o] = NoOp \/ ReplacementOf[o] # NoOp => Named[o] # 0
    /\ \A o \in Op : ReplacementOf[o] # NoOp => Target[o] = Target[ReplacementOf[o]]
    /\ MaxRevision \in Nat

\* The regular answers: to a mutation, and to a preview ("satisfied" or erased,
\* or the "current" revision).
Regular == {"done", "replayed", "mismatch", "conflict", "gone", "satisfied", "current"}
\* What may come instead.
Irregular == {"lost",             \* SibylTransportError, or any other exception
              "unavailable",      \* 429 or 5xx with an error of the contract
              "foreign_body",     \* 5xx whose body is not of the contract
              "garbled",          \* a success that breaks the response contract
              "denied",           \* 401, 403
              "invalid",          \* 4xx otherwise; a preview not allowed or bare
              "lock_held",        \* idempotency_lock_held
              "interrupted",      \* idempotency_interrupted_pending
              "receipt_pending"}  \* idempotency_receipt_pending
ASSUME TroubleAssumption == Trouble \subseteq Irregular

VARIABLES
    seen,      \* ClaimedOperation.state of each worker's operation
    call,      \* the request each worker is waiting on
    answer,    \* what came back
    revision,  \* session_turns.revision of each capture, 0 = NULL
    late,      \* requests nobody waits on any more and that may yet arrive
    receipt,   \* server: what it knows of each idempotency key ...
    stored,    \* ... and the expected_revision of that request
    current,   \* server: revision of each source, 0 = there is none
    life,      \* server: its lifecycle state
    effects    \* history: how often each operation took effect

executor == <<seen, call, answer, revision>>
server == <<receipt, stored, current, life, effects>>
wire == <<executor, late, server>>
deliveryVars == <<vars, wire>>

NoCall == [op |-> NoOp, expected |-> 0, preview |-> FALSE]
NoAnswer == [code |-> "none", revision |-> 0]
Said(c) == [code |-> c, revision |-> 0]
Waiting(w) == call[w] # NoCall /\ answer[w] = NoAnswer

\* What the executor was started with is gone with its operation.
Hangup(w) ==
    /\ call' = [call EXCEPT ![w] = NoCall]
    /\ answer' = [answer EXCEPT ![w] = NoAnswer]

-----------------------------------------------------------------------------
Request == [op : Op \cup {NoOp}, expected : Nat, preview : BOOLEAN]
Reply == [code : Regular \cup Irregular \cup {"none"}, revision : Nat]

DeliveryTypeOK ==
    /\ seen \in [Worker -> OperationState \cup {"none"}]
    /\ call \in [Worker -> Request]
    /\ answer \in [Worker -> Reply]
    /\ revision \in [Raw -> Nat]
    /\ late \subseteq {q \in Request : q.op \in Op /\ ~q.preview}
    /\ receipt \in [Op -> {"none", "pending", "rolled_back", "done"}]
    /\ stored \in [Op -> Nat]
    /\ current \in [Raw -> Nat]
    /\ life \in [Raw -> {"active", "stale", "erased"}]
    /\ effects \in [Op -> Nat]

DeliveryInit ==
    /\ Init
    /\ seen = [w \in Worker |-> "none"]
    /\ call = [w \in Worker |-> NoCall]
    /\ answer = [w \in Worker |-> NoAnswer]
    /\ revision = [o \in Raw |-> 0]
    /\ late = {}
    /\ receipt = [o \in Op |-> "none"]
    /\ stored = [o \in Op |-> 0]
    /\ current = [o \in Raw |-> 0]
    /\ life = [o \in Raw |-> "active"]
    /\ effects = [o \in Op |-> 0]

-----------------------------------------------------------------------------
(* The outbox around the executor. *)

\* A manual correction (_tool_correct) is enqueued after a preview has named the
\* source's revision.
EnqueueOperation(o) ==
    /\ Enqueue(o)
    /\ Named[o] <= current[Target[o]]
    /\ UNCHANGED wire

Claim(w) ==
    /\ ClaimPage(w)
    /\ seen' = [seen EXCEPT ![w] = state[op'[w]]]
    /\ UNCHANGED <<call, answer, revision, late, server>>

\* A worker that vanishes leaves its request on the way.
Vanish(w) ==
    /\ Abandon(w)
    /\ Hangup(w)
    /\ late' = late \cup {q \in {call[w]} : Waiting(w) /\ ~q.preview}
    /\ UNCHANGED <<seen, revision, server>>

\* Steps of a flush that the executor has no part in.
FlushStep(w) ==
    /\ \/ FlushStart(w)
       \/ DeadlineBeforeClaim(w)
       \/ NothingToClaim(w)
       \/ ReleaseUnattempted(w)
       \/ StartAttempt(w)
       \/ RenewClaim(w)
       \/ ApplyFailure(w)
       \/ Archive(w)
       \/ ApplySuperseded(w)
       \/ ClaimLost(w)
    /\ UNCHANGED wire

-----------------------------------------------------------------------------
(* The executor: requests. *)

\* The expected_revision of a correction: the one it names, or else the one its
\* source's capture was acknowledged with.
Expected(o) ==
    IF Named[o] = 0 /\ DependsOn[o] # NoOp THEN revision[DependsOn[o]] ELSE Named[o]

\* Without a revision to send, "source dependency revision is not available".
Send(w) ==
    LET o == op[w]
    IN  /\ pc[w] = "executing"
        /\ call[w] = NoCall
        /\ IF o \in Raw \/ Expected(o) # 0
           THEN /\ call' = [call EXCEPT ![w] =
                              [op |-> o, expected |-> Expected(o),
                               preview |-> o \notin Raw /\ seen[w] = "reconcile_revision"]]
                /\ UNCHANGED vars
           ELSE /\ ExecutorReturns(w, "retry")
                /\ UNCHANGED call
        /\ UNCHANGED <<seen, answer, revision, late, server>>

-----------------------------------------------------------------------------
(* The server, as src/ relies on it: it checks the idempotency key first, then *)
(* the revision, and answers a repeated key with the stored receipt.           *)

\* The operation takes effect: a source is created, or marked stale.
TakeEffect(o) ==
    /\ current' = [current EXCEPT ![Target[o]] = @ + 1]
    /\ life' = IF o \in Raw THEN life ELSE [life EXCEPT ![Target[o]] = "stale"]
    /\ effects' = [effects EXCEPT ![o] = @ + 1]

Acceptable(q) ==
    \/ q.op \in Raw
    \/ life[Target[q.op]] # "erased" /\ q.expected = current[Target[q.op]]

\* The possible answers to a mutation.  The key comes first, then the revision.
Replies(q) ==
    IF receipt[q.op] \in {"pending", "done"} /\ q.expected # stored[q.op] THEN {Said("mismatch")}
    ELSE IF receipt[q.op] = "done" THEN {[code |-> "replayed", revision |-> 1]}
    ELSE IF receipt[q.op] = "pending"
         THEN {Said(c) : c \in Trouble \cap {"lock_held", "interrupted", "receipt_pending"}}
    ELSE IF ~Acceptable(q)
         THEN {Said(IF life[Target[q.op]] = "erased" THEN "gone" ELSE "conflict")}
    ELSE {[code |-> "done", revision |-> 1]}

\* A first, acceptable request is performed under its key.
Perform(q, r) ==
    /\ receipt[q.op] \in {"none", "rolled_back"}
    /\ Acceptable(q)
    /\ receipt' = [receipt EXCEPT ![q.op] = r]
    /\ stored' = [stored EXCEPT ![q.op] = q.expected]

Process(q, reply) ==
    \/ /\ reply \in Replies(q)
       /\ IF reply.code = "done" THEN Perform(q, "done") /\ TakeEffect(q.op)
                                 ELSE UNCHANGED server
    \* ... unless the server stops with the key reserved, before or after that.
    \* BOUND: it does so once for an operation.
    \/ /\ "interrupted" \in Trouble
       /\ receipt[q.op] = "none"
       /\ reply = Said("lost")
       /\ Perform(q, "pending")
       /\ TakeEffect(q.op) \/ UNCHANGED <<current, life, effects>>

Serve(w) ==
    /\ Waiting(w) /\ ~call[w].preview
    /\ \E reply \in Replies(call[w]) \cup {Said("lost")} :
          /\ Process(call[w], reply)
          /\ \/ answer' = [answer EXCEPT ![w] = reply]
             \/ /\ reply.code \in {"done", "replayed"} /\ "garbled" \in Trouble
                /\ answer' = [answer EXCEPT ![w] = Said("garbled")]
    /\ UNCHANGED <<vars, seen, call, revision, late>>

Preview(w) ==
    LET s == Target[call[w].op]
    IN  /\ Waiting(w) /\ call[w].preview
        /\ answer' = [answer EXCEPT ![w] =
                         IF life[s] # "active" THEN Said("satisfied")
                         ELSE [code |-> "current", revision |-> current[s]]]
        /\ UNCHANGED <<vars, seen, call, revision, late, server>>

\* An answer from before any processing.
TurnAway(w) ==
    /\ Waiting(w)
    /\ \E c \in Trouble \cap {"unavailable", "foreign_body", "denied", "invalid"} :
          answer' = [answer EXCEPT ![w] = Said(c)]
    /\ UNCHANGED <<vars, seen, call, revision, late, server>>

\* The client gives up (SibylTransportError); the request may still arrive.
GiveUp(w) ==
    /\ Waiting(w)
    /\ "lost" \in Trouble
    /\ answer' = [answer EXCEPT ![w] = Said("lost")]
    /\ late' = late \cup {q \in {call[w]} : ~q.preview}
    /\ UNCHANGED <<vars, seen, call, revision, server>>

ArriveLate ==
    /\ \E q \in late :
          /\ late' = late \ {q}
          /\ \E reply \in Replies(q) \cup {Said("lost")} : Process(q, reply)
    /\ UNCHANGED <<vars, executor>>

\* The server settles an interrupted key, by the effect it finds.
Settle(o) ==
    /\ receipt[o] = "pending"
    /\ receipt' = [receipt EXCEPT ![o] = IF effects[o] > 0 THEN "done" ELSE "rolled_back"]
    /\ UNCHANGED <<vars, executor, late, stored, current, life, effects>>

\* Somebody else changes a source.
ForeignWrite(s) ==
    /\ current[s] \in 1 .. MaxRevision - 1
    /\ life[s] # "erased"
    /\ current' = [current EXCEPT ![s] = @ + 1]
    /\ \E l \in {"active", "stale", "erased"} : life' = [life EXCEPT ![s] = l]
    /\ UNCHANGED <<vars, executor, late, receipt, stored, effects>>

-----------------------------------------------------------------------------
(* The executor: what each answer leads to. *)

\* Fault: a lost answer is taken for a conflict.
LostIsConflict(o, code) ==
    CASE code \in {"conflict", "lost"} -> "reconcile_revision"
      [] code = "done" -> "succeed"
      [] code = "replayed" -> "replay"
      [] code = "interrupted" -> "recover"
      [] code = "denied" -> "block_auth"
      [] OTHER -> "obsolete"
\* Fault: an interrupted mutation is taken for a replayed one.
InterruptedIsDone(o, code) ==
    CASE code \in {"replayed", "interrupted"} -> "replay"
      [] code = "done" -> "succeed"
      [] code = "lost" -> "retry"
      [] code = "denied" -> "block_auth"
      [] code = "conflict" -> "reconcile_revision"
      [] OTHER -> "obsolete"
\* Fault: a revision conflict is simply tried again.
ConflictIsRetried(o, code) ==
    CASE code \in {"conflict", "lost"} -> "retry"
      [] code = "done" -> "succeed"
      [] code = "replayed" -> "replay"
      [] code = "interrupted" -> "recover"
      [] code = "denied" -> "block_auth"
      [] OTHER -> "obsolete"
\* The except clauses of _execute_operation, classify_http_failure, and
\* _reconcile_correction's reading of a preview.
ResultFor(o, code) ==
    CASE code = "done" -> "succeed"
      [] code = "replayed" -> "replay"
      [] code \in {"lost", "unavailable", "lock_held"} -> "retry"
      [] code = "denied" -> "block_auth"
      [] code = "interrupted" -> "recover"
      [] code = "conflict" -> "reconcile_revision"
      [] code = "satisfied" -> "obsolete"
      [] code = "gone" -> IF o \in Raw THEN "dead_letter" ELSE "obsolete"
      [] OTHER -> "dead_letter"   \* mismatch, receipt_pending, foreign_body, ...

Answered(w) == pc[w] = "executing" /\ answer[w] # NoAnswer
Acknowledged(w) == op[w] \in Raw /\ answer[w].code \in {"done", "replayed"}

Return(w) ==
    /\ Answered(w)
    /\ ~Acknowledged(w)
    /\ answer[w].code # "current"
    /\ ExecutorReturns(w, ResultFor(op[w], answer[w].code))
    /\ Hangup(w)
    /\ UNCHANGED <<seen, revision, late, server>>

\* Fault: the revision of the answer is dropped.
ReturnUnrecorded(w) ==
    /\ Answered(w)
    /\ Acknowledged(w)
    /\ ExecutorReturns(w, ResultFor(op[w], answer[w].code))
    /\ Hangup(w)
    /\ UNCHANGED <<seen, revision, late, server>>
\* Fault: the source's latest revision is recorded, not the one acknowledged.
RecordLatest(w) ==
    /\ Answered(w)
    /\ Acknowledged(w)
    /\ revision' = [revision EXCEPT ![op[w]] = current[op[w]]]
    /\ ExecutorReturns(w, ResultFor(op[w], answer[w].code))
    /\ Hangup(w)
    /\ UNCHANGED <<seen, late, server>>
\* A capture's revision is recorded (record_turn_revision), then it returns.
RecordAndReturn(w) ==
    /\ Answered(w)
    /\ Acknowledged(w)
    /\ revision' = [revision EXCEPT ![op[w]] = answer[w].revision]
    /\ ExecutorReturns(w, ResultFor(op[w], answer[w].code))
    /\ Hangup(w)
    /\ UNCHANGED <<seen, late, server>>

\* Recording it failed: an exception, so RETRY.
RecordFails(w) ==
    /\ Answered(w)
    /\ Acknowledged(w)
    /\ ExecutorReturns(w, "retry")
    /\ Hangup(w)
    /\ UNCHANGED <<seen, revision, late, server>>

\* The correction is replaced by one for the current revision.
Reconcile(w) ==
    /\ Answered(w)
    /\ answer[w].code = "current"
    /\ \E r \in Op : Named[r] = answer[w].revision /\ Supersede(w, r)
    /\ Hangup(w)
    /\ UNCHANGED <<seen, revision, late, server>>

\* supersede raised: the claim is lost, or that replacement is known.
ReconcileFails(w) ==
    /\ Answered(w)
    /\ answer[w].code = "current"
    /\ \/ ~Holds(w)
       \/ \E r \in Op : /\ ReplacementOf[r] = op[w] /\ Named[r] = answer[w].revision
                        /\ Known(r)
    /\ ExecutorReturns(w, "retry")
    /\ Hangup(w)
    /\ UNCHANGED <<seen, revision, late, server>>

-----------------------------------------------------------------------------
ExecutorStep(w) ==
    \/ Send(w)
    \/ Return(w)
    \/ RecordAndReturn(w)
    \/ RecordFails(w)
    \/ Reconcile(w)
    \/ ReconcileFails(w)

ServerStep ==
    \/ \E w \in Worker : Serve(w) \/ Preview(w) \/ TurnAway(w) \/ GiveUp(w)
    \/ ArriveLate
    \/ \E o \in Op : Settle(o)
    \/ \E s \in Raw : ForeignWrite(s)

DeliveryNext ==
    \/ \E o \in Op : EnqueueOperation(o)
    \/ \E u \in Unblocker : Unblocking(u) /\ UNCHANGED wire
    \/ \E w \in Worker : Claim(w) \/ Vanish(w) \/ FlushStep(w) \/ ExecutorStep(w)
    \/ \E t \in Token : LeaseExpires(t) /\ UNCHANGED wire
    \/ ServerStep

DeliverySpec == DeliveryInit /\ [][DeliveryNext]_deliveryVars

\* Scheduling as in Outbox; besides, Sibyl is not out of order for ever: a
\* request that keeps being made is at some time answered as it should be, an
\* interrupted one settled, and its revision recorded.
DeliveryProgress(w) ==
    \/ Claim(w)
    \/ ExecutorStep(w)
    \/ (\/ NothingToClaim(w)
        \/ StartAttempt(w)
        \/ ApplyFailure(w)
        \/ Archive(w)
        \/ ApplySuperseded(w)
        \/ ClaimLost(w)) /\ UNCHANGED wire

ServeWell(w) == Serve(w) /\ answer'[w].code \in Regular

DeliveryFairness ==
    /\ \A w \in Worker :
          /\ WF_deliveryVars(DeliveryProgress(w))
          /\ WF_deliveryVars(FlushStart(w) /\ UNCHANGED wire)
          /\ SF_deliveryVars(ServeWell(w))
          /\ SF_deliveryVars(Preview(w))
          /\ SF_deliveryVars(RecordAndReturn(w))
    /\ WF_deliveryVars(\E t \in Token : LeaseExpires(t) /\ UNCHANGED wire)
    /\ WF_deliveryVars(\E o \in Op : Settle(o))

FairDeliverySpec == DeliverySpec /\ DeliveryFairness

-----------------------------------------------------------------------------
(* Properties. *)

\* The operations one logical correction went through.
Lineage(o) == {r \in Op : r = o \/ ReplacementOf[r] = o}

\* An operation takes effect at most once, and so does a correction together
\* with the replacements it is superseded by, however its requests are lost,
\* delayed, repeated by workers that took over its claim, or re-derived from a
\* newer revision (release_gates.py:202, _reconcile_correction).
EffectOnce ==
    \A o \in Op : \A p, r \in Lineage(o) :
        effects[p] <= 1 /\ (p # r => effects[p] + effects[r] <= 1)

\* What the outbox calls delivered has taken effect, and has its receipt.
DeliveredIsReal ==
    \A o \in Op : outcome[o] \in Delivered => effects[o] = 1 /\ receipt[o] = "done"

\* A dependent correction always finds the revision of the capture it waited
\* for: the revision is on record before the capture counts as delivered
\* (runtime.py:660 before outbox.py:1019).
HydrationReady ==
    \A w \in Worker :
        (op[w] # NoOp /\ op[w] \notin Raw) => Expected(op[w]) # 0

(* The inductive invariant behind the last two, by its parts. *)

\* The receipt of an operation tells whether it has taken effect.
ReceiptsTell ==
    \A o \in Op :
        /\ receipt[o] \in {"none", "rolled_back"} => effects[o] = 0
        /\ receipt[o] = "pending" => effects[o] \in {0, 1}
        /\ receipt[o] = "done" => effects[o] = 1

\* A worker waits for its own operation, and only while executing it.
CallsOwn ==
    \A w \in Worker :
        /\ call[w] # NoCall => pc[w] = "executing" /\ call[w].op = op[w]
        /\ answer[w] # NoAnswer => call[w] # NoCall

Recorded(o) == receipt[o] = "done" /\ (o \in Raw => revision[o] # 0)

\* Success is reported of nothing but an acknowledged and recorded operation.
SuccessVouched ==
    /\ \A w \in Worker :
          /\ answer[w].code \in {"done", "replayed"} =>
                receipt[call[w].op] = "done" /\ answer[w].revision # 0
          /\ result[w] \in {"succeed", "replay"} => Recorded(op[w])
    /\ \A o \in Op : outcome[o] \in Delivered => Recorded(o)

DeliveryIInv == DeliveryTypeOK /\ ReceiptsTell /\ CallsOwn /\ SuccessVouched

\* One idempotency key never carries two different requests, although the
\* expected_revision is filled in anew for every attempt (runtime.py:678-690).
KeyKeepsRequest == \A w \in Worker : answer[w].code # "mismatch"

Parked(o) == state[o] \in {"dead_letter", "blocked_auth"}
GivenUp(o) == Parked(o) \/ outcome[o] \in Outcome \ Delivered

\* Whatever is queued is settled or parked in the end, or what it depends on is
\* given up: a lost answer, an interrupted receipt or a revision conflict costs
\* time only, and nothing else than a parked or unfulfilled dependency holds an
\* operation in the queue (under FairDeliverySpec; claim_page, outbox.py:851,
\* and the scenarios of release_gates.py:134 and 179).
Converges ==
    \A o \in Op :
        (Row(o) /\ (DependsOn[o] # NoOp => Known(DependsOn[o]))) ~>
            (\/ ~Row(o)
             \/ Parked(o)
             \/ DependsOn[o] # NoOp /\ GivenUp(DependsOn[o]))
=============================================================================
