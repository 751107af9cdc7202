------------------------------- MODULE Outbox -------------------------------
(***************************************************************************)
(* The durable outbox of hermes-sibyl-memory (src/outbox.py): a SQLite     *)
(* table of pending memory operations, drained by any number of flush      *)
(* workers in any number of processes, and a table of tombstones.          *)
(*                                                                         *)
(* Every SQLite transaction is one step; a worker may be stopped, outlive  *)
(* its lease or die between any two of them.  The executor a worker calls  *)
(* while it holds a claim (SibylRuntime._execute_operation) is seen here   *)
(* only through the result it returns and the supersede it may perform.    *)
(*                                                                         *)
(* Time is kept only as far as the code compares it.  A lease is unexpired *)
(* or in "lapsed".  "updated_at < ready_before", the test that keeps a     *)
(* flush away from rows touched since it began, is the set ready[w].  A    *)
(* writer reads the clock before it waits for SQLite's write lock, so a    *)
(* flush that begins during the wait sees a row written after its own      *)
(* start as older than itself: such flushes are called overtaking.  One    *)
(* that overtakes unblock_auth may meet a row again that it has itself had *)
(* blocked, so this wait has a beginning and an end of its own.            *)
(*                                                                         *)
(* Definitions marked "Fault" are not the code: each is what a neighbour   *)
(* would be with a plausible bug, kept to show that a property notices.    *)
(***************************************************************************)
EXTENDS Naturals, FiniteSets

CONSTANTS
    Op,             \* operation identifiers
    Worker,         \* threads that run a flush, of any process
    Closer,         \* those whose flush is DurableOutbox.shutdown, with a deadline
    Token,          \* claim tokens (uuid4): enough for every outstanding claim
    NoOp, NoToken,  \* SQL NULLs
    DependsOn,      \* depends_on_operation_id of each operation
    ReplacementOf,  \* the operation each replacement id was derived from
    Unblocker,      \* processes of "hermes sibyl flush", which unblock
    MaxAbandons     \* BOUND: how often a worker may vanish in a flush

ASSUME SentinelAssumption == NoOp \notin Op /\ NoToken \notin Token
ASSUME CloserAssumption == Closer \subseteq Worker
ASSUME BoundAssumption == MaxAbandons \in Nat

\* outbox.py:792 refuses a self-dependency; runtime.py:784 copies the
\* dependency of an operation to its replacement, and runtime.py:762 derives
\* the replacement's id from the operation's.
ASSUME DependsAssumption ==
    /\ DependsOn \in [Op -> Op \cup {NoOp}]
    /\ \A o \in Op : DependsOn[o] # o
ASSUME ReplacementAssumption ==
    /\ ReplacementOf \in [Op -> Op \cup {NoOp}]
    /\ \A r \in Op : ReplacementOf[r] # NoOp =>
            /\ ReplacementOf[r] # r
            /\ DependsOn[r] = DependsOn[ReplacementOf[r]]

OperationState ==
    {"pending", "pending_recovery", "blocked_auth", "dead_letter", "reconcile_revision"}
\* Fault: dead letters are replayed like the rest.
ClaimableAndDead == {"pending", "pending_recovery", "reconcile_revision", "dead_letter"}
Claimable == {"pending", "pending_recovery", "reconcile_revision"}
Outcome == {"succeeded", "replayed", "obsolete", "superseded"}
Delivered == {"succeeded", "replayed"}

\* ResultAction, with SUCCEED split by the "replayed" flag of AttemptResult.
Result == {"succeed", "replay", "obsolete", "superseded", "retry", "block_auth",
           "dead_letter", "recover", "reconcile_revision"}

VARIABLES
    state,      \* operations.state of each row, "absent" without a row
    claim,      \* operations.claim_token
    older,      \* pairs of rows in the order (created_at, operation_id)
    outcome,    \* operation_history.outcome, "none" without a tombstone
    replacedBy, \* operation_history.replacement_operation_id
    lapsed,     \* outstanding tokens whose lease_expires_at has passed
    pc,         \* where each worker stands in flush
    op,         \* the ClaimedOperation it holds ...
    tok,        \* ... and that claim's token
    result,     \* the AttemptResult it is about to apply
    ready,      \* rows with updated_at < the ready_before of its flush
    attempted,  \* history: operations its flush has handed to the executor,
                \* but for those unblocked in the meantime
    waiting,    \* unblock_auth calls that have read the clock, not yet the rows
    since,      \* the flushes that began since
    abandons    \* number of workers that vanished so far

table == <<state, claim, older, outcome, replacedBy>>
worker == <<pc, op, tok, result, ready, attempted>>
unblocking == <<waiting, since>>
vars == <<table, lapsed, worker, unblocking, abandons>>

-----------------------------------------------------------------------------
(* The rows and the claims. *)

Row(o) == state[o] # "absent"
\* Fault: enqueue looks for the id among the rows only.
KnownRow(o) == Row(o)
Known(o) == Row(o) \/ outcome[o] # "none"
Rows == {o \in Op : Row(o)}

\* The tokens some row or some worker still carries.  A uuid4 differs from all
\* of them; one that nobody carries any more may as well be issued again.
Outstanding == {claim[o] : o \in Op} \cup {tok[w] : w \in Worker}

\* Fault: claim_page takes claimed rows too.
ClaimIgnored(o) == TRUE
\* Fault: claim_page waits for the holder for ever.
LeaseIgnored(o) == claim[o] = NoToken
\* A row's claim is free: NULL, or past its lease.
Unclaimed(o) == claim[o] = NoToken \/ claim[o] \in lapsed

DependencyDelivered(o) ==
    DependsOn[o] = NoOp \/ outcome[DependsOn[o]] \in Delivered

\* Fault: claim_page forgets depends_on_operation_id.
CandidatesAnyOrder(w) == {o \in ready[w] : state[o] \in Claimable /\ Unclaimed(o)}
\* The rows claim_page selects for w.
Candidates(w) ==
    {o \in ready[w] : /\ state[o] \in Claimable
                      /\ Unclaimed(o)
                      /\ DependencyDelivered(o)}

\* Fault: the writes ask for a claim, not for this one.
HoldsAnyClaim(w) == claim[op[w]] # NoToken
\* The token fence: "WHERE operation_id = ? AND claim_token = ?".
Holds(w) == claim[op[w]] = tok[w]

Flushing == {w \in Worker : pc[w] \notin {"idle", "closed"}}

\* Where flush leaves a worker: outbox.shutdown closes the outbox behind it.
Stopped(w) == IF w \in Closer THEN "closed" ELSE "idle"

-----------------------------------------------------------------------------
TypeOK ==
    /\ state \in [Op -> OperationState \cup {"absent"}]
    /\ claim \in [Op -> Token \cup {NoToken}]
    /\ older \subseteq Op \X Op
    /\ outcome \in [Op -> Outcome \cup {"none"}]
    /\ replacedBy \in [Op -> Op \cup {NoOp}]
    /\ lapsed \subseteq Token
    /\ pc \in [Worker -> {"idle", "claim", "claimed", "executing", "applying", "closed"}]
    /\ op \in [Worker -> Op \cup {NoOp}]
    /\ tok \in [Worker -> Token \cup {NoToken}]
    /\ result \in [Worker -> Result \cup {"none"}]
    /\ ready \in [Worker -> SUBSET Op]
    /\ attempted \in [Worker -> SUBSET Op]
    /\ waiting \subseteq Unblocker
    /\ since \in [Unblocker -> SUBSET Worker]
    /\ abandons \in 0 .. MaxAbandons

Init ==
    /\ state = [o \in Op |-> "absent"]
    /\ claim = [o \in Op |-> NoToken]
    /\ older = {}
    /\ outcome = [o \in Op |-> "none"]
    /\ replacedBy = [o \in Op |-> NoOp]
    /\ lapsed = {}
    /\ pc = [w \in Worker |-> "idle"]
    /\ op = [w \in Worker |-> NoOp]
    /\ tok = [w \in Worker |-> NoToken]
    /\ result = [w \in Worker |-> "none"]
    /\ ready = [w \in Worker |-> {}]
    /\ attempted = [w \in Worker |-> {}]
    /\ waiting = {}
    /\ since = [u \in Unblocker |-> {}]
    /\ abandons = 0

-----------------------------------------------------------------------------
(* Pieces the transactions share. *)

\* Fault: updated_at keeps its value.
TouchForgotten(w, o) == UNCHANGED ready
\* w sets updated_at of o to a time after the start of its own flush, and of
\* every other one that did not begin while w waited for the write lock.
Touch(w, o) ==
    \E overtaking \in SUBSET (Flushing \ {w}) :
        ready' = [v \in Worker |-> IF v \in overtaking THEN ready[v] ELSE ready[v] \ {o}]

\* A new row: ready for the flushes that overtook its producer ...
NewlyReady(o, overtaking) ==
    [v \in Worker |-> ready[v] \cup {x \in {o} : v \in overtaking}]
\* ... and the newest but for the rows whose producers overtook it: any end of
\* the order, since created_at is read from the same early clock.
NewestBut(later, o) ==
    older \cup ((Rows \ later) \X {o}) \cup ({o} \X later)
EndOfOrder(later) == \A p \in later, q \in Rows : <<p, q>> \in older => q \in later
DeleteRow(rows, o) == {p \in rows : p[1] # o /\ p[2] # o}

\* The worker lets go of its operation and stands at pc next.
LetGo(w, next) ==
    /\ pc' = [pc EXCEPT ![w] = next]
    /\ op' = [op EXCEPT ![w] = NoOp]
    /\ tok' = [tok EXCEPT ![w] = NoToken]
    /\ result' = [result EXCEPT ![w] = "none"]

\* The worker leaves flush: its ready_before goes with it.
LeaveFlush(w) ==
    /\ LetGo(w, Stopped(w))
    /\ attempted' = [attempted EXCEPT ![w] = {}]
    /\ since' = [u \in Unblocker |-> since[u] \ {w}]
    /\ UNCHANGED waiting

ForgetTokens == lapsed' = lapsed \cap Outstanding'

-----------------------------------------------------------------------------
(* Producers. *)

\* DurableOutbox.enqueue and the operation part of enqueue_turn.  A second call
\* with a known operation_id writes nothing.
Enqueue(o) ==
    /\ ~Known(o)
    /\ ReplacementOf[o] = NoOp
    /\ state' = [state EXCEPT ![o] = "pending"]
    /\ \E later \in SUBSET Rows : EndOfOrder(later) /\ older' = NewestBut(later, o)
    /\ \E overtaking \in SUBSET Flushing : ready' = NewlyReady(o, overtaking)
    /\ UNCHANGED <<claim, outcome, replacedBy, lapsed, pc, op, tok, result,
                   attempted, unblocking, abandons>>

\* DurableOutbox.unblock_auth, run by "hermes sibyl flush", takes its time stamp ...
UnblockBegins(u) ==
    /\ u \notin waiting
    /\ waiting' = waiting \cup {u}
    /\ UNCHANGED <<table, lapsed, worker, since, abandons>>

\* ... waits for the lock, and writes the stamp into what is blocked by then.  The
\* flushes that began in between find it ready, although one of them blocked it.
UnblockAuth(u) ==
    LET blocked == {o \in Op : state[o] = "blocked_auth"}
    IN  /\ u \in waiting
        /\ state' = [o \in Op |-> IF o \in blocked THEN "pending" ELSE state[o]]
        /\ ready' = [v \in Worker |-> IF v \in since[u] THEN ready[v] \cup blocked
                                                       ELSE ready[v] \ blocked]
        /\ attempted' = [v \in Worker |-> IF v \in since[u] THEN attempted[v] \ blocked
                                                           ELSE attempted[v]]
        /\ waiting' = waiting \ {u}
        /\ since' = [since EXCEPT ![u] = {}]
        /\ UNCHANGED <<claim, older, outcome, replacedBy, lapsed, pc, op, tok, result,
                       abandons>>

\* SQLite stays locked beyond busy_timeout, or the command is stopped.
UnblockFails(u) ==
    /\ u \in waiting
    /\ waiting' = waiting \ {u}
    /\ since' = [since EXCEPT ![u] = {}]
    /\ UNCHANGED <<table, lapsed, worker, abandons>>

-----------------------------------------------------------------------------
(* One flush. *)

FlushStart(w) ==
    /\ pc[w] = "idle"
    /\ pc' = [pc EXCEPT ![w] = "claim"]
    /\ ready' = [ready EXCEPT ![w] = Rows]
    /\ since' = [u \in Unblocker |-> since[u] \cup {v \in {w} : u \in waiting}]
    /\ UNCHANGED <<table, lapsed, op, tok, result, attempted, waiting, abandons>>

\* time.monotonic() >= deadline at the top of the loop.
DeadlineBeforeClaim(w) ==
    /\ pc[w] = "claim"
    /\ w \in Closer
    /\ LeaveFlush(w)
    /\ ready' = [ready EXCEPT ![w] = {}]
    /\ UNCHANGED <<table, lapsed, abandons>>

\* claim_page finds nothing: the flush is over.
NothingToClaim(w) ==
    /\ pc[w] = "claim"
    /\ Candidates(w) = {}
    /\ LeaveFlush(w)
    /\ ready' = [ready EXCEPT ![w] = {}]
    /\ UNCHANGED <<table, lapsed, abandons>>

\* claim_page takes the oldest candidate under a fresh token.
ClaimPage(w) ==
    /\ pc[w] = "claim"
    /\ \E o \in Candidates(w), t \in Token \ Outstanding :
          /\ \A p \in Candidates(w) : <<p, o>> \notin older
          /\ claim' = [claim EXCEPT ![o] = t]
          /\ op' = [op EXCEPT ![w] = o]
          /\ tok' = [tok EXCEPT ![w] = t]
          /\ Touch(w, o)
    /\ pc' = [pc EXCEPT ![w] = "claimed"]
    /\ UNCHANGED <<state, older, outcome, replacedBy, result, attempted, unblocking,
                   abandons>>
    /\ ForgetTokens

\* Fault: the deadline leaves the claim to its lease.
ReleaseForgotten(w) ==
    /\ pc[w] = "claimed"
    /\ w \in Closer
    /\ ready' = [ready EXCEPT ![w] = {}]
    /\ LeaveFlush(w)
    /\ UNCHANGED <<table, abandons>>
    /\ ForgetTokens
\* The second deadline check: _release_unattempted, fenced by the token.
ReleaseUnattempted(w) ==
    /\ pc[w] = "claimed"
    /\ w \in Closer
    /\ claim' = IF Holds(w) THEN [claim EXCEPT ![op[w]] = NoToken] ELSE claim
    /\ \E overtaking \in SUBSET (Flushing \ {w}) :
          ready' = [v \in Worker |-> IF v = w THEN {}
                                     ELSE IF Holds(w) /\ v \notin overtaking
                                          THEN ready[v] \ {op[w]} ELSE ready[v]]
    /\ LeaveFlush(w)
    /\ UNCHANGED <<state, older, outcome, replacedBy, abandons>>
    /\ ForgetTokens

StartAttempt(w) ==
    /\ pc[w] = "claimed"
    /\ pc' = [pc EXCEPT ![w] = "executing"]
    /\ attempted' = [attempted EXCEPT ![w] = @ \cup {op[w]}]
    /\ UNCHANGED <<table, lapsed, op, tok, result, ready, unblocking, abandons>>

\* Fault: a lost claim is renewed.
RenewUnfenced(w) ==
    /\ pc[w] = "executing"
    /\ tok[w] \in lapsed
    /\ lapsed' = lapsed \ {tok[w]}
    /\ Touch(w, op[w])
    /\ UNCHANGED <<table, pc, op, tok, result, attempted, unblocking, abandons>>
\* DurableOutbox.renew_claim: an executor may extend the claim it still holds.
RenewClaim(w) ==
    /\ pc[w] = "executing"
    /\ Holds(w)
    /\ tok[w] \in lapsed
    /\ lapsed' = lapsed \ {tok[w]}
    /\ Touch(w, op[w])
    /\ UNCHANGED <<table, pc, op, tok, result, attempted, unblocking, abandons>>

\* The executor returns, or raises, which counts as RETRY.
ExecutorReturns(w, r) ==
    /\ pc[w] = "executing"
    /\ r # "superseded"
    /\ pc' = [pc EXCEPT ![w] = "applying"]
    /\ result' = [result EXCEPT ![w] = r]
    /\ UNCHANGED <<table, lapsed, op, tok, ready, attempted, unblocking, abandons>>

\* DurableOutbox.supersede, called by _reconcile_correction inside the executor:
\* in one transaction the row becomes a tombstone naming its replacement, and
\* the replacement a pending row.  A lost claim or a known replacement raises,
\* which the executor turns into RETRY (ExecutorReturns).
Supersede(w, r) ==
    LET o == op[w]
    IN  /\ pc[w] = "executing"
        /\ Holds(w)
        /\ state[o] = "reconcile_revision"
        /\ ReplacementOf[r] = o
        /\ ~Known(r)
        /\ state' = [state EXCEPT ![o] = "absent", ![r] = "pending"]
        /\ claim' = [claim EXCEPT ![o] = NoToken]
        /\ \E later \in SUBSET Rows :
              EndOfOrder(later) /\ older' = DeleteRow(NewestBut(later, r), o)
        /\ outcome' = [outcome EXCEPT ![o] = "superseded"]
        /\ replacedBy' = [replacedBy EXCEPT ![o] = r]
        /\ \E overtaking \in SUBSET (Flushing \ {w}) :
              ready' = [v \in Worker |-> NewlyReady(r, overtaking)[v] \ {o}]
        /\ pc' = [pc EXCEPT ![w] = "applying"]
        /\ result' = [result EXCEPT ![w] = "superseded"]
        /\ UNCHANGED <<op, tok, attempted, unblocking, abandons>>
        /\ ForgetTokens

-----------------------------------------------------------------------------
(* apply_result. *)

\* state_by_action, and the two outcomes of SUCCEED with that of OBSOLETE.
Failure == {"retry", "block_auth", "dead_letter", "recover", "reconcile_revision"}
StateAfter(r) ==
    CASE r = "retry" -> "pending"
      [] r = "block_auth" -> "blocked_auth"
      [] r = "recover" -> "pending_recovery"
      [] OTHER -> r    \* dead_letter and reconcile_revision
OutcomeAfter(r) ==
    CASE r = "succeed" -> "succeeded"
      [] r = "replay" -> "replayed"
      [] OTHER -> r    \* obsolete

\* The row stays, its claim is given back.
ApplyFailure(w) ==
    /\ pc[w] = "applying"
    /\ result[w] \in Failure
    /\ Holds(w)
    /\ state' = [state EXCEPT ![op[w]] = StateAfter(result[w])]
    /\ claim' = [claim EXCEPT ![op[w]] = NoToken]
    /\ Touch(w, op[w])
    /\ LetGo(w, "claim")
    /\ UNCHANGED <<older, outcome, replacedBy, attempted, unblocking, abandons>>
    /\ ForgetTokens

\* _archive_and_delete: the row becomes a tombstone.
Archive(w) ==
    /\ pc[w] = "applying"
    /\ result[w] \in {"succeed", "replay", "obsolete"}
    /\ Holds(w)
    /\ state' = [state EXCEPT ![op[w]] = "absent"]
    /\ claim' = [claim EXCEPT ![op[w]] = NoToken]
    /\ older' = DeleteRow(older, op[w])
    /\ outcome' = [outcome EXCEPT ![op[w]] = OutcomeAfter(result[w])]
    /\ ready' = [v \in Worker |-> ready[v] \ {op[w]}]
    /\ LetGo(w, "claim")
    /\ UNCHANGED <<replacedBy, attempted, unblocking, abandons>>
    /\ ForgetTokens

\* SUPERSEDED: supersede has already written everything.
ApplySuperseded(w) ==
    /\ pc[w] = "applying"
    /\ result[w] = "superseded"
    /\ LetGo(w, "claim")
    /\ UNCHANGED <<table, ready, attempted, unblocking, abandons>>
    /\ ForgetTokens

\* ClaimLostError leaves flush with nothing written.
ClaimLost(w) ==
    /\ pc[w] = "applying"
    /\ result[w] # "superseded"
    /\ ~Holds(w)
    /\ LeaveFlush(w)
    /\ ready' = [ready EXCEPT ![w] = {}]
    /\ UNCHANGED <<table, abandons>>
    /\ ForgetTokens

-----------------------------------------------------------------------------
(* What happens to workers. *)

\* The process dies, SQLite stays locked beyond busy_timeout, or the outbox is
\* closed under the worker: the flush ends where it stands, the claim remains.
Abandon(w) ==
    /\ w \in Flushing
    /\ abandons < MaxAbandons
    /\ abandons' = abandons + 1
    /\ LeaveFlush(w)
    /\ ready' = [ready EXCEPT ![w] = {}]
    /\ UNCHANGED table
    /\ ForgetTokens

LeaseExpires(t) ==
    /\ \E o \in Op : claim[o] = t
    /\ t \notin lapsed
    /\ lapsed' = lapsed \cup {t}
    /\ UNCHANGED <<table, worker, unblocking, abandons>>

-----------------------------------------------------------------------------
WorkerStep(w) ==
    \/ FlushStart(w)
    \/ DeadlineBeforeClaim(w)
    \/ NothingToClaim(w)
    \/ ClaimPage(w)
    \/ ReleaseUnattempted(w)
    \/ StartAttempt(w)
    \/ RenewClaim(w)
    \/ \E r \in Result : ExecutorReturns(w, r)
    \/ \E r \in Op : Supersede(w, r)
    \/ ApplyFailure(w)
    \/ Archive(w)
    \/ ApplySuperseded(w)
    \/ ClaimLost(w)
    \/ Abandon(w)

Unblocking(u) == UnblockBegins(u) \/ UnblockAuth(u) \/ UnblockFails(u)

Next ==
    \/ \E o \in Op : Enqueue(o)
    \/ \E u \in Unblocker : Unblocking(u)
    \/ \E w \in Worker : WorkerStep(w)
    \/ \E t \in Token : LeaseExpires(t)

Spec == Init /\ [][Next]_vars

(* Scheduling: a thread in flush runs on, executors return (every HTTP call    *)
(* has a timeout), the clock advances, and the turns that go on being taken    *)
(* submit new flushes.  Nobody must enqueue, renew, unblock, hit a deadline    *)
(* or vanish.                                                                  *)
Progress(w) ==
    \/ NothingToClaim(w)
    \/ ClaimPage(w)
    \/ StartAttempt(w)
    \/ \E r \in Result : ExecutorReturns(w, r)
    \/ ApplyFailure(w)
    \/ Archive(w)
    \/ ApplySuperseded(w)
    \/ ClaimLost(w)

Fairness ==
    /\ \A w \in Worker : WF_vars(Progress(w))
    /\ \A w \in Worker : WF_vars(FlushStart(w))
    /\ \A t \in Token : WF_vars(LeaseExpires(t))

FairSpec == Spec /\ Fairness

-----------------------------------------------------------------------------
(* Safety. *)

\* One operation is never in the hands of two executors unless a lease ran out:
\* concurrent runtimes, the shutdown thread and "hermes sibyl flush" all drain
\* one table, and a second POST is only excused by an expired claim
\* (claim_page's claim condition, outbox.py:850 and 872).
ExclusiveAttempt ==
    \A v, w \in Worker :
        (v # w /\ op[v] = op[w] /\ op[v] # NoOp
               /\ result[v] # "superseded" /\ result[w] # "superseded") =>
            tok[v] \in lapsed \/ tok[w] \in lapsed

\* A correction or any other dependent operation is in an executor's hands only
\* when the operation it waits for was delivered, also when the claim behind it
\* has meanwhile been lost (claim_page, outbox.py:851-858).
DependencyRespected ==
    \A w \in Worker : op[w] # NoOp => DependencyDelivered(op[w])

\* A superseded operation and its replacement change hands together: an
\* operation is marked superseded exactly when the replacement its tombstone
\* names exists, and no id derived from an operation that still stands, or was
\* replaced by another one, is known (outbox.supersede, outbox.py:1040-1101).
LineageIntact ==
    \A o \in Op :
        /\ (outcome[o] = "superseded") = (replacedBy[o] # NoOp)
        /\ \A r \in Op : ReplacementOf[r] = o => (Known(r) = (replacedBy[o] = r))

(* The inductive invariant behind these, by its parts. *)

\* A worker carries an operation and its token between claim_page and the end
\* of apply_result, and a result only while it applies it.
WorkerShape ==
    \A w \in Worker :
        /\ pc[w] \in {"claimed", "executing", "applying"} =>
                op[w] \in Op /\ tok[w] \in Token
        /\ pc[w] \in {"idle", "claim", "closed"} => op[w] = NoOp /\ tok[w] = NoToken
        /\ (pc[w] = "applying") = (result[w] # "none")

\* A token names one claim: one row, one worker, the same operation in both.
TokensUnique ==
    /\ \A v, w \in Worker : v # w /\ tok[v] # NoToken => tok[v] # tok[w]
    /\ \A o, p \in Op : o # p /\ claim[o] # NoToken => claim[o] # claim[p]
    /\ \A w \in Worker, o \in Op : tok[w] # NoToken /\ claim[o] = tok[w] => op[w] = o

\* Nobody takes a claim from a live worker before its lease has run out.
LostOnlyByLapse ==
    \A w \in Worker :
        (op[w] # NoOp /\ ~Holds(w)) => tok[w] \in lapsed \/ result[w] = "superseded"

\* Only rows that may be replayed are claimed; parked ones carry no claim.
ClaimsClaimable == \A o \in Op : claim[o] # NoToken => state[o] \in Claimable

\* An operation is a row or a tombstone, never both.
OneTable == \A o \in Op : Row(o) => outcome[o] = "none"

\* A worker that brings home "superseded" has no row any more.
SupersededGone == \A w \in Worker : result[w] = "superseded" => outcome[op[w]] # "none"

\* What a flush has attempted, or holds, is no longer ready for it, unless another
\* worker took the claim over, had it blocked, and unblock_auth was overtaken:
\* then the claim that is lost will end the flush.
FlushMemory ==
    \A w \in Worker :
        /\ \A o \in ready[w] \cap (attempted[w] \cup {op[w]}) :
               o = op[w] /\ ~Holds(w) /\ result[w] # "superseded"
        /\ \A o \in attempted[w] \cup ({op[w]} \ {NoOp}) : Known(o)
        /\ pc[w] = "claimed" => op[w] \notin attempted[w]
        /\ pc[w] \in {"idle", "closed"} => attempted[w] = {}

\* The inductive invariant: tokens name one claim, a claim is lost by lapse
\* alone, and flush memory, dependencies and lineage agree with the tables.
IInv ==
    /\ TypeOK
    /\ WorkerShape
    /\ TokensUnique
    /\ LostOnlyByLapse
    /\ ClaimsClaimable
    /\ OneTable
    /\ SupersededGone
    /\ DependencyRespected
    /\ FlushMemory
    /\ LineageIntact

\* A row under an unexpired claim is rewritten, archived or replaced by the
\* claim's holder alone; a worker that outlived its lease writes nothing, since
\* every write of flush is fenced by claim_token (outbox.py:964, 989, 1034, 1231).
FencedStep ==
    \A o \in Op :
        (claim[o] # NoToken /\ <<state[o], claim[o], outcome[o]>>'
                                  # <<state[o], claim[o], outcome[o]>>) =>
            \/ claim[o] \in lapsed
            \/ \E w \in Worker : tok[w] = claim[o] /\ pc'[w] # pc[w]
FencedWrite == [][FencedStep]_vars

\* A claim that no worker answers for is one a vanished worker left behind:
\* the deadline of a shutdown, a lost lease and an aborted flush leave none
\* (_release_unattempted, outbox.py:1219-1235).
ClaimsAccounted ==
    Cardinality({o \in Op : claim[o] # NoToken /\ \A w \in Worker : tok[w] # claim[o]})
        <= abandons

\* One flush hands no operation to the executor twice: what it gave back as
\* RETRY, RECOVER or RECONCILE_REVISION waits for the next flush, so a server
\* that keeps failing is not hammered (ready_before, outbox.py:1181 and 849).
\* Only what it had blocked, and an unblock_auth it overtook then freed, may come
\* back to it: attempted no longer has that.
ColdStep ==
    \A w \in Worker :
        (pc[w] = "claimed" /\ pc'[w] = "executing") => op[w] \notin attempted[w]
NoHotRetry == [][ColdStep]_vars

\* A parked operation stays where it is: a dead letter for good, one blocked on
\* authentication until the operator unblocks it, whatever a worker that lost
\* its claim on it brings home late.
ParkedStep ==
    \A o \in Op :
        /\ state[o] = "dead_letter" => state'[o] = "dead_letter"
        /\ (state[o] = "blocked_auth" /\ state'[o] # "blocked_auth") =>
               \E u \in Unblocker : UnblockAuth(u)
ParkedStays == [][ParkedStep]_vars

-----------------------------------------------------------------------------
(* Liveness, under FairSpec. *)

\* Every flush ends, however often its operations are to be retried, and
\* whatever other workers enqueue, give back and unblock meanwhile.
FlushTerminates ==
    \A w \in Worker : (w \in Flushing) ~> (w \notin Flushing)

\* No operation that could be delivered waits forever: behind a claim whose
\* holder died, behind older operations that keep failing, or behind a flush
\* that began too early to see it.
ReplayableAttempted ==
    \A o \in Op :
        (state[o] \in Claimable /\ DependencyDelivered(o)) ~>
            (\E w \in Worker : pc[w] \in {"executing", "applying"} /\ op[w] = o)

-----------------------------------------------------------------------------
(* The promise to the producers. *)

Fate == [o \in Op |-> IF Row(o) THEN "queued"
                      ELSE IF outcome[o] # "none" THEN outcome[o] ELSE "unknown"]

Abstract == INSTANCE AbstractOutbox WITH fate <- Fate

\* The outbox keeps its promise: nothing accepted is lost or finished twice, a
\* replacement takes over in one step, dependencies come first.
KeepsPromise == Abstract!Spec
=============================================================================
