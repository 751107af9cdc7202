# Formal models of hermes-sibyl-memory

`hermes-sibyl-memory` is a memory provider plugin of Hermes Agent. It captures
completed turns, recalls context for new ones, and talks to a Sibyl server. What
it writes goes through a SQLite outbox that several threads and processes drain.
This directory holds TLA+ models of the parts of it that run concurrently or
must survive failures, the TLC configurations that check them on small
instances, and TLAPS proofs of the most important results for every instance.

## The system

| Component | State it keeps | Operations |
|---|---|---|
| Durable outbox, `outbox.py` | `operations` (state, claim token, lease, `updated_at`), `operation_history` (tombstones with outcomes), on disk | `enqueue`, `claim_page`, `renew_claim`, `apply_result`, `supersede`, `unblock_auth`, `flush`, `shutdown` |
| Session index, `outbox.py` | `session_state` (reconcile flag, next sequence, parent), `session_turns` (hash and revision per turn), on disk | `enqueue_turn`, `mark_session_reconcile`, `indexed_turns`, `record_turn_revision` |
| Delivery executor, `runtime.py` | none of its own: a claimed operation and an answer | `_execute_operation`, `_reconcile_correction` |
| Session capture, `runtime.py`, `sessions.py`, `capture.py` | the session id | `sync_turn`, `_reconcile_session`, `on_session_switch`, `initialize` |
| Turn-start queue, `sessions.py` | a queue of begun turns per session | `record`, `consume`, `clear` |
| Recall, `recall.py` | a future per session and message | `schedule`, `prefetch`, `discard_session` |
| Credential gate, `runtime.py`, `trust.py` | the verdict and its lock | `_ensure_credential_safe` |
| Runtime lifecycle, `runtime.py`, `provider.py` | `_closed`, two thread pools, the closer thread | `initialize`, `shutdown`, `_validate_and_flush` |
| HTTP client, `client.py` | none | one method per endpoint, and its error classes |
| Setup, `config.py` | `sibyl.json`, the key in `.env`, the runtime identity | `run_setup`, `load_provider_config`, `load_api_key`, `save_runtime_agent_id` |
| Operator commands, `cli.py` | none: what a command read of the files | `flush`, `doctor`, `status`, `config` |
| Credential rules, `trust.py`, `cli.py` | none | `credential_failures`, `_credential_checks` |
| Release gates, `scripts/` | the observations and errors of one run, the receipt | `run_real_stack`, `run_driver`, `aggregate_receipt`, the driver's `run` |
| Schemas, `schemas.py` | none | see "Not modelled" |

How they meet: the hooks of Hermes' own thread (`on_turn_start`, `prefetch`,
`on_session_switch`, tools) and its background thread (`sync_turn`) write rows
and submit `_validate_and_flush` to a pool. A flush claims a row, hands it to
the executor, which calls the server and writes back through `apply_result`,
`supersede` and `record_turn_revision`. `shutdown` runs one last flush in a
thread of its own. The command `hermes sibyl flush`, and any other Hermes
process of the profile, drain the same file. Setup writes the configuration and the
key that each of these processes reads once, when it starts. The release gates
start one driver process per scenario against a stack they do not control.

Hard in this code, and the aim of the properties: claims that outlive their
holders and holders that outlive their claims; the loop of one flush, which must
neither spin nor skip; the hand-over of a correction to its replacement;
requests that take effect although nobody hears the answer; reconciliation that
overlaps delivery, restarts and rewinds; the wake-up of a flush after each
write; one credential verdict for many threads; files that are replaced one by one
under processes that read them one by one; and measurements of a stack that
changes between two of them. `PROJECT.json` lists each
hazard at its line with the properties aimed at it.

## Modules

| Module | Models | Extends |
|---|---|---|
| `AbstractOutbox` | what the outbox promises its producers: the fate of each operation | |
| `Outbox` | the outbox and its flush workers | |
| `OutboxProofs` | proofs about `Outbox` | `Outbox` |
| `Delivery` | the executor, the client's verdicts and the server | `Outbox` |
| `DeliveryProofs` | proofs about `Delivery` | `Delivery`, `OutboxProofs` |
| `Sessions` | capture and reconciliation of one session | |
| `SessionsProofs` | proofs about `Sessions` | `Sessions` |
| `TurnStarts` | the turn-start queue and its callers | |
| `TurnStartsProofs` | proofs about `TurnStarts` | `TurnStarts` |
| `Runtime` | the threads of one runtime: recall, gate, flush pool, shutdown | |
| `RuntimeProofs` | proofs about `Runtime` | `Runtime` |
| `Lifecycle` | initialization of a provider over an earlier one, opening of the database | |
| `LifecycleProofs` | proofs about `Lifecycle` | `Lifecycle` |
| `Operator` | setup, `doctor`, `flush` and the sessions around their files and one backlog | |
| `OperatorProofs` | proofs about `Operator` | `Operator` |
| `Release` | a release run: consents, drivers, a stack that changes, the receipt | |
| `ReleaseProofs` | proofs about `Release` | `Release` |
| `MCOutbox`, `MCDelivery`, `MCOperator`, `MCRelease` | instances for TLC | the module they are named for |

In every module a definition marked "Fault" is not the code. It is a neighbouring
definition with a plausible bug in it, and `PROJECT.json` says which property of
which run it breaks.

### Outbox

One action per SQLite transaction, and one for each step of `flush` between two
of them. `state`, `claim`, `outcome` and `replacedBy` are columns; `older` is the
order `(created_at, operation_id)`. A worker is a thread inside `flush`; `pc`,
`op`, `tok` and `result` are its locals.

Time is kept as far as the code compares it. A lease is past its end when its
token is in `lapsed`, which any outstanding token may enter at any time. The test
`updated_at < ready_before` is the set `ready[w]`: all rows when the flush of `w`
begins, less every row written since. A token nobody carries any more may be
issued again, since no comparison can tell it from a fresh `uuid4`.

Every writer takes its stamp before `BEGIN IMMEDIATE` and stores it when it has the
lock. A flush that begins in between has a later `ready_before` than the stamp: it
overtook the writer. `Touch` therefore lets any set of other flushes keep the row
in their `ready` set, `NewlyReady` lets any set of flushes see a new row as ready,
and `NewestBut` puts a new row before those whose producers overtook its own, which
are an end of the order (`EndOfOrder`). A writer is never overtaken by its own
flush, which is why one flush still ends. The model lets a flush overtake these
writers whether or not it began during the wait, which is more than the code can do.

`unblock_auth` is another matter, since it writes rows that the overtaking flush may
itself have claimed, sent and blocked during the wait: those become ready for it
again. Its wait therefore has a beginning (`UnblockBegins`), an end (`UnblockAuth`)
and the flushes that began in between (`since`); `UnblockFails` is a wait beyond
`busy_timeout`. Such a row is the one exception of `NoHotRetry`, and
`outbox_liveness` shows that the flush ends all the same. `attempted` is a history
variable, as no column says what a flush has handed out.

The executor is seen through its result only, which may be any, and through
`Supersede`. `Abandon` stands for everything that ends a flush where it is: the
process dies, SQLite stays locked past `busy_timeout`, the outbox is closed
under the worker. A `Closer` is a worker whose flush is `DurableOutbox.shutdown`:
it may meet its deadline at each of the two checks, and closes the outbox behind
it. A lost claim (`ClaimLost`) ends a flush, as `ClaimLostError` does.

Left out: `attempts`, which nothing reads; pages of more than one row, which no
caller asks for; and `claimed_by`, `last_status` and `last_error`. `renew_claim`
is an action although nothing in the plugin calls it: it is part of the outbox's
interface.

### Delivery

Every step is a step of `Outbox`, with a definite result, or leaves it as it is;
`DeliveryProofs` proves that. A request is its idempotency key, which is the
operation, and the `expected_revision` it carries. `ResultFor` is the table of
the `except` clauses of `_execute_operation`, `classify_http_failure` and the
reading of a preview. `RecordAndReturn` is `record_turn_revision` followed by the
return of a success, one atomic step: what happens between the two is what
happens between the return and `apply_result`, except that the recording may
fail, which is `RecordFails`.

The server is external: it compares a request with the one stored under its
key, replays the receipt of a finished one, then compares revisions. It may stop
with a key reserved, before or after the effect, and settle it later by what it
finds. Requests a client gave up on may arrive at any later time. Other writers
may change a source or erase it.

`Converges` says that nothing waits for ever without a reason: whatever is queued is
settled or parked in the end, unless its dependency is itself parked, or ended as
something other than delivered.

### Sessions

A turn is its `turn_hash`. `index` is `session_turns` in `local_sequence` order,
each row joined with whether its capture is queued and its revision is known.
`sync_turn` is one transaction per step, run by one background thread. A rewind or
a resumption (`Switch`) and a restart may come at any of its steps and while others
wait in the queue with the messages of before, and words may be said again before
and after a rewind.

Three history variables tell the cases apart in which the code keeps its promise
from those in which it does not. `lost` are the texts of which a rewind has discarded
a saying, `again` those of them that were said again afterwards. `missed` says
that the flag of the last rewind was cleared while a sync with the messages of before
was running or queued. `OnlyLostMarked` needs no exception. `SourcesAgree` leaves out
`again` and, where it is about discarded turns, `missed`. What is left of a session without
these exceptions is `SourcesCurrent`, which the code violates (see "Disagreements").

### TurnStarts

A turn is its number in one count that Hermes keeps; `number` is what each
capture was given, `Fallback` standing for the local sequence.

### Runtime

`stage` follows each fetch of context and each thread of the flush pool from the
queue through the credential gate. `fresh` says that something was written after
the last flush began, `gaveUp` that a job ended at the gate since. Hermes' thread
is sequential and calls no hook after `shutdown`; jobs still queued then are
cancelled at once, as they would see `_closed`; and a flush begins with the pass
through the gate.

### Operator

Three files, each replaced atomically (`_atomic_write`), and no two of them
together: `run_setup` saves `sibyl.json` and then the key, a session and a command
read the one and then the other, and each keeps in `ctx` what it read. The key of
the environment goes before the file's; a terminal and a session each have an
environment of their own, which may hold an old key. A process may die at any step,
a key may be revoked at any time, and setup may fail between its two files.

`Breaks` is `credential_failures` by the names of its rules and `DoctorChecks` the
list that `doctor` keeps beside it. What Sibyl lets a key do, `Permits`, is external: a
key that is not revoked writes where its scopes, projects and spaces say. An
operation is reduced to what authentication does to it; its claim has one holder
and is given back by the clock when the holder is dead, and every other thing about
claims is in `Outbox`. `origin` is the configuration an operation was captured
under, which its request names; a flush sends it with the key of whoever flushes.

`settled` remembers what the last setup that ran to its end had validated.
`inherited` marks a setup whose key was that of its own environment: such a key is
validated and not saved, since it equals the one setup found. The write probe of
`doctor` is `DoctorWrites` and then `DoctorCleans`, either of which may fail or lose
its answer after it took effect; `probe` is what is left on the server and what the
command said of it.

### Release

`stack` is what the driver can read of Hermes and Sibyl, and `StackChanges` may
change it between any two requests. A driver is one process at a time; `seen` is
what it has read so far, and it reports nothing else. Where a condition of the
driver fails it raises `DriverError`, and `DriverFails` is the only step left to it;
a timeout, a redirect and a malformed answer are the same step. The tables of
scenarios, gates and required checks are constants, and `missing` is the set of
scenarios with `MISSING_HOOKS`, which is left open: in the repository at present 14
of the 15 scenarios miss a hook, so that no receipt can pass
(tests/e2e/README.md:42), and the model asks what a passed one would mean.

### Lifecycle

`pc` follows `initialize` from the shutdown of the old runtime over the opening of
the database to the mark of the session; `Fail` is an exception at any of these
steps. `closer` is the thread that flushes and closes an old outbox; it may
outlive its join, and may leave the outbox open when its flush raises.
`sync_turn` is bound to the runtime the provider had when it began, as in the
code. Each of its calls is two steps: `Connect`, which tests whether that runtime's
outbox is closed, and the statement, which may wait for SQLite's lock and is not
refused any more, whatever is closed, marked or initialized meanwhile. A sync whose
next `Connect` is refused is over (`SyncFails`). `overlapped` is a history variable:
the turn whose sync, on an earlier runtime, was under way when the session was last
marked. The schema
script is a transaction between `BeginScript` and `CommitScript`, and the version
it rests on was read before it (`seen`). The operator's command is another
process that opens the same file. `credential_safe` is a free choice here.

## What the runs check

| Run | Properties | Instance |
|---|---|---|
| `outbox_safety` | `IInv`, `ExclusiveAttempt`, `DependencyRespected`, `ClaimsAccounted`, `FencedWrite`, `NoHotRetry`, `ParkedStays`, `KeepsPromise` | a turn, a correction that depends on it, its replacement; 2 workers, one a closer that may meet its deadline; 2 abandons; 3 tokens; 1 command that unblocks |
| `outbox_liveness` | `FlushTerminates`, `ReplayableAttempted` | 1 operation, 2 workers, 1 abandon, 1 command that unblocks any number of times |
| `sessions_rewind` | `CapturedInOrder`, `OnlyLostMarked`, `SourcesAgree`, `RevisionGuarded` | 3 texts that may repeat, 4 turns, 2 rewinds or resumptions, 2 restarts |
| `sessions_conflict` | `SyncCaptures` (violated) | 3 texts, 3 turns, 2 rewinds or resumptions, 1 restart |
| `sessions_overlap` | `SourcesCurrent` (violated) | 2 texts, 2 turns, 1 rewind |
| `delivery_takeover` | `EffectOnce`, `DeliveredIsReal`, `HydrationReady`, `KeyKeepsRequest` | 3 operations, 2 workers (one a closer), foreign writes up to revision 3 |
| `delivery_answers` | `DeliveryIInv`, `Converges` | every answer, 3 operations, 1 worker that may vanish once, 1 command that unblocks |
| `runtime_threads` | `FreshRecall`, `AcknowledgedIsReturned`, `WakeupKept`, `Gated` | 2 turns, 2 sessions, 2 flush threads, 1 switch |
| `operator_backlog` | `OperatorIInv`, `LeastPrivilege`, `SetupEffective`, `ProbeAccounted`, `BacklogDrains` | 1 terminal, 1 session, 1 operation, 4 keys of which 1 may be revoked, 2 projects, 2 agents, 2 setups, 1 death |
| `release_gates` | `ReleaseIInv`, `PassedIsProven` | 2 scenarios (1 mutates), 2 gates, 2 endpoints, 2 versions, 1 unknown name, 2 changes of the stack |
| `lifecycle_replace` | `Openable`, `ConfiguredServes`, `NoTurnForgotten`, `InitializeEnds` | 1 provider, 3 initializations, 2 turns, 1 death, 1 operator's command, every schema version |
| `turnstarts_order` | `NumbersIncrease` | 4 turns, 2 texts, 2 sessions, 2 switches |

Type invariants run with one run of each module, those of `Outbox`, `Delivery`,
`Operator` and `Release` as a conjunct of the inductive invariant.
`CHECK_DEADLOCK FALSE` stands in the configurations of `Sessions`, `Runtime`, `TurnStarts`,
`Lifecycle` and `Release`: a conversation, a runtime and a release run end. `KeepsPromise` is the
refinement: the outbox, under the mapping `Fate`, implements
`AbstractOutbox`.

Why the bounds are enough. Two workers are the smallest number for which a
takeover exists, and a third could only repeat what the second does to the
first, as claims are pairwise. The three operations are the longest chain the
code makes: a capture, a correction that waits for it, the replacement of the
correction. Of the three
operations one at a time can be claimed, as each waits for the one before it; so at
most one claim stands in the table and one more, lost, with the other worker, and three
tokens, two where no worker vanishes or there is one only, keep `ClaimPage` from being
stopped for want of one. `outbox_liveness` has one operation: by those dependencies two
are never ready at once, so none could be starved by another; that a chain of
operations comes through is `Converges`. `delivery_takeover` has nobody who unblocks,
and no answer that blocks. A foreign
write makes a conflict and a replacement; a second one may hide the effect the
correction already had, which is what `EffectOnce` has to withstand; a second
replacement replaces the first in the same way. Three initializations are one, one
that fails half-way, and one more. Four turns make two of one text on each side of a rewind.
Two setups are the one whose key is revoked and the one that replaces it; the four
keys are one that is revoked, its replacement, one of another project and one that
is restricted to neither, and every other way to break a rule is one conjunct of
`Breaks`, which the proofs treat for all credentials. One operation suffices
because operations meet in `Operator` only in that a process holds one at a time. Two scenarios are one
that mutates and one that does not, sharing a gate; two changes undo each other,
which is what a driver cannot see. The proofs,
where there are some, need none of these bounds.

### Disagreements

Two runs end in a violation. Their properties state what a document or a test
says, and TLC's trace is what the code does instead.

- `sessions_conflict`: a second reconciliation of a session derives the id of an earlier
  correction for a request that has since changed; the conflict leaves `sync_turn`, the
  turn is not captured, and the flag stays set for the next sync to fail in the same way.
- `sessions_overlap`: a sync that was running when a rewind set the flag clears it
  (`runtime.py:647`), and the discarded turn keeps a live source. Hermes can avoid it by
  waiting for its syncs before it rewinds, with `flush_pending(timeout)`
  (tests/contract/test_hermes_0182.py:165), which is bounded and nobody's duty to call.

Others were met while modelling. The models do what the code does, and their
properties are stated around it; no run is kept for them.

- A turn said again after a rewind is matched with the record that was marked stale
  (`sessions.py:96`), and either is not captured for itself or has its own, live record
  marked stale, where the test is named `test_rewind_marks_only_absent_turns_stale`
  (tests/unit/test_sessions.py:47). It takes four turns, a switch, and a restart or a
  second switch, and violates `SourcesCurrent` too, after longer than the trace above;
  the first half of `SourcesAgree`, without `\ again`, shows it.
- The background sync of a runtime that `initialize` replaces may clear the mark of the new one
  (`outbox.py:698-714`), in a write that had passed `_connect` and waited for the lock while
  its outbox was closed, or because its closer outlives the join. Its next call is refused,
  and its turn is neither captured nor looked for, where line 106 of the plugin's README has
  completed turns enter the outbox. `NoTurnForgotten` says that this one turn is all that is
  lost; without its `overlapped`, `lifecycle_replace` shows the loss.
- A retried operation is overtaken by younger ones of its session (`outbox.py:849`),
  where line 107 of the plugin's README has per-session ordering preserved. The
  order the code keeps is `DependencyRespected`.
- The write probe of `doctor` names the memory it leaves only when the correction
  fails. If the answer to the write itself is lost or has no revision
  (`cli.py:309-311`), the memory stays in use and nothing names it, where line 84 of the
  plugin's README has it marked stale immediately; `ProbeAccounted` says "unless".
- A key that setup was given by its environment is validated, equals the one setup
  found, and is not saved (`config.py:346`); the session that is to be started next
  finds the key of the file, if its environment has none. `SetupEffective`
  excepts it (`inherited`).
- Nothing keeps two setups apart (`config.py:345-347`): the configuration of one may
  stay with the key of the other, although each was validated as a pair. With two
  terminals in `Operator_backlog.cfg`, TLC violates `SetupEffective` in eight steps.
  The run has one terminal and `SetupEffectiveHolds` assumes one (`OneTerminal`); the
  other theorems of `OperatorProofs` hold of any number.
- A stack that changes and changes back between two requests of a driver, or between
  two drivers, goes unnoticed; `PassedIsProven` speaks of readings, not of one moment.
- Operations that depend on a dead letter, or on one superseded or declared obsolete, stay
  pending for ever: `claim_page` asks for a delivered dependency (`outbox.py:851`), and
  nothing looks for those that will never have one. `Converges` excepts them.
- `idempotency_receipt_pending`, a code the client knows (`client.py:51`), makes a
  dead letter (`outbox.py:266`), although operations are to survive interrupted
  receipts (plugin README, line 107).
- So does a 5xx whose body is not a contract error (`runtime.py:732`), where
  tests/unit/test_outbox.py:173 has a 503 retried.
- A completed turn with the words of an interrupted older one gets that one's number
  (`sessions.py:45`). `NumbersIncrease` is what remains true.
- A sync that SQLite refuses (locked past `busy_timeout`) drops its turn, and nothing
  marks the session; `Lifecycle` has no such refusal.
- Of two processes that create or migrate the schema at once, the slower one fails
  to come up, and has to be initialized again.

## Fairness

`FairSpec` of `Outbox` assumes of each worker that a flush runs on (`Progress`),
which threads do and HTTP timeouts ensure for the executor; that a new flush
starts, which every turn, tool and `initialize` submits; and that leases expire,
which the clock does. It is weak fairness throughout. It assumes nothing of
producers, deadlines, renewals and operators. Nothing in the plugin flushes
periodically: a provider that is left without turns delivers nothing, and
`ReplayableAttempted` says nothing of it.

`FairDeliverySpec` adds strong fairness of a good answer, a good preview and a
successful recording: a server that is not out of order for ever. Interrupted
keys are settled and leases run out, weakly fairly and in no order.

`FairSpec` of `Lifecycle` assumes that `initialize` runs on and that joins and lock
waits have their timeouts. It assumes nothing of the closer, which may hang.

`FairSpec` of `Operator` assumes that a command runs on, that the operator goes on
calling `flush` (strongly fair, as a terminal may be busy with other commands), that
Sibyl answers an operation now and then, and that leases expire. It assumes no
setup and no session: `BacklogDrains` is about a home that is from some time on
fit to serve.

`Release` states no fairness. A driver that hangs is killed by its timeout, and a run
that passes has to end, so what is claimed of it is safety.

## What is proved

`OutboxProofs` proves, of any operations, workers and tokens, from the four named
assumptions on the constants of `Outbox` alone:

- `Inductive`: `Spec => []IInv`. `ExclusiveAttempt` and `FencedWrite` are not
  inductive. They need that a token names one claim (`TokensUnique`), that a worker
  whose row no longer carries its token has seen the lease lapse
  (`LostOnlyByLapse`), that parked rows carry no claim (`ClaimsClaimable`), and the
  shape of a worker (`WorkerShape`). `NoHotRetry` needs `FlushMemory`: what a
  flush has attempted, or holds, is not in its `ready` set, although others may write the
  row with early stamps, unless it has lost its claim on it to another worker, in whose
  hands it was blocked, and an overtaken `unblock_auth` freed it; the lost claim will end
  the flush. It needs `SupersededGone`: who returns "superseded" has no row any more.
  `LineageIntact` needs `OneTable`.
- From it, `TypeCorrect`, `Exclusive`, `DependenciesFirst`, `LineageHolds`, and the action
  properties `NoHotRetries`, `ParkedHolds` and `Fenced`.
- `Promise`: `Spec => KeepsPromise`, the refinement. Each action is a step of
  `AbstractOutbox` or leaves `Fate` as it is; `Finish` and `Replace` take their
  dependency from `DependencyRespected`.
- `ClaimsAccountedHolds`: `[]ClaimsAccounted`, a count. `OrphansCounted` bounds the claims
  no worker holds, and each step either leaves that set as it is, shrinks it, or adds one
  element and counts one abandon.

`DeliveryProofs` proves, from the assumptions on sources and answers besides:

- `Implements`: `DeliverySpec => Spec`, so all of the above holds of the outbox with
  the real executor (`OutboxHolds`).
- `DeliveryInductive`: `[](DeliveryIInv /\ IInv)`. The point is `SuccessVouched`:
  success is in a worker's result only with a receipt on the server and, for a
  capture, a revision on record.
- `DeliveredReal` and `Hydrated` from it.
- `EffectOnceHolds` and `KeyKept`: `[]EffectOnce` and `[]KeyKeepsRequest`, from a second
  invariant, `EffectIInv`. The revision an operation expects is a constant of it (`Fixed`),
  whenever it is filled in, so every copy of a request is the same (`RequestsFixed`). Revisions
  only grow, and no operation names one its source has not reached (`RevisionsReached`);
  therefore a conflict is final: the operation has not taken effect and never will
  (`Hopeless`, `ConflictsLast`), and when its replacement does, it is the first of the
  lineage. `SentKnown` says that nothing is on the wire that was not enqueued, so a
  replacement starts without effects.

`OperatorProofs` proves, from the four assumptions on the constants of `Operator`:

- `DoctorAgrees`: for every credential, configuration and agent, the list of checks
  that `doctor` repeats and the shared rules find fault with the same credentials.
- `OperatorInductive`: `[]OperatorIInv`. `GateHolds` carries the verdict of the one
  probe from where it is passed to everything that is done with the same key and the
  same configuration in hand; `HoldersDrain` says that only a draining process holds a
  claim, so that no flush ends with one.
- `LeastPrivilegeHolds`: `[]LeastPrivilege`. A delivery needs `GateHolds`, which says
  that the key writes to the one project and space of the sender's configuration, and
  `Permits`, which says that it may write to the operation's; so the two are the same.
- `ProbeAccountedHolds`: `[]ProbeAccounted`, with `ProbeStages`: a command starts with an
  empty report, and does not pass before the memory it wrote is corrected.
- `SetupEffectiveHolds`: `OneTerminal => (Spec => []SetupEffective)`. `SetupHolds` carries what
  a setup has found and validated through its two saves; two setups at once break it,
  as "Disagreements" says.

`ReleaseProofs` proves, from the assumptions on the tables of `Release`:

- `ReleaseInductive`: `[]ReleaseIInv`. `ConsentGiven` ties a running driver to a
  selection that was accepted, and `ReportsAreReadings` what was reported to what the
  driver of the same scenario has read by then.
- `PassedHolds`: `[]PassedIsProven`, from that invariant and what `ReceiptPassed` asks.

`RuntimeProofs` proves `RuntimeInductive`, `[]RuntimeIInv`, and from it each property of
`runtime_threads`, for any sessions, messages, flush threads and bounds:

- `FreshRecall` and `AcknowledgedIsReturned` need `OwnFuture`: between `on_turn_start` and the
  end of `prefetch`, the future in the slot of the message is that of this very turn.
- `Gated` needs `OneProbe`, one `auth_me` at a time and only while there is no verdict, and
  `ClosedByShutdown`. That a verdict is final is `VerdictHolds`.
- `WakeupKept` is inductive with these.

`LifecycleProofs` proves `LifecycleInductive`, `[]LifecycleIInv`, and from it `Openable`,
`ConfiguredServes` and `NoTurnForgotten`, for any number of processes, initializations, turns
and deaths. `SchemaOK` says that the lock protects a script from its first table to its version,
and that a script is only run by one who read an old version; `RuntimeOK`, that every runtime but the
last has been shut down. `NoTurnForgotten` needs that syncs run in the order of their turns
(`SyncOK`), that a sync of an earlier runtime, while a later one is in service, is the one the
mark found (`OldSync`), and that every other turn is kept (`Kept`). Nothing is assumed of how long
a write waits or a closer works. The assumption that a provider is not an
operator's command is part of `LifecycleAssumption`.

`TurnStartsProofs` proves `NumbersIncreaseHolds`, `[]NumbersIncrease`. It rests on `TurnsIInv`: queues
and due syncs are in the order their turns began (`QueuesOrdered`), syncs run in that order
(`SyncedFirst`), and what a session's queue still holds is later than every number it has given
(`QueueAhead`), which is where `consume` dropping what it skips is needed.

`SessionsProofs` proves, for any texts and bounds, from the typing of the constants of `Sessions`:

- `BaseInductive`: calls wait in the order of their turns (`CallsPending`), the flag stands until
  reconciliation has gone all the way (`Reconciling`), and a correction knows its revision or waits
  (`Guarded`). `RevisionGuardedHolds` follows.
- `CapturedInOrderHolds`: `[]CapturedInOrder`, with repetitions and any number of restarts. `InOrder`
  says that without a switch the index is a prefix of the transcript, complete up to the last
  finished sync when the session has caught up. The proof counts occurrences: of an index
  that is a prefix of the messages, the first turn beyond it is the first one
  `_reconcile_session` misses (`MissingIsNext`), and no record is absent (`NoneAbsent`).
- `OnlyLostMarkedHolds`: `[]OnlyLostMarked`, with any rewinds, restarts, repetitions and overlapping
  syncs. The invariant is `StandingIInv`: of words no rewind has touched, the index has no more than
  the messages before any call that runs or waits (`Ordered`), and each call no more than the
  messages before the next, since every call was made with the transcript as its turn ended it
  (`CallsFormed`). So no record of theirs exceeds its occurrences, and none is absent
  (`AbsentAreLost`). It is needed because the sync of before a rewind plans with messages that are
  no longer the transcript.

One theorem has a hypothesis about constants, `OneTerminal`, and says nothing of other
instances; the run is an instance of it. All other theorems rest on the named assumptions only.

Only model-checked: liveness (`FlushTerminates`, `ReplayableAttempted`, `Converges`,
`BacklogDrains`, `InitializeEnds`), which is under fairness and out of the prover's reach, and
`SourcesAgree`, whose cases (`again`, `missed`) make an invariant of the whole reconciliation
necessary that is not written yet. Every other invariant and action property of a passing run is a
theorem. `SyncCaptures` and `SourcesCurrent` are the properties of the two violations, and false.

## Not modelled

- `schemas.py`, and the parsing in `config.py` and `provider_tools.py`: stateless
  conversions of single records, without control worth a model.
- `scripts/`: redaction, validation of URLs, `describe`, and the duplicate and unknown
  observations that `aggregate_receipt` refuses and `run_real_stack` cannot hand it.
- `provider.py`: status and tool schemas, which only read.
- `cli.py`: `status` and `config`, which only read.
- `outbox.py`: `index_turn` (no caller), `reserve_sequence` (one counter, one
  transaction), `snapshot`.
- Clocks that are set back; the lines of `.env` that two setups at once may lose.
- Compression of a session by Hermes, which shortens the transcript.

## Plan

Written, in this order: `AbstractOutbox`, `Outbox`, `OutboxProofs`, `Sessions`,
`Delivery`, `DeliveryProofs`, `Runtime`, `TurnStarts`, `Lifecycle`, the early stamps of
`Outbox`, `Operator`, `OperatorProofs`, `Release`, `ReleaseProofs`, `RuntimeProofs`,
`LifecycleProofs`, `TurnStartsProofs`, `SessionsProofs`. Next:

1. Proofs: of `Lifecycle` and `Runtime`, what an abstract provider promises to Hermes, as a refinement;
   of `Sessions`, `SourcesAgree`; of `Outbox`, the bound on the claims of one flush.
2. `Projection`: `committed_turns` and the identities of `capture.py` as pure
   operators against a reference definition.
3. `Tools`: `handle_tool_call` from its arguments to the operation it enqueues, with a
   preview that is stale when the correction is applied.
