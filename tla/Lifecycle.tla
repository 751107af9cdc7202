----------------------------- MODULE Lifecycle -----------------------------
(***************************************************************************)
(* How a provider comes up, and comes up again: SibylMemoryProvider.       *)
(* initialize (src/provider.py:160) with the runtime it replaces, whose    *)
(* closer thread and background sync may still be at work, the opening of  *)
(* the database by several processes of a profile at once                  *)
(* (DurableOutbox._initialize, src/outbox.py:304), and what a failure at   *)
(* any step leaves behind.                                                 *)
(*                                                                         *)
(* Every call of an outbox is two steps: _connect, which an outbox that is *)
(* closed refuses, and the statement, which may wait for SQLite's lock     *)
(* while the outbox is closed and the next runtime comes up.               *)
(*                                                                         *)
(* Every provider has a conversation of its own, whose turns are numbered  *)
(* and differ; Sessions has the reconciliation in detail.  SQLite refusing *)
(* a sync is not modelled (see the README), refusing to open is.           *)
(*                                                                         *)
(* Definitions marked "Fault" are not the code: each is what a neighbour   *)
(* would be with a plausible bug, kept to show that a property notices.    *)
(***************************************************************************)
EXTENDS Naturals

CONSTANTS
    Provider,    \* Hermes processes of the profile, each with its provider
    Operator,    \* hermes sibyl flush, run by hand
    NoOne,
    MaxInits,    \* BOUND: calls of initialize, each provider
    MaxTurns,    \* BOUND: turns of each conversation
    MaxDeaths    \* BOUND: processes that die, each provider

ASSUME LifecycleAssumption ==
    /\ Provider \cap Operator = {}
    /\ NoOne \notin Provider \cup Operator
    /\ {MaxInits, MaxTurns, MaxDeaths} \subseteq Nat

Opener == Provider \cup Operator
Turn == 1 .. MaxTurns
Generation == 1 .. MaxInits     \* the runtimes a provider makes; 0 is _NoopRuntime

VARIABLES
    version,     \* PRAGMA user_version
    tables,      \* the tables that are committed
    lock,        \* who is between BEGIN IMMEDIATE and COMMIT of a schema script
    pc,          \* where each process is in initialize, shutdown or its command
    seen,        \* the version each has read
    runtime,     \* SibylMemoryProvider._runtime
    configured,  \* SibylMemoryProvider._configured
    made,        \* runtimes made in this process
    outbox,      \* is the DurableOutbox of each runtime open?
    closer,      \* its shutdown: not called, the closer at work, or over
    turns,       \* completed turns of each conversation
    captured,    \* those enqueued
    required,    \* session_state.reconcile_required
    due,         \* turns whose sync_turn has not begun
    sync,        \* the sync_turn under way
    overlapped,  \* history: the turn whose sync, on an earlier runtime, was
                 \* still under way when the session was last marked
    inits, deaths

database == <<version, tables, lock>>
provider == <<runtime, configured, made, outbox, closer>>
conversation == <<turns, captured, required, due, sync>>
vars == <<database, pc, seen, provider, conversation, overlapped, inits, deaths>>

\* connected: the call that comes next has passed _connect.
Sync == [turn : {0} \cup Turn, of : {0} \cup Generation,
         step : {"none", "check", "backfill", "clear", "capture"}, connected : BOOLEAN]
NoSync == [turn |-> 0, of |-> 0, step |-> "none", connected |-> FALSE]

Schema(v) ==
    CASE v = 0 -> {}
      [] v = 1 -> {"operations"}
      [] OTHER -> {"operations", "sessions"}

TypeOK ==
    /\ version \in 0 .. 3
    /\ tables \subseteq {"operations", "sessions"}
    /\ lock \in Opener \cup {NoOne}
    /\ pc \in [Opener -> {"idle", "joining", "opening", "locking", "creating",
                          "marking", "flushing", "exiting", "down"}]
    /\ seen \in [Opener -> 0 .. 3]
    /\ made \in [Provider -> {0} \cup Generation]
    /\ runtime \in [Provider -> {0} \cup Generation]
    /\ configured \in [Provider -> BOOLEAN]
    /\ outbox \in [Provider -> [Generation -> BOOLEAN]]
    /\ closer \in [Provider -> [Generation -> {"none", "flushing", "over"}]]
    /\ turns \in [Provider -> {0} \cup Turn]
    /\ captured \in [Provider -> SUBSET Turn]
    /\ required \in [Provider -> BOOLEAN]
    /\ due \in [Provider -> SUBSET Turn]
    /\ sync \in [Provider -> Sync]
    /\ overlapped \in [Provider -> {0} \cup Turn]
    /\ inits \in [Opener -> Nat]
    /\ deaths \in [Provider -> 0 .. MaxDeaths]

\* A database that is not there yet, of schema 1 or 2, or of a later release.
Init ==
    /\ version \in 0 .. 3
    /\ tables = Schema(version)
    /\ lock = NoOne
    /\ pc = [o \in Opener |-> "idle"]
    /\ seen = [o \in Opener |-> 0]
    /\ runtime = [p \in Provider |-> 0]
    /\ configured = [p \in Provider |-> FALSE]
    /\ made = [p \in Provider |-> 0]
    /\ outbox = [p \in Provider |-> [g \in Generation |-> FALSE]]
    /\ closer = [p \in Provider |-> [g \in Generation |-> "none"]]
    /\ turns = [p \in Provider |-> 0]
    /\ captured = [p \in Provider |-> {}]
    /\ required = [p \in Provider |-> FALSE]
    /\ due = [p \in Provider |-> {}]
    /\ sync = [p \in Provider |-> NoSync]
    /\ overlapped = [p \in Provider |-> 0]
    /\ inits = [o \in Opener |-> 0]
    /\ deaths = [p \in Provider |-> 0]

Goto(o, l) == pc' = [pc EXCEPT ![o] = l]

-----------------------------------------------------------------------------
(* SibylRuntime.shutdown of the runtime a provider has. *)

\* With a credential known to be safe a closer flushes and then closes the
\* outbox, while the caller waits at label l; without, it is closed at once.
\* _NoopRuntime, or a runtime shut down before, has nothing to do.
ShutRuntimeDown(p, l, after) ==
    LET g == runtime[p]
    IN  IF g = 0 \/ (g # 0 /\ closer[p][g] # "none")
        THEN Goto(p, after) /\ UNCHANGED <<outbox, closer>>
        ELSE \/ /\ closer' = [closer EXCEPT ![p][g] = "flushing"]
                /\ Goto(p, l)
                /\ UNCHANGED outbox
             \/ /\ closer' = [closer EXCEPT ![p][g] = "over"]
                /\ outbox' = [outbox EXCEPT ![p][g] = FALSE]
                /\ Goto(p, after)

\* _flush_and_close; a flush that raises leaves without close.
CloserEnds(p, g) ==
    /\ closer[p][g] = "flushing"
    /\ closer' = [closer EXCEPT ![p][g] = "over"]
    /\ \E open \in BOOLEAN : outbox' = [outbox EXCEPT ![p][g] = open]
    /\ UNCHANGED <<database, pc, seen, runtime, configured, made, conversation, overlapped,
                   inits, deaths>>

AfterJoin(p) == IF pc[p] = "joining" THEN "opening" ELSE "down"

\* Fault: the join has no timeout.
JoinForever(p) ==
    /\ pc[p] \in {"joining", "exiting"}
    /\ closer[p][runtime[p]] = "over"
    /\ Goto(p, AfterJoin(p))
    /\ UNCHANGED <<database, seen, provider, conversation, overlapped, inits, deaths>>
\* closer.join(timeout) returns, the closer being over or not.
JoinEnds(p) ==
    /\ pc[p] \in {"joining", "exiting"}
    /\ Goto(p, AfterJoin(p))
    /\ UNCHANGED <<database, seen, provider, conversation, overlapped, inits, deaths>>

-----------------------------------------------------------------------------
(* SibylMemoryProvider.initialize, and the operator's flush. *)

\* Fault: _configured keeps its value while the runtime is replaced.
InitializeConfigured(p) ==
    /\ pc[p] = "idle"
    /\ inits[p] < MaxInits
    /\ inits' = [inits EXCEPT ![p] = @ + 1]
    /\ ShutRuntimeDown(p, "joining", "opening")
    /\ UNCHANGED <<database, seen, runtime, configured, made, conversation, overlapped, deaths>>
\* The configuration is complete; the old runtime is shut down.
Initialize(p) ==
    /\ pc[p] = "idle"
    /\ inits[p] < MaxInits
    /\ inits' = [inits EXCEPT ![p] = @ + 1]
    /\ configured' = [configured EXCEPT ![p] = FALSE]
    /\ ShutRuntimeDown(p, "joining", "opening")
    /\ UNCHANGED <<database, seen, runtime, made, conversation, overlapped, deaths>>

\* hermes sibyl flush opens the same database.  BOUND: once.
Command(o) ==
    /\ pc[o] = "idle"
    /\ inits[o] = 0
    /\ inits' = [inits EXCEPT ![o] = 1]
    /\ Goto(o, "opening")
    /\ UNCHANGED <<database, seen, provider, conversation, overlapped, deaths>>

CommandEnds(o) ==
    /\ pc[o] = "flushing"
    /\ Goto(o, "idle")
    /\ UNCHANGED <<database, seen, provider, conversation, overlapped, inits, deaths>>

\* The outbox is open: a provider takes its new runtime, before initialize of it.
Opened(o) ==
    IF o \in Provider
    THEN /\ made' = [made EXCEPT ![o] = @ + 1]
         /\ runtime' = [runtime EXCEPT ![o] = made'[o]]
         /\ outbox' = [outbox EXCEPT ![o][made'[o]] = TRUE]
         /\ Goto(o, "marking")
         /\ UNCHANGED <<configured, closer>>
    ELSE Goto(o, "flushing") /\ UNCHANGED provider

\* DurableOutbox._initialize reads the version outside any transaction.
ReadVersion(o) ==
    /\ pc[o] = "opening"
    /\ seen' = [seen EXCEPT ![o] = version]
    /\ CASE version < 2 -> Goto(o, "locking") /\ UNCHANGED provider
         [] version = 2 -> Opened(o)
         [] OTHER -> Goto(o, "idle") /\ UNCHANGED provider    \* newer than supported
    /\ UNCHANGED <<database, conversation, overlapped, inits, deaths>>

\* What _create_schema or _migrate_session_index creates.
Missing(o) == Schema(2) \ Schema(seen[o])

\* Fault: the script runs without BEGIN IMMEDIATE, each statement by itself.
RunScript(o) ==
    /\ pc[o] = "locking"
    /\ lock = NoOne
    /\ IF Missing(o) \cap tables = {}
       THEN \E t \in Missing(o) : tables' = tables \cup {t} /\ lock' = o /\ Goto(o, "creating")
       ELSE Goto(o, "idle") /\ UNCHANGED <<tables, lock>>
    /\ UNCHANGED <<version, seen, provider, conversation, overlapped, inits, deaths>>
\* BEGIN IMMEDIATE, and the first CREATE TABLE, which fails if another process
\* was faster: "table ... already exists".
BeginScript(o) ==
    /\ pc[o] = "locking"
    /\ lock = NoOne
    /\ IF Missing(o) \cap tables = {}
       THEN lock' = o /\ Goto(o, "creating")
       ELSE Goto(o, "idle") /\ UNCHANGED lock
    /\ UNCHANGED <<version, tables, seen, provider, conversation, overlapped, inits, deaths>>

CommitScript(o) ==
    /\ pc[o] = "creating"
    /\ tables' = tables \cup Missing(o)
    /\ version' = 2
    /\ lock' = NoOne
    /\ Opened(o)
    /\ UNCHANGED <<seen, conversation, overlapped, inits, deaths>>

\* Fault: the new runtime does not mark the session.
MarkNothing(p) ==
    /\ pc[p] = "marking"
    /\ configured' = [configured EXCEPT ![p] = TRUE]
    /\ Goto(p, "idle")
    /\ UNCHANGED <<database, seen, runtime, made, outbox, closer, conversation,
                   overlapped, inits, deaths>>
\* SibylRuntime.initialize: the session has to be reconciled.
Mark(p) ==
    /\ pc[p] = "marking"
    /\ required' = [required EXCEPT ![p] = TRUE]
    /\ overlapped' = [overlapped EXCEPT ![p] =
                         IF sync[p].of \notin {0, runtime[p]} THEN sync[p].turn ELSE 0]
    /\ configured' = [configured EXCEPT ![p] = TRUE]
    /\ Goto(p, "idle")
    /\ UNCHANGED <<database, seen, runtime, made, outbox, closer, turns, captured, due,
                   sync, inits, deaths>>

\* Whoever leaves a script before its COMMIT loses what it did.
Unlock(o) == lock' = IF lock = o THEN NoOne ELSE lock

\* save_runtime_agent_id, SQLite or the file system raises.
Fail(o) ==
    /\ pc[o] \in {"opening", "locking", "creating", "marking", "flushing"}
    /\ Unlock(o)
    /\ Goto(o, "idle")
    /\ UNCHANGED <<version, tables, seen, provider, conversation, overlapped, inits, deaths>>

\* SibylMemoryProvider.shutdown, after which Hermes exits.
ProviderShutdown(p) ==
    /\ pc[p] = "idle"
    /\ ShutRuntimeDown(p, "exiting", "down")
    /\ UNCHANGED <<database, seen, runtime, configured, made, conversation, overlapped, inits,
                   deaths>>

\* The process ends; another will resume the conversation.
Die(p) ==
    /\ deaths[p] < MaxDeaths
    /\ deaths' = [deaths EXCEPT ![p] = @ + 1]
    /\ Unlock(p)
    /\ Goto(p, "idle")
    /\ runtime' = [runtime EXCEPT ![p] = 0]
    /\ configured' = [configured EXCEPT ![p] = FALSE]
    /\ made' = [made EXCEPT ![p] = 0]
    /\ outbox' = [outbox EXCEPT ![p] = [g \in Generation |-> FALSE]]
    /\ closer' = [closer EXCEPT ![p] = [g \in Generation |-> "none"]]
    /\ due' = [due EXCEPT ![p] = {}]
    /\ sync' = [sync EXCEPT ![p] = NoSync]
    /\ overlapped' = [overlapped EXCEPT ![p] = 0]
    /\ UNCHANGED <<version, tables, seen, turns, captured, required, inits>>

-----------------------------------------------------------------------------
(* Turns, and sync_turn in Hermes' background thread. *)

CompleteTurn(p) ==
    /\ pc[p] = "idle"
    /\ turns[p] < MaxTurns
    /\ turns' = [turns EXCEPT ![p] = @ + 1]
    /\ due' = [due EXCEPT ![p] = @ \cup {turns'[p]}]
    /\ UNCHANGED <<database, pc, seen, provider, captured, required, sync, overlapped, inits,
                   deaths>>

\* sync_turn of the runtime the provider has now; _NoopRuntime does nothing with
\* the turn.
BeginSync(p) ==
    /\ sync[p] = NoSync
    /\ \E n \in due[p] :
          /\ \A m \in due[p] : n <= m
          /\ due' = [due EXCEPT ![p] = @ \ {n}]
          /\ IF runtime[p] # 0
             THEN sync' = [sync EXCEPT ![p] = [turn |-> n, of |-> runtime[p],
                                               step |-> "check", connected |-> FALSE]]
             ELSE UNCHANGED sync
    /\ UNCHANGED <<database, pc, seen, provider, turns, captured, required, overlapped, inits,
                   deaths>>

\* What _connect asks.
SyncOpen(p) == outbox[p][sync[p].of]

\* _connect of whatever the sync calls next: the outbox is open as yet ...
Connect(p) ==
    /\ sync[p] # NoSync /\ ~sync[p].connected
    /\ SyncOpen(p)
    /\ sync' = [sync EXCEPT ![p].connected = TRUE]
    /\ UNCHANGED <<database, pc, seen, provider, turns, captured, required, due, overlapped,
                   inits, deaths>>

\* ... or was closed under the sync, and OutboxClosedError ends it.
SyncFails(p) ==
    /\ sync[p] # NoSync /\ ~sync[p].connected
    /\ ~SyncOpen(p)
    /\ sync' = [sync EXCEPT ![p] = NoSync]
    /\ UNCHANGED <<database, pc, seen, provider, turns, captured, required, due, overlapped,
                   inits, deaths>>

\* The call is over; the sync goes on at step.
SyncTo(p, step) ==
    sync' = [sync EXCEPT ![p] = [sync[p] EXCEPT !.step = step, !.connected = FALSE]]

\* session_reconcile_required.
CheckRequired(p) ==
    /\ sync[p].step = "check" /\ sync[p].connected
    /\ SyncTo(p, IF required[p] THEN "backfill" ELSE "capture")
    /\ UNCHANGED <<database, pc, seen, provider, turns, captured, required, due, overlapped,
                   inits, deaths>>

\* Fault: turns are counted from 0.
UnindexedFromZero(p) == (0 .. sync[p].turn - 1) \ captured[p]
\* Earlier turns of the transcript that are not indexed.
Unindexed(p) == (1 .. sync[p].turn - 1) \ captured[p]

Backfill(p) ==
    /\ sync[p].step = "backfill" /\ sync[p].connected
    /\ IF Unindexed(p) = {}
       THEN SyncTo(p, "clear") /\ UNCHANGED captured
       ELSE /\ \E n \in Unindexed(p) :
                  /\ \A m \in Unindexed(p) : n <= m
                  /\ captured' = [captured EXCEPT ![p] = @ \cup {n}]
            /\ SyncTo(p, "backfill")
    /\ UNCHANGED <<database, pc, seen, provider, turns, required, due, overlapped, inits, deaths>>

\* mark_session_reconcile(required=False), whatever was marked meanwhile.
ClearRequired(p) ==
    /\ sync[p].step = "clear" /\ sync[p].connected
    /\ required' = [required EXCEPT ![p] = FALSE]
    /\ SyncTo(p, "capture")
    /\ UNCHANGED <<database, pc, seen, provider, turns, captured, due, overlapped, inits, deaths>>

Capture(p) ==
    /\ sync[p].step = "capture" /\ sync[p].connected
    /\ captured' = [captured EXCEPT ![p] = @ \cup {sync[p].turn}]
    /\ sync' = [sync EXCEPT ![p] = NoSync]
    /\ UNCHANGED <<database, pc, seen, provider, turns, required, due, overlapped, inits, deaths>>

-----------------------------------------------------------------------------
OpenStep(o) == ReadVersion(o) \/ BeginScript(o) \/ CommitScript(o) \/ Fail(o)

ProviderStep(p) ==
    \/ Initialize(p)
    \/ JoinEnds(p)
    \/ Mark(p)
    \/ ProviderShutdown(p)
    \/ Die(p)
    \/ \E g \in Generation : CloserEnds(p, g)

SyncStep(p) ==
    \/ CompleteTurn(p)
    \/ BeginSync(p)
    \/ Connect(p)
    \/ SyncFails(p)
    \/ CheckRequired(p)
    \/ Backfill(p)
    \/ ClearRequired(p)
    \/ Capture(p)

Next ==
    \/ \E p \in Provider : ProviderStep(p) \/ SyncStep(p)
    \/ \E o \in Operator : Command(o) \/ CommandEnds(o)
    \/ \E o \in Opener : OpenStep(o)

Spec == Init /\ [][Next]_vars

\* Threads run on, and a wait for a lock or a closer has its timeout.
Fairness ==
    /\ \A p \in Provider : WF_vars(JoinEnds(p)) /\ WF_vars(Mark(p))
    /\ \A o \in Opener : WF_vars(ReadVersion(o) \/ BeginScript(o) \/ CommitScript(o))

FairSpec == Spec /\ Fairness

-----------------------------------------------------------------------------
\* The database a process leaves behind, however it ends, is one the next can
\* open: the tables are those of its version (outbox.py:318-325), also when two
\* processes have read the same old version and both run a script.
Openable == lock = NoOne => tables = Schema(version)

\* Between an initialize that returned and the end.
InService(p) == configured[p] /\ pc[p] \notin {"exiting", "down"}

\* A provider that says it is configured has a runtime at its service: system_
\* prompt_block announces a memory that is there, whatever failed before
\* (provider.py:181-188), until its shutdown.
ConfiguredServes ==
    \A p \in Provider :
        InService(p) =>
            /\ runtime[p] # 0
            /\ outbox[p][runtime[p]]
            /\ closer[p][runtime[p]] = "none"
            /\ version = 2

\* The completed turns that nothing will bring into the outbox: their sync is
\* over, and the session is not marked for another to look for them.
Forgotten(p) ==
    {n \in 1 .. turns[p] : /\ ~required[p]
                           /\ n \notin captured[p] \cup due[p] \cup {sync[p].turn}}

\* Whatever turns came to nothing while runtimes were replaced, initialize failed
\* or processes died, the mark of the runtime in service has them captured, but
\* for one: the turn whose sync was under way on an earlier runtime when the mark
\* was set.  That sync may clear the mark, in a write that waited for the lock or
\* because its closer has not closed the outbox yet, and be refused next.
NoTurnForgotten == \A p \in Provider : InService(p) => Forgotten(p) \subseteq {overlapped[p]}

\* initialize returns, with a runtime or an exception, although the flush of the
\* old runtime may hang in a request (closer.join, runtime.py:261).
InitializeEnds ==
    \A p \in Provider :
        pc[p] \in {"joining", "opening", "locking", "creating", "marking"} ~> pc[p] = "idle"
=============================================================================
