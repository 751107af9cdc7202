------------------------------ MODULE Runtime -------------------------------
(***************************************************************************)
(* One SibylRuntime (src/runtime.py) and its threads: the thread of Hermes *)
(* that runs the turns, the one that runs sync_turn in the background, the *)
(* pool that recalls context (src/recall.py), the pool that flushes the    *)
(* outbox, and the closer of shutdown.  They share the credential gate     *)
(* (_ensure_credential_safe), the futures of the recall and the outbox.    *)
(*                                                                         *)
(* A turn is its number, and also names the fetch scheduled when it began. *)
(* What a flush does is in Outbox and Delivery; here only matters which    *)
(* operations it may see: those queued before it began.                    *)
(*                                                                         *)
(* Definitions marked "Fault" are not the code: each is what a neighbour   *)
(* would be with a plausible bug, kept to show that a property notices.    *)
(***************************************************************************)
EXTENDS Naturals

CONSTANTS
    Session,      \* session ids
    Text,         \* user messages, as normalize_hermes_user_message leaves them
    Thread,       \* threads of the executor that flushes
    MaxTurns,     \* BOUND: turns begun
    MaxSwitches   \* BOUND: session switches

ASSUME RuntimeAssumption == MaxTurns \in Nat /\ MaxSwitches \in Nat

Turn == 1 .. MaxTurns
Nobody == 0

ASSUME ThreadAssumption == Thread \cap Turn = {}

VARIABLES
    turn,       \* number of turns begun
    about,      \* session and message of each turn begun
    session,    \* _session_id
    pc,         \* Hermes' own thread ...
    awaited,    \* ... and the fetch it waits for in prefetch
    due,        \* number of completed turns whose sync_turn has not begun
    sync,       \* the background thread
    slot,       \* RecallCoordinator._futures, by session and message
    stage,      \* what each fetch and each thread of the pool does
    jobs,       \* calls of _validate_and_flush submitted and not yet begun
    verdict,    \* _credential_safe
    probing,    \* who asks auth_me, holding _credential_lock
    fresh,      \* some operation was queued after the last flush began
    gaveUp,     \* history: a job ended at the gate since then
    exposed,    \* the fetches acknowledged by a context_exposure operation
    returned,   \* history: <<turn, fetch>> whose context Hermes was given
    closed,     \* _closed
    closer,     \* the thread started by shutdown
    open,       \* is the outbox, and the client, open?
    switches

hermes == <<turn, about, session, pc, awaited, due, switches>>
recall == <<slot, exposed, returned>>
gate == <<verdict, probing>>
ending == <<closed, closer, open>>
vars == <<hermes, sync, recall, gate, ending, stage, jobs, fresh, gaveUp>>

Unfinished == {"queued", "gate", "request"}
Done == {"ready", "bare", "empty", "failed", "cancelled"}

TypeOK ==
    /\ turn \in 0 .. MaxTurns
    /\ about \in [Turn -> (Session \X Text) \cup {<<>>}]
    /\ session \in Session
    /\ pc \in {"idle", "begun", "waiting", "recorded", "running", "wrote"}
    /\ awaited \in Turn \cup {Nobody}
    /\ due \in 0 .. MaxTurns
    /\ sync \in {"idle", "submit"}
    /\ slot \in [Session \X Text -> Turn \cup {Nobody}]
    /\ DOMAIN stage = Turn \cup Thread
    /\ \A n \in Turn : stage[n] \in Unfinished \cup Done \cup {"none"}
    /\ \A h \in Thread : stage[h] \in {"idle", "gate", "flush"}
    /\ jobs \in Nat
    /\ verdict \in {"unknown", "safe", "unsafe"}
    /\ probing \subseteq Turn \cup Thread
    /\ fresh \in BOOLEAN /\ gaveUp \in BOOLEAN
    /\ exposed \subseteq Turn
    /\ returned \subseteq Turn \X Turn
    /\ closed \in BOOLEAN /\ open \in BOOLEAN
    /\ closer \in {"none", "flush", "ended"}
    /\ switches \in 0 .. MaxSwitches

\* initialize has submitted a first flush; the outbox may hold operations.
Init ==
    /\ turn = 0
    /\ about = [n \in Turn |-> <<>>]
    /\ session \in Session
    /\ pc = "idle"
    /\ awaited = Nobody
    /\ due = 0
    /\ sync = "idle"
    /\ slot = [k \in Session \X Text |-> Nobody]
    /\ stage = [x \in Turn \cup Thread |-> IF x \in Turn THEN "none" ELSE "idle"]
    /\ jobs = 1
    /\ verdict = "unknown"
    /\ probing = {}
    /\ fresh = TRUE
    /\ gaveUp = FALSE
    /\ exposed = {}
    /\ returned = {}
    /\ closed = FALSE
    /\ closer = "none"
    /\ open = TRUE
    /\ switches = 0

-----------------------------------------------------------------------------
(* Recall. *)

\* future.cancel() has an effect on one that has not begun.
Cancelled(n) == IF n # Nobody /\ stage[n] = "queued" THEN "cancelled" ELSE stage[n]

\* Fault: a future already under way for the message is kept.
ScheduleOnce(k, n) ==
    IF slot[k] # Nobody THEN UNCHANGED <<slot, stage>>
    ELSE /\ slot' = [slot EXCEPT ![k] = n]
         /\ stage' = [stage EXCEPT ![n] = "queued"]
\* RecallCoordinator.schedule
Schedule(k, n) ==
    /\ slot' = [slot EXCEPT ![k] = n]
    /\ stage' = [x \in DOMAIN stage |->
                    IF x = n THEN "queued"
                    ELSE IF x = slot[k] THEN Cancelled(x) ELSE stage[x]]

\* discard_session of the sessions in ss
Discard(ss) ==
    LET keys == ss \X Text
    IN  /\ slot' = [k \in DOMAIN slot |-> IF k \in keys THEN Nobody ELSE slot[k]]
        /\ stage' = [x \in DOMAIN stage |->
                        IF \E k \in keys : slot[k] = x THEN Cancelled(x) ELSE stage[x]]

FetchBegins(n) ==
    /\ stage[n] = "queued"
    /\ stage' = [stage EXCEPT ![n] = "gate"]
    /\ UNCHANGED <<hermes, sync, recall, gate, ending, jobs, fresh, gaveUp>>

\* context_pack answers: with items, without, with nothing at all, or not.
FetchEnds(n) ==
    /\ stage[n] = "request"
    /\ \E r \in {"ready", "bare", "empty", "failed"} :
          /\ open \/ r = "failed"
          /\ stage' = [stage EXCEPT ![n] = r]
    /\ UNCHANGED <<hermes, sync, recall, gate, ending, jobs, fresh, gaveUp>>

-----------------------------------------------------------------------------
(* A turn, in Hermes' own thread. *)

\* on_turn_start: the turn's context is asked for, and a flush submitted.
StartTurn(t) ==
    LET n == turn + 1
    IN  /\ pc = "idle" /\ ~closed
        /\ turn < MaxTurns
        /\ turn' = n
        /\ about' = [about EXCEPT ![n] = <<session, t>>]
        /\ Schedule(<<session, t>>, n)
        /\ jobs' = jobs + 1
        /\ pc' = "begun"
        /\ UNCHANGED <<session, awaited, due, switches, sync, exposed, returned,
                       gate, ending, fresh, gaveUp>>

\* prefetch takes the future for its session and message, if there is one.
Prefetch ==
    LET k == about[turn]
    IN  /\ pc = "begun"
        /\ slot' = [slot EXCEPT ![k] = Nobody]
        /\ awaited' = slot[k]
        /\ pc' = IF slot[k] = Nobody THEN "running" ELSE "waiting"
        /\ UNCHANGED <<turn, about, session, due, switches, sync, exposed, returned, gate,
                       ending, stage, jobs, fresh, gaveUp>>

\* Hermes asks for the message as it was typed, which a skill may have wrapped,
\* or not at all.
PrefetchOther ==
    /\ pc = "begun"
    /\ pc' = "running"
    /\ UNCHANGED <<turn, about, session, awaited, due, switches, sync, recall, gate, ending,
                   stage, jobs, fresh, gaveUp>>

StopWaiting ==
    /\ awaited' = Nobody
    /\ pc' = "running"
    /\ UNCHANGED <<turn, about, session, due, switches>>

\* _record_delivery: the items handed out are acknowledged, by an operation.
ContextReady ==
    /\ pc = "waiting"
    /\ stage[awaited] = "ready"
    /\ open
    /\ exposed' = exposed \cup {awaited}
    /\ fresh' = TRUE
    /\ pc' = "recorded"
    /\ UNCHANGED <<turn, about, session, awaited, due, switches, sync, slot, returned, gate,
                   ending, stage, jobs, gaveUp>>

\* ... a flush is submitted, and prefetch returns.
ReturnContext ==
    /\ pc = "recorded"
    /\ jobs' = jobs + 1
    /\ returned' = returned \cup {<<turn, awaited>>}
    /\ StopWaiting
    /\ UNCHANGED <<sync, slot, exposed, gate, ending, stage, fresh, gaveUp>>

\* A context without item ids needs no acknowledgement.
ReturnBare ==
    /\ pc = "waiting"
    /\ stage[awaited] = "bare"
    /\ returned' = returned \cup {<<turn, awaited>>}
    /\ StopWaiting
    /\ UNCHANGED <<sync, slot, exposed, gate, ending, stage, jobs, fresh, gaveUp>>

\* Nothing came of it, or writing the acknowledgement raised.
NoContext ==
    /\ pc = "waiting"
    /\ stage[awaited] \in {"empty", "failed", "cancelled", "ready"}
    /\ StopWaiting
    /\ UNCHANGED <<sync, recall, gate, ending, stage, jobs, fresh, gaveUp>>

\* Fault: a late result is acknowledged like any other.
MissAcknowledged ==
    /\ pc = "waiting"
    /\ stage[awaited] \notin Done
    /\ exposed' = exposed \cup {awaited}
    /\ StopWaiting
    /\ UNCHANGED <<sync, slot, returned, gate, ending, stage, jobs, fresh, gaveUp>>
\* hot_wait_seconds are over: what still comes is only observed.
MissHotWait ==
    /\ pc = "waiting"
    /\ stage[awaited] \notin Done
    /\ StopWaiting
    /\ UNCHANGED <<sync, recall, gate, ending, stage, jobs, fresh, gaveUp>>

\* A tool or _record_delivery of a manual recall enqueues an operation ...
ToolWrite ==
    /\ pc = "running"
    /\ open
    /\ fresh' = TRUE
    /\ pc' = "wrote"
    /\ UNCHANGED <<turn, about, session, awaited, due, switches, sync, recall, gate, ending,
                   stage, jobs, gaveUp>>
\* ... and submits a flush.
ToolSubmit ==
    /\ pc = "wrote"
    /\ jobs' = jobs + 1
    /\ pc' = "idle"
    /\ UNCHANGED <<turn, about, session, awaited, due, switches, sync, recall, gate, ending,
                   stage, fresh, gaveUp>>

\* The turn is completed, and will be synced; or it is interrupted.
EndTurn ==
    /\ pc = "running"
    /\ pc' = "idle"
    /\ due' \in {due, due + 1}
    /\ UNCHANGED <<turn, about, session, awaited, switches, sync, recall, gate, ending,
                   stage, jobs, fresh, gaveUp>>

\* on_session_switch
Switch(s, reset, rewound) ==
    /\ pc = "idle" /\ ~closed
    /\ switches < MaxSwitches
    /\ switches' = switches + 1
    /\ session' = s
    /\ Discard({x \in {session} : reset} \cup {x \in {s} : rewound})
    /\ UNCHANGED <<turn, about, pc, awaited, due, sync, exposed, returned, gate, ending,
                   jobs, fresh, gaveUp>>

-----------------------------------------------------------------------------
(* sync_turn, in the background. *)

\* The capture of a completed turn is enqueued ...
SyncTurn ==
    /\ sync = "idle"
    /\ due > 0
    /\ open
    /\ due' = due - 1
    /\ fresh' = TRUE
    /\ sync' = "submit"
    /\ UNCHANGED <<turn, about, session, pc, awaited, switches, recall, gate, ending, stage,
                   jobs, gaveUp>>

\* Fault: no flush is submitted while another is under way.
SubmitUnlessFlushing ==
    /\ sync = "submit"
    /\ sync' = "idle"
    /\ jobs' = IF \E h \in Thread : stage[h] # "idle" THEN jobs ELSE jobs + 1
    /\ UNCHANGED <<hermes, recall, gate, ending, stage, fresh, gaveUp>>
\* ... and a flush submitted.
SyncSubmit ==
    /\ sync = "submit"
    /\ sync' = "idle"
    /\ jobs' = jobs + 1
    /\ UNCHANGED <<hermes, recall, gate, ending, stage, fresh, gaveUp>>

-----------------------------------------------------------------------------
(* The pool that flushes: _validate_and_flush. *)

\* The job looks at _closed, once.
JobBegins(h) ==
    /\ stage[h] = "idle"
    /\ jobs > 0
    /\ jobs' = jobs - 1
    /\ stage' = [stage EXCEPT ![h] = IF closed THEN "idle" ELSE "gate"]
    /\ UNCHANGED <<hermes, sync, recall, gate, ending, fresh, gaveUp>>

\* What lies behind the gate: a flush, if the outbox is still open, or a request.
Passed(x) == IF x \in Turn THEN "request" ELSE IF open THEN "flush" ELSE "idle"
\* Fault: the refusal leaves the pool's thread dead.
RefusedDies(x) == "failed"
Refused(x) == IF x \in Turn THEN "failed" ELSE "idle"

Enter(x) ==
    /\ stage' = [stage EXCEPT ![x] = Passed(x)]
    /\ IF Passed(x) = "flush" THEN fresh' = FALSE /\ gaveUp' = FALSE
                              ELSE UNCHANGED <<fresh, gaveUp>>
TurnBack(x) ==
    /\ stage' = [stage EXCEPT ![x] = Refused(x)]
    /\ gaveUp' = (gaveUp \/ x \in Thread)
    /\ UNCHANGED fresh

\* The lock is free and the verdict known.
GatePass(x) ==
    /\ stage[x] = "gate" /\ probing = {}
    /\ \/ verdict = "safe" /\ Enter(x)
       \/ verdict = "unsafe" /\ TurnBack(x)
    /\ UNCHANGED <<hermes, sync, recall, gate, ending, jobs>>

\* It is unknown: this one asks auth_me, holding the lock.
Probe(x) ==
    /\ stage[x] = "gate" /\ probing = {}
    /\ verdict = "unknown"
    /\ probing' = {x}
    /\ UNCHANGED <<hermes, sync, recall, verdict, ending, stage, jobs, fresh, gaveUp>>

\* auth_me answers with a safe credential, with an unsafe one, or fails.  What
\* the credential may do can be changed at the server at any time.
ProbeAnswer(x) ==
    /\ x \in probing
    /\ probing' = probing \ {x}
    /\ \/ open /\ verdict' = "safe" /\ Enter(x)
       \/ open /\ verdict' = "unsafe" /\ TurnBack(x)
       \/ UNCHANGED verdict /\ TurnBack(x)
    /\ UNCHANGED <<hermes, sync, recall, ending, jobs>>

FlushEnds(h) ==
    /\ stage[h] = "flush"
    /\ stage' = [stage EXCEPT ![h] = "idle"]
    /\ UNCHANGED <<hermes, sync, recall, gate, ending, jobs, fresh, gaveUp>>

-----------------------------------------------------------------------------
(* shutdown *)

\* Fetches and jobs that have not begun are cancelled.
CancelQueued ==
    stage' = [x \in DOMAIN stage |-> IF stage[x] = "queued" THEN "cancelled" ELSE stage[x]]

\* Fault: only a credential known to be unsafe keeps the last flush back.
ShutdownUnlessUnsafe ==
    /\ pc = "idle" /\ ~closed
    /\ closed' = TRUE
    /\ CancelQueued
    /\ jobs' = 0
    /\ IF verdict # "unsafe" THEN closer' = "flush" /\ fresh' = FALSE /\ UNCHANGED open
                             ELSE open' = FALSE /\ UNCHANGED <<closer, fresh>>
    /\ UNCHANGED <<hermes, sync, recall, gate, gaveUp>>
\* The jobs not begun before the closer is joined see _closed: they may as well
\* be cancelled at once.
Shutdown ==
    /\ pc = "idle" /\ ~closed
    /\ closed' = TRUE
    /\ CancelQueued
    /\ jobs' = 0
    /\ IF verdict = "safe" THEN closer' = "flush" /\ fresh' = FALSE /\ UNCHANGED open
                           ELSE open' = FALSE /\ UNCHANGED <<closer, fresh>>
    /\ UNCHANGED <<hermes, sync, recall, gate, gaveUp>>

\* outbox.shutdown has flushed, or run into its deadline; all is closed.
CloserEnds ==
    /\ closer = "flush"
    /\ closer' = "ended"
    /\ open' = FALSE
    /\ UNCHANGED <<hermes, sync, recall, gate, closed, stage, jobs, fresh, gaveUp>>

-----------------------------------------------------------------------------
Next ==
    \/ \E t \in Text : StartTurn(t)
    \/ Prefetch \/ PrefetchOther \/ ContextReady \/ ReturnContext \/ ReturnBare
    \/ NoContext \/ MissHotWait \/ ToolWrite \/ ToolSubmit \/ EndTurn
    \/ \E s \in Session, reset, rewound \in BOOLEAN : Switch(s, reset, rewound)
    \/ SyncTurn \/ SyncSubmit
    \/ \E n \in Turn : FetchBegins(n) \/ FetchEnds(n)
    \/ \E h \in Thread : JobBegins(h) \/ FlushEnds(h)
    \/ \E x \in Turn \cup Thread : GatePass(x) \/ Probe(x) \/ ProbeAnswer(x)
    \/ Shutdown \/ CloserEnds

Spec == Init /\ [][Next]_vars

-----------------------------------------------------------------------------
(* Properties. *)

\* Nothing is fetched, and nothing delivered, not even by the flush of a
\* shutdown, before auth_me has shown the credential to be restricted
\* (_ensure_credential_safe, runtime.py:303; shutdown, runtime.py:253).
Gated ==
    (closer = "flush" \/ \E x \in Turn \cup Thread : stage[x] \in {"request", "flush"})
        => verdict = "safe"

\* The context a turn is given was asked for by this very turn: never one left
\* over from an interrupted turn with the same words, from before a rewind, or
\* one that came too late (recall.py:77 and 85).
FreshRecall == \A p \in returned : p[1] = p[2]

\* What is acknowledged to Sibyl as exposed is what Hermes was given
\* (recall.py:140; README.md:103 "Only the exact items returned to Hermes are
\* acknowledged afterward").
AcknowledgedIsReturned ==
    \A n \in exposed : <<n, n>> \in returned \/ (pc = "recorded" /\ awaited = n)

\* Whatever is queued after the last flush began has a flush coming, unless the
\* credential gate turned one away (the submit that follows every enqueue).
WakeupKept ==
    fresh /\ ~closed /\ ~gaveUp =>
        \/ jobs > 0
        \/ \E h \in Thread : stage[h] = "gate"
        \/ pc \in {"recorded", "wrote"}
        \/ sync = "submit"
=============================================================================
