----------------------------- MODULE TurnStarts -----------------------------
(***************************************************************************)
(* How a completed turn gets its turn_number: on_turn_start records every  *)
(* turn that begins (TurnStartQueue.record, src/sessions.py:30), and the   *)
(* sync_turn of a completed one looks for it by the words of the user      *)
(* (TurnStartQueue.consume, src/sessions.py:39), in the background and     *)
(* perhaps after later turns began or the session changed.                 *)
(*                                                                         *)
(* A turn is the number Hermes gives it.  Hermes numbers the turns of all  *)
(* sessions here in one count.                                             *)
(*                                                                         *)
(* Definitions marked "Fault" are not the code: each is what a neighbour   *)
(* would be with a plausible bug, kept to show that a property notices.    *)
(***************************************************************************)
EXTENDS Naturals, Sequences

CONSTANTS
    Session,      \* session ids
    Text,         \* user messages (message_hash tells them apart)
    MaxTurns,     \* BOUND: turns begun
    MaxSwitches   \* BOUND: session switches

ASSUME TurnAssumption == MaxTurns \in Nat /\ MaxSwitches \in Nat

Turn == 1 .. MaxTurns
NotSynced == MaxTurns + 1
Fallback == 0    \* no turn-start record: the local sequence is used instead

VARIABLES
    turn,      \* number of turns begun
    about,     \* session and message of each
    session,   \* _session_id
    running,   \* is the turn under way?
    due,       \* completed turns whose sync_turn has not run, in order
    starts,    \* TurnStartQueue._turns
    number,    \* turn_number of each turn's capture
    switches

vars == <<turn, about, session, running, due, starts, number, switches>>

TypeOK ==
    /\ turn \in 0 .. MaxTurns
    /\ about \in [Turn -> (Session \X Text) \cup {<<>>}]
    /\ session \in Session
    /\ running \in BOOLEAN
    /\ due \in Seq(Turn)
    /\ starts \in [Session -> Seq(Turn)]
    /\ number \in [Turn -> Turn \cup {Fallback, NotSynced}]
    /\ switches \in 0 .. MaxSwitches

Init ==
    /\ turn = 0
    /\ about = [n \in Turn |-> <<>>]
    /\ session \in Session
    /\ running = FALSE
    /\ due = <<>>
    /\ starts = [s \in Session |-> <<>>]
    /\ number = [n \in Turn |-> NotSynced]
    /\ switches = 0

\* Fault: the turn is recorded under the next number.
StartTurnAhead(t) ==
    /\ ~running
    /\ turn < MaxTurns
    /\ turn' = turn + 1
    /\ running' = TRUE
    /\ about' = [about EXCEPT ![turn'] = <<session, t>>]
    /\ starts' = [starts EXCEPT ![session] = Append(@, turn' + 1)]
    /\ UNCHANGED <<session, due, number, switches>>
\* on_turn_start records the turn under the current session.
StartTurn(t) ==
    /\ ~running
    /\ turn < MaxTurns
    /\ turn' = turn + 1
    /\ running' = TRUE
    /\ about' = [about EXCEPT ![turn'] = <<session, t>>]
    /\ starts' = [starts EXCEPT ![session] = Append(@, turn')]
    /\ UNCHANGED <<session, due, number, switches>>

\* The turn completes, and will be synced, or it is interrupted.
EndTurn ==
    /\ running
    /\ running' = FALSE
    /\ due' \in {due, Append(due, turn)}
    /\ UNCHANGED <<turn, about, session, starts, number, switches>>

\* on_session_switch; a reset clears the queue of the session that is left.
Switch(s, reset) ==
    /\ ~running
    /\ switches < MaxSwitches
    /\ switches' = switches + 1
    /\ session' = s
    /\ starts' = IF reset THEN [starts EXCEPT ![session] = <<>>] ELSE starts
    /\ UNCHANGED <<turn, about, running, due, number>>

\* The process dies: the queues and the syncs not yet run are gone.
Restart ==
    /\ running' = FALSE
    /\ due' = <<>>
    /\ starts' = [s \in Session |-> <<>>]
    /\ UNCHANGED <<turn, about, session, number, switches>>

\* Positions in the session's queue of the turns begun with n's message.
Matches(n) ==
    LET queue == starts[about[n][1]] IN {i \in DOMAIN queue : about[queue[i]] = about[n]}

\* Fault: only the match itself is taken out of the queue.
ConsumeMatch(n, i) ==
    starts' = [starts EXCEPT ![about[n][1]] = SubSeq(@, 1, i - 1) \o SubSeq(@, i + 1, Len(@))]
\* The match goes, and all that was begun before it.
ConsumeTo(n, i) == starts' = [starts EXCEPT ![about[n][1]] = SubSeq(@, i + 1, Len(@))]

\* sync_turn of the next completed turn: the first match gives it its number;
\* without one TurnReconciliationError leaves the queue alone.
SyncTurn ==
    /\ due # <<>>
    /\ due' = Tail(due)
    /\ LET n == Head(due)
       IN  IF Matches(n) = {}
           THEN /\ number' = [number EXCEPT ![n] = Fallback]
                /\ UNCHANGED starts
           ELSE \E i \in Matches(n) :
                   /\ \A j \in Matches(n) : i <= j
                   /\ number' = [number EXCEPT ![n] = starts[about[n][1]][i]]
                   /\ ConsumeTo(n, i)
    /\ UNCHANGED <<turn, about, session, running, switches>>

Next ==
    \/ \E t \in Text : StartTurn(t)
    \/ EndTurn
    \/ \E s \in Session, reset \in BOOLEAN : Switch(s, reset)
    \/ Restart
    \/ SyncTurn

Spec == Init /\ [][Next]_vars

-----------------------------------------------------------------------------
Numbered(n) == number[n] \notin {Fallback, NotSynced}

\* The captures of a session carry turn numbers in the order of their turns,
\* each used once, whatever was interrupted, repeated, switched away from,
\* synced late or lost in a restart (TurnStartQueue.consume, sessions.py:39).
NumbersIncrease ==
    \A m, n \in Turn :
        (m < n /\ Numbered(m) /\ Numbered(n) /\ about[m][1] = about[n][1])
            => number[m] < number[n]
=============================================================================
