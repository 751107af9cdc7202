------------------------------ MODULE Sessions ------------------------------
(***************************************************************************)
(* How one Hermes session is captured: completed turns are indexed and     *)
(* queued by sync_turn (src/runtime.py:141), which Hermes runs in the      *)
(* background, while the conversation may be rewound, resumed or restarted *)
(* (on_session_switch, initialize) and the outbox delivers what is queued. *)
(*                                                                         *)
(* A turn is its turn_hash.  The index is the sequence of session_turns    *)
(* rows by local_sequence, each joined with its capture operation.  The id *)
(* of a record's rewind correction is a hash of the record's own id.  A    *)
(* server revision is known (1) or not (0).                                *)
(*                                                                         *)
(* Definitions marked "Fault" are not the code: each is what a neighbour   *)
(* would be with a plausible bug, kept to show that a property notices.    *)
(***************************************************************************)
EXTENDS Naturals, Sequences, FiniteSets

CONSTANTS
    Text,         \* the turn hashes
    NoCall,       \* no sync_turn is running
    MaxTurns,     \* BOUND: turns completed, and rows of the index
    MaxSwitches,  \* BOUND: rewinds and resumptions
    MaxRestarts   \* BOUND: restarts of the provider

ASSUME BoundsAssumption ==
    MaxTurns \in Nat /\ MaxSwitches \in Nat /\ MaxRestarts \in Nat

VARIABLES
    transcript,  \* the turns of the conversation, as Hermes keeps them
    lost,        \* history: the texts of which a rewind has discarded a saying ...
    again,       \* ... and those among them that were said again afterwards
    turns,       \* number of turns completed so far
    jobs,        \* sync_turn calls not yet begun, with their messages
    required,    \* session_state.reconcile_required
    missed,      \* history: the mark of the last rewind was cleared while a sync
                 \* with the messages of before it was running or queued
    index,       \* session_turns, with the state of each capture operation
    corrections, \* the rewind corrections that were ever enqueued
    pc,          \* where the running sync_turn stands
    call,        \* its arguments
    intents,     \* the corrections it has planned and not yet enqueued
    switches,
    restarts

hermes == <<transcript, lost, again, turns, switches, restarts>>
mark == <<required, missed>>
sync == <<pc, call, intents>>
vars == <<hermes, jobs, mark, index, corrections, sync>>

Call == [turn : Text, messages : Seq(Text)]
Record == [text : Text, revision : {0, 1}, queued : BOOLEAN]
Intent == [record : Nat \ {0}, expected : {0, 1}, waits : BOOLEAN]

CountUpTo(s, n, t) == Cardinality({i \in 1 .. n : s[i] = t})
Count(s, t) == CountUpTo(s, Len(s), t)
Texts == [n \in DOMAIN index |-> index[n].text]

-----------------------------------------------------------------------------
TypeOK ==
    /\ transcript \in Seq(Text)
    /\ lost \subseteq Text
    /\ again \subseteq lost
    /\ turns \in 0 .. MaxTurns
    /\ jobs \in Seq(Call)
    /\ required \in BOOLEAN
    /\ missed \in BOOLEAN
    /\ index \in Seq(Record)
    /\ corrections \subseteq Intent
    /\ pc \in {"idle", "backfill", "plan", "correct", "clear", "capture"}
    /\ pc # "idle" => call \in Call
    /\ intents \subseteq Intent
    /\ switches \in 0 .. MaxSwitches
    /\ restarts \in 0 .. MaxRestarts

\* A new session: initialize has marked it for reconciliation.
Init ==
    /\ transcript = <<>>
    /\ lost = {}
    /\ again = {}
    /\ turns = 0
    /\ jobs = <<>>
    /\ required = TRUE
    /\ missed = FALSE
    /\ index = <<>>
    /\ corrections = {}
    /\ pc = "idle"
    /\ call = NoCall
    /\ intents = {}
    /\ switches = 0
    /\ restarts = 0

-----------------------------------------------------------------------------
(* Hermes. *)

\* A turn completes; its sync_turn is submitted with the messages so far.
CompleteTurn(t) ==
    /\ turns < MaxTurns
    /\ turns' = turns + 1
    /\ again' = again \cup ({t} \cap lost)
    /\ transcript' = Append(transcript, t)
    /\ jobs' = Append(jobs, [turn |-> t, messages |-> transcript'])
    /\ UNCHANGED <<lost, switches, restarts, mark, index, corrections, sync>>

DiscardedAfter(n) == {transcript[i] : i \in n + 1 .. Len(transcript)}

\* Fault: a rewind does not ask for reconciliation.
SwitchUnmarked(n) ==
    /\ switches < MaxSwitches
    /\ switches' = switches + 1
    /\ transcript' = SubSeq(transcript, 1, n)
    /\ lost' = lost \cup DiscardedAfter(n)
    /\ missed' = FALSE
    /\ UNCHANGED <<again, turns, restarts, jobs, required, index, corrections, sync>>
\* on_session_switch back to this session: resumed as it was (n = its length)
\* or rewound to its first n turns.
Switch(n) ==
    /\ switches < MaxSwitches
    /\ switches' = switches + 1
    /\ transcript' = SubSeq(transcript, 1, n)
    /\ lost' = lost \cup DiscardedAfter(n)
    /\ required' = TRUE
    /\ missed' = FALSE
    /\ UNCHANGED <<again, turns, restarts, jobs, index, corrections, sync>>

\* Fault: initialize does not ask for reconciliation.
RestartUnmarked ==
    /\ restarts < MaxRestarts
    /\ restarts' = restarts + 1
    /\ jobs' = <<>>
    /\ pc' = "idle"
    /\ call' = NoCall
    /\ intents' = {}
    /\ missed' = FALSE
    /\ UNCHANGED <<transcript, lost, again, turns, switches, required, index, corrections>>
\* The process dies and the session is resumed: what had not reached the outbox
\* is gone, and initialize marks the session for reconciliation.
Restart ==
    /\ restarts < MaxRestarts
    /\ restarts' = restarts + 1
    /\ jobs' = <<>>
    /\ required' = TRUE
    /\ pc' = "idle"
    /\ call' = NoCall
    /\ intents' = {}
    /\ missed' = FALSE
    /\ UNCHANGED <<transcript, lost, again, turns, switches, index, corrections>>

-----------------------------------------------------------------------------
(* sync_turn. *)

\* enqueue_turn: one transaction adds the operation and its index record.
EnqueueTurn(t) == index' = Append(index, [text |-> t, revision |-> 0, queued |-> TRUE])

EndSync == pc' = "idle" /\ call' = NoCall /\ intents' = {}

\* The turns _reconcile_session looks for: those before the current one.
Prior(c) ==
    LET m == c.messages
    IN  IF m # <<>> /\ m[Len(m)] = c.turn THEN SubSeq(m, 1, Len(m) - 1) ELSE m

\* Positions whose text occurs more often than the index has it.
MissingAt(c) ==
    {i \in DOMAIN Prior(c) : CountUpTo(Prior(c), i, Prior(c)[i]) > Count(Texts, Prior(c)[i])}

BeginSync ==
    /\ pc = "idle"
    /\ jobs # <<>>
    /\ call' = Head(jobs)
    /\ jobs' = Tail(jobs)
    /\ pc' = IF required THEN "backfill" ELSE "capture"
    /\ UNCHANGED <<hermes, mark, index, corrections, intents>>

\* Completed turns the index has never seen are captured late, in order.
Backfill ==
    /\ pc = "backfill"
    /\ \E i \in MissingAt(call) :
          /\ \A j \in MissingAt(call) : i <= j
          /\ EnqueueTurn(Prior(call)[i])
    /\ UNCHANGED <<hermes, jobs, mark, corrections, sync>>

BackfillDone ==
    /\ pc = "backfill"
    /\ MissingAt(call) = {}
    /\ pc' = "plan"
    /\ UNCHANGED <<hermes, jobs, mark, index, corrections, call, intents>>

\* Fault: records and messages are matched by position.
AbsentByPosition(c) == {n \in DOMAIN index :
                          n > Len(c.messages) \/ c.messages[n] # index[n].text}
\* plan_rewind_corrections: by local_sequence, each record is matched with an
\* occurrence of its text in the messages while there are any left.
Absent(c) == {n \in DOMAIN index :
                CountUpTo(Texts, n, index[n].text) > Count(c.messages, index[n].text)}

\* The records are read in one query and turned into requests: the revision
\* known by now, and the dependency only while the capture is still queued.
Planned(ns) == {[record   |-> n,
                 expected |-> index[n].revision,
                 waits    |-> index[n].queued] : n \in ns}

Plan ==
    /\ pc = "plan"
    /\ intents' = Planned(Absent(call))
    /\ pc' = "correct"
    /\ UNCHANGED <<hermes, jobs, mark, index, corrections, call>>

\* The id of a record's correction is known, for another mutation.
Conflicting(it) == \E known \in corrections : known.record = it.record /\ known # it

\* They are enqueued by local_sequence.
NextIntent(it) == it \in intents /\ \A other \in intents : it.record <= other.record

\* outbox.enqueue of the next correction.
Correct ==
    /\ pc = "correct"
    /\ \E it \in intents :
          /\ NextIntent(it)
          /\ ~Conflicting(it)
          /\ corrections' = corrections \cup {it}
          /\ intents' = intents \ {it}
    /\ UNCHANGED <<hermes, jobs, mark, index, pc, call>>

\* OperationConflictError leaves sync_turn, before the turn is captured.
CorrectConflict ==
    /\ pc = "correct"
    /\ \E it \in intents : NextIntent(it) /\ Conflicting(it)
    /\ EndSync
    /\ UNCHANGED <<hermes, jobs, mark, index, corrections>>

CorrectDone ==
    /\ pc = "correct"
    /\ intents = {}
    /\ pc' = "clear"
    /\ UNCHANGED <<hermes, jobs, mark, index, corrections, call, intents>>

\* The conversation still begins as it did when the turn of c completed.
Current(c) == /\ Len(c.messages) <= Len(transcript)
              /\ c.messages = SubSeq(transcript, 1, Len(c.messages))

\* mark_session_reconcile(required=False), whatever was set meanwhile.
ClearRequired ==
    /\ pc = "clear"
    /\ required' = FALSE
    /\ missed' = (missed \/ \E c \in {call} \cup {jobs[i] : i \in DOMAIN jobs} : ~Current(c))
    /\ pc' = "capture"
    /\ UNCHANGED <<hermes, jobs, index, corrections, call, intents>>

Capture ==
    /\ pc = "capture"
    /\ EnqueueTurn(call.turn)
    /\ EndSync
    /\ UNCHANGED <<hermes, jobs, mark, corrections>>

-----------------------------------------------------------------------------
(* The outbox delivers captures (_execute_operation): the revision of the    *)
(* response is recorded first, the row archived in a later transaction, and  *)
(* an attempt lost in between is repeated.                                   *)

\* Fault: the answer to a repeated attempt counts as another revision.
RecordAgain(n) ==
    /\ index[n].queued
    /\ index' = [index EXCEPT ![n].revision = @ + 1]
    /\ UNCHANGED <<hermes, jobs, mark, corrections, sync>>
RecordRevision(n) ==
    /\ index[n].queued
    /\ index[n].revision = 0
    /\ index' = [index EXCEPT ![n].revision = 1]
    /\ UNCHANGED <<hermes, jobs, mark, corrections, sync>>

\* Fault: a capture is archived before its revision is recorded.
ArchiveUnrecorded(n) ==
    /\ index[n].queued
    /\ index' = [index EXCEPT ![n].queued = FALSE]
    /\ UNCHANGED <<hermes, jobs, mark, corrections, sync>>
ArchiveCapture(n) ==
    /\ index[n].queued
    /\ index[n].revision # 0
    /\ index' = [index EXCEPT ![n].queued = FALSE]
    /\ UNCHANGED <<hermes, jobs, mark, corrections, sync>>

-----------------------------------------------------------------------------
SyncStep ==
    \/ BeginSync
    \/ Backfill
    \/ BackfillDone
    \/ Plan
    \/ Correct
    \/ CorrectConflict
    \/ CorrectDone
    \/ ClearRequired
    \/ Capture

Next ==
    \/ \E t \in Text : CompleteTurn(t)
    \/ \E n \in 0 .. Len(transcript) : Switch(n)
    \/ Restart
    \/ SyncStep
    \/ \E n \in DOMAIN index : RecordRevision(n) \/ ArchiveCapture(n)

Spec == Init /\ [][Next]_vars

-----------------------------------------------------------------------------
(* What capture owes the conversation. *)

\* Nothing is under way and no reconciliation is due: what the outbox holds is
\* what the server will have of this session.
Settled == pc = "idle" /\ jobs = <<>> /\ ~required

\* The records of a text whose source is not to be marked stale.
Live(t) == {n \in DOMAIN index :
              index[n].text = t /\ \A known \in corrections : known.record # n}

\* However often the provider dies with syncs under way, a settled session that
\* was never rewound has every completed turn, once, in the order it was said
\* (backfill, runtime.py:599-608; enqueue_turn, outbox.py:532).
CapturedInOrder == Settled /\ switches = 0 => Texts = transcript

\* Only what a rewind has discarded is ever marked stale, under way or settled:
\* words that stand are never lost to a sync that runs late, was given messages
\* that have changed since, or counts repetitions (sessions.py:89-106).
OnlyLostMarked == \A it \in corrections : index[it.record].text \in lost

\* However late the syncs of before a rewind run, every turn the conversation still
\* has keeps a live source (plan_rewind_corrections, sessions.py:89), and no
\* discarded turn keeps one, unless the mark of its rewind was cleared over a sync
\* of before (runtime.py:647).  A text that was discarded and said again is not
\* covered: its old record may pass for the new saying.
SourcesAgree ==
    Settled => \A t \in Text \ again :
                  /\ Cardinality(Live(t)) >= Count(transcript, t)
                  /\ ~missed => Cardinality(Live(t)) = Count(transcript, t)

\* test_rewind_marks_only_absent_turns_stale (tests/unit/test_sessions.py:47), and
\* "rewind_discarded_sources_not_current" of the release gate (scripts/
\* release_gates.py:126): once nothing is under way, the live sources are those of
\* the turns the conversation has, whatever overlapped a rewind or is said again.
SourcesCurrent == Settled => \A t \in Text : Cardinality(Live(t)) = Count(transcript, t)

\* A rewind correction is never sent without the revision it is about: either
\* it names one, or it waits for a capture whose archived row has recorded one
\* (runtime.py:660 before outbox.py:1019; runtime.py:678-690).
RevisionGuarded ==
    \A it \in corrections :
        it.expected = 0 =>
            it.waits /\ (index[it.record].queued \/ index[it.record].revision # 0)

\* A sync_turn that Hermes runs to its end has put its turn into the outbox.
SyncCaptures ==
    [][pc # "idle" /\ pc' = "idle" => Len(index') > Len(index) \/ restarts' # restarts]_vars
=============================================================================
