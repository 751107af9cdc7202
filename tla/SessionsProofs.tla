--------------------------- MODULE SessionsProofs ---------------------------
(***************************************************************************)
(* Theorems about the capture of a session, for any texts and bounds.      *)
(*                                                                         *)
(* BaseIInv holds in every behaviour.  On it rest InOrder, an invariant of *)
(* conversations that were never switched, where the index is a prefix of  *)
(* the transcript, and StandingIInv, of conversations that are rewound,    *)
(* resumed and restarted while syncs run, where the words no rewind has    *)
(* touched are counted on from call to call.                               *)
(***************************************************************************)
EXTENDS Sessions, SequenceTheorems, FiniteSetTheorems, TLAPS

USE DEF mark

\* The number of turns whose sync_turn is over: those of the transcript
\* but for the calls that wait and the one that runs.
Done == Len(transcript) - Len(jobs) - (IF pc = "idle" THEN 0 ELSE 1)

\* The sync_turn of the k-th turn of the transcript.
CallOf(k) == [turn |-> transcript[k], messages |-> SubSeq(transcript, 1, k)]

\* While there has been no switch, these are the calls of the last turns of the
\* transcript, in their order.
CallsPending ==
    switches = 0 =>
        /\ Done \in Nat
        /\ pc # "idle" => call = CallOf(Done + 1)
        /\ \A j \in 1 .. Len(jobs) : jobs[j] = CallOf(Len(transcript) - Len(jobs) + j)

\* Only the planning of corrections leaves any to be enqueued, and the flag
\* stands until reconciliation has gone all the way.
Reconciling ==
    /\ pc # "correct" => intents = {}
    /\ pc \in {"backfill", "plan", "correct", "clear"} => required

\* What is archived has its revision, and a correction that names none was
\* made to wait for a capture.
Guarded ==
    /\ \A n \in 1 .. Len(index) : index[n].queued \/ index[n].revision # 0
    /\ \A it \in corrections \cup intents :
          it.record \in 1 .. Len(index) /\ (it.expected = 0 => it.waits)

BaseIInv == TypeOK /\ CallsPending /\ Reconciling /\ Guarded

\* The index has all turns whose sync is over.
CaughtUp == (pc = "idle" /\ ~required) \/ pc \in {"plan", "correct", "clear", "capture"}

\* Without a switch the index is the beginning of the transcript, and nothing
\* is ever planned to be marked stale.
InOrder ==
    switches = 0 =>
        /\ Len(index) <= Done
        /\ \A n \in 1 .. Len(index) : index[n].text = transcript[n]
        /\ CaughtUp => Len(index) = Done
        /\ intents = {}

-----------------------------------------------------------------------------
(* Sequences. *)

LEMMA LengthIsNat ==
  ASSUME NEW S, NEW q \in Seq(S)
  PROVE  Len(q) \in Nat /\ DOMAIN q = 1 .. Len(q) /\ \A i \in 1 .. Len(q) : q[i] \in S
  BY LenProperties, ElementOfSeq

LEMMA SameLength ==
  ASSUME NEW a \in Nat, NEW b \in Nat, 1 .. a = 1 .. b
  PROVE  a = b
  <1>1. Cardinality(1 .. a) = a /\ Cardinality(1 .. b) = b
    BY FS_Interval
  <1> QED
    BY <1>1

LEMMA PrefixIs ==
  ASSUME NEW S, NEW q \in Seq(S), NEW k \in 0 .. Len(q)
  PROVE  /\ SubSeq(q, 1, k) \in Seq(S)
         /\ Len(SubSeq(q, 1, k)) = k
         /\ \A i \in 1 .. k : SubSeq(q, 1, k)[i] = q[i]
  <1> DEFINE prefix == SubSeq(q, 1, k)
  <1>1. Len(q) \in Nat /\ k \in Int /\ k \in Nat /\ 1 \in Int
    BY LengthIsNat
  <1>2. \A i \in 1 .. k : q[i] \in S
    BY <1>1, LengthIsNat
  <1>3. /\ prefix \in Seq(S)
        /\ Len(prefix) = IF 1 <= k THEN k - 1 + 1 ELSE 0
        /\ \A i \in 1 .. k - 1 + 1 : prefix[i] = q[1 + i - 1]
    BY <1>1, <1>2, SubSeqProperties
  <1> HIDE DEF prefix
  <1>4. Len(prefix) = k /\ \A i \in 1 .. k : prefix[i] = q[i]
    BY <1>1, <1>3
  <1> QED
    BY <1>3, <1>4 DEF prefix

\* What is appended does not change a prefix.
LEMMA PrefixKept ==
  ASSUME NEW S, NEW q \in Seq(S), NEW x \in S, NEW k \in 0 .. Len(q)
  PROVE  SubSeq(Append(q, x), 1, k) = SubSeq(q, 1, k)
  <1> DEFINE longer == Append(q, x)
  <1>1. longer \in Seq(S) /\ Len(longer) = Len(q) + 1 /\ \A i \in 1 .. Len(q) : longer[i] = q[i]
    BY AppendProperties
  <1>2. Len(q) \in Nat /\ k \in 0 .. Len(longer) /\ \A i \in 1 .. k : i \in 1 .. Len(q)
    <2> HIDE DEF longer
    <2> QED
      BY <1>1, LengthIsNat
  <1>3. /\ SubSeq(longer, 1, k) \in Seq(S) /\ SubSeq(q, 1, k) \in Seq(S)
        /\ Len(SubSeq(longer, 1, k)) = k /\ Len(SubSeq(q, 1, k)) = k
        /\ \A i \in 1 .. k : SubSeq(longer, 1, k)[i] = longer[i] /\ SubSeq(q, 1, k)[i] = q[i]
    <2> HIDE DEF longer
    <2> QED
      BY <1>1, <1>2, PrefixIs
  <1>4. \A i \in 1 .. k : SubSeq(longer, 1, k)[i] = SubSeq(q, 1, k)[i]
    BY <1>1, <1>2, <1>3
  <1> QED
    BY <1>3, <1>4, SeqEqual

-----------------------------------------------------------------------------
(* Counting. *)

Where(s, n, t) == {i \in 1 .. n : s[i] = t}

LEMMA CountIsCardinality ==
  ASSUME NEW s, NEW n \in Nat, NEW t
  PROVE  /\ IsFiniteSet(Where(s, n, t))
         /\ CountUpTo(s, n, t) = Cardinality(Where(s, n, t))
         /\ CountUpTo(s, n, t) \in Nat
  <1>1. IsFiniteSet(1 .. n)
    BY FS_Interval
  <1>2. IsFiniteSet(Where(s, n, t))
    BY <1>1, FS_Subset DEF Where
  <1> QED
    BY <1>2, FS_CardinalityType DEF CountUpTo, Where

\* What is found among the first m of r is found among the first n of s.
LEMMA CountMonotonic ==
  ASSUME NEW r, NEW m \in Nat, NEW s, NEW n \in Nat, NEW t,
         Where(r, m, t) \subseteq Where(s, n, t)
  PROVE  CountUpTo(r, m, t) <= CountUpTo(s, n, t)
  BY CountIsCardinality, FS_Subset

LEMMA CountNone ==
  ASSUME NEW s, NEW n \in Nat, NEW t
  PROVE  CountUpTo(s, n, t) = 0 <=> \A i \in 1 .. n : s[i] # t
  <1>1. Where(s, n, t) = {} <=> \A i \in 1 .. n : s[i] # t
    BY DEF Where
  <1> QED
    BY <1>1, CountIsCardinality, FS_EmptySet

LEMMA CountOnce ==
  ASSUME NEW s, NEW n \in Nat, NEW t,
         \A i, j \in 1 .. n : s[i] = s[j] => i = j
  PROVE  CountUpTo(s, n, t) \in {0, 1}
  <1>1. CASE \A i \in 1 .. n : s[i] # t
    BY <1>1, CountNone
  <1>2. CASE ~ \A i \in 1 .. n : s[i] # t
    <2>1. PICK i \in 1 .. n : s[i] = t
      BY <1>2
    <2>2. Where(s, n, t) = {i}
      BY <2>1 DEF Where
    <2>3. CountUpTo(s, n, t) = Cardinality({i})
      BY <2>2, CountIsCardinality
    <2>4. Cardinality({i}) = 1
      BY FS_Singleton
    <2> QED
      BY <2>3, <2>4
  <1> QED
    BY <1>1, <1>2

LEMMA CountOneMore ==
  ASSUME NEW s, NEW n \in Nat
  PROVE  CountUpTo(s, n + 1, s[n + 1]) = CountUpTo(s, n, s[n + 1]) + 1
  <1> DEFINE t == s[n + 1]
  <1>1. Where(s, n + 1, t) = Where(s, n, t) \cup {n + 1} /\ n + 1 \notin Where(s, n, t)
    BY DEF Where
  <1>2. IsFiniteSet(Where(s, n, t)) /\ n + 1 \in Nat
    BY CountIsCardinality
  <1>3. Cardinality(Where(s, n + 1, t)) = Cardinality(Where(s, n, t)) + 1
    BY <1>1, <1>2, FS_AddElement
  <1> QED
    BY <1>2, <1>3, CountIsCardinality

-----------------------------------------------------------------------------
(* The invariant of every behaviour. *)

LEMMA TypedSession ==
  ASSUME TypeOK
  PROVE  /\ Len(transcript) \in Nat /\ Len(jobs) \in Nat /\ Len(index) \in Nat
         /\ DOMAIN transcript = 1 .. Len(transcript) /\ DOMAIN jobs = 1 .. Len(jobs)
         /\ DOMAIN index = 1 .. Len(index)
         /\ \A i \in 1 .. Len(transcript) : transcript[i] \in Text
         /\ \A j \in 1 .. Len(jobs) : jobs[j] \in Call
         /\ \A n \in 1 .. Len(index) : index[n] \in Record
         /\ (pc = "idle" \/ pc # "idle") /\ Done \in Int
  BY LengthIsNat DEF TypeOK, Done

\* One more record in the index.
LEMMA Appended ==
  ASSUME TypeOK, NEW t \in Text, EnqueueTurn(t)
  PROVE  /\ index' \in Seq(Record) /\ Len(index') = Len(index) + 1
         /\ \A n \in 1 .. Len(index) : index'[n] = index[n]
         /\ index'[Len(index) + 1] = [text |-> t, revision |-> 0, queued |-> TRUE]
  <1>1. index \in Seq(Record) /\ [text |-> t, revision |-> 0, queued |-> TRUE] \in Record
    BY DEF TypeOK, Record
  <1> QED
    BY <1>1, AppendProperties DEF EnqueueTurn

\* What the outbox does to a capture leaves its text.
LEMMA Delivered ==
  ASSUME TypeOK, NEW n \in 1 .. Len(index), RecordRevision(n) \/ ArchiveCapture(n)
  PROVE  /\ index' \in Seq(Record) /\ Len(index') = Len(index)
         /\ \A m \in 1 .. Len(index) : index'[m].text = index[m].text
         /\ \A m \in 1 .. Len(index) : index[m].queued \/ index[m].revision # 0
                                          => index'[m].queued \/ index'[m].revision # 0
         /\ UNCHANGED <<hermes, jobs, mark, corrections, sync>>
  <1>0. index \in Seq(Record) /\ index[n] \in Record
    BY TypedSession DEF TypeOK
  <1>1. PICK r \in Record :
           index' = [index EXCEPT ![n] = r] /\ r.text = index[n].text /\ r.revision # 0
    <2>1. CASE RecordRevision(n)
      <3> DEFINE r == [index[n] EXCEPT !.revision = 1]
      <3>1. r \in Record /\ r.text = index[n].text /\ r.revision # 0
        BY <1>0 DEF Record
      <3>2. index' = [index EXCEPT ![n] = r]
        BY <2>1 DEF RecordRevision
      <3> HIDE DEF r
      <3> QED
        BY <3>1, <3>2
    <2>2. CASE ArchiveCapture(n)
      <3> DEFINE r == [index[n] EXCEPT !.queued = FALSE]
      <3>1. r \in Record /\ r.text = index[n].text /\ r.revision # 0
        BY <1>0, <2>2 DEF Record, ArchiveCapture
      <3>2. index' = [index EXCEPT ![n] = r]
        BY <2>2 DEF ArchiveCapture
      <3> HIDE DEF r
      <3> QED
        BY <3>1, <3>2
    <2> QED
      BY <2>1, <2>2
  <1>2. /\ index' \in Seq(Record) /\ Len(index') = Len(index)
        /\ \A m \in 1 .. Len(index) : index'[m] = IF m = n THEN r ELSE index[m]
    BY <1>0, <1>1, ExceptSeq
  <1> QED
    BY <1>1, <1>2 DEF RecordRevision, ArchiveCapture

LEMMA PriorTyped ==
  ASSUME NEW c \in Call
  PROVE  /\ c.turn \in Text /\ c.messages \in Seq(Text) /\ Prior(c) \in Seq(Text)
         /\ Len(c.messages) \in Nat /\ Len(Prior(c)) \in Nat
         /\ DOMAIN Prior(c) = 1 .. Len(Prior(c))
         /\ \A i \in DOMAIN Prior(c) : Prior(c)[i] \in Text
  <1>1. c.turn \in Text /\ c.messages \in Seq(Text)
    BY DEF Call
  <1>2. Prior(c) \in Seq(Text)
    <2>1. CASE c.messages # <<>>
      <3>1. Len(c.messages) \in Nat \ {0}
        BY <1>1, <2>1, EmptySeq
      <3>2. Len(c.messages) - 1 \in 0 .. Len(c.messages)
        BY <3>1
      <3>3. SubSeq(c.messages, 1, Len(c.messages) - 1) \in Seq(Text)
        BY <1>1, <3>2, PrefixIs
      <3> QED
        BY <1>1, <3>3 DEF Prior
    <2> QED
      BY <1>1, <2>1 DEF Prior
  <1> QED
    BY <1>1, <1>2, LengthIsNat

LEMMA InitBase ==
  ASSUME Init
  PROVE  BaseIInv
  <1>1. <<>> \in Seq(Text) /\ <<>> \in Seq(Call) /\ <<>> \in Seq(Record) /\ Len(<<>>) = 0
    BY EmptySeq
  <1>2. TypeOK
    <2>1. /\ transcript \in Seq(Text) /\ jobs \in Seq(Call) /\ index \in Seq(Record)
          /\ turns \in 0 .. MaxTurns /\ switches \in 0 .. MaxSwitches
          /\ restarts \in 0 .. MaxRestarts
      BY <1>1, BoundsAssumption DEF Init
    <2> QED
      BY <2>1 DEF Init, TypeOK
  <1>3. CallsPending
    BY <1>1 DEF Init, CallsPending, Done
  <1> QED
    BY <1>1, <1>2, <1>3 DEF Init, BaseIInv, Reconciling, Guarded

LEMMA TypesKept ==
  ASSUME TypeOK, [Next]_vars
  PROVE  TypeOK'
  <1>0. /\ Len(transcript) \in Nat /\ Len(index) \in Nat /\ DOMAIN index = 1 .. Len(index)
        /\ transcript \in Seq(Text) /\ jobs \in Seq(Call) /\ index \in Seq(Record)
        /\ <<>> \in Seq(Call) /\ {} \subseteq Intent
    BY TypedSession, EmptySeq DEF TypeOK
  <1>1. ASSUME NEW t \in Text, CompleteTurn(t)
        PROVE  TypeOK'
    <2>1. /\ transcript' \in Seq(Text) /\ turns' \in 0 .. MaxTurns
          /\ lost' \subseteq Text /\ again' \subseteq lost'
      BY <1>0, <1>1, AppendProperties, BoundsAssumption DEF CompleteTurn, TypeOK
    <2>2. jobs' \in Seq(Call)
      <3>1. [turn |-> t, messages |-> transcript'] \in Call
        BY <2>1 DEF Call
      <3> QED
        BY <1>0, <1>1, <3>1, AppendProperties DEF CompleteTurn
    <2> QED
      BY <1>1, <2>1, <2>2 DEF CompleteTurn, TypeOK, sync
  <1>2. ASSUME NEW n \in 0 .. Len(transcript), Switch(n)
        PROVE  TypeOK'
    <2>1. transcript' \in Seq(Text)
      BY <1>0, <1>2, PrefixIs DEF Switch
    <2>2. switches' \in 0 .. MaxSwitches
      BY <1>2, BoundsAssumption DEF Switch, TypeOK
    <2>3. DiscardedAfter(n) \subseteq Text
      BY TypedSession DEF DiscardedAfter
    <2>4. lost' \subseteq Text /\ again' \subseteq lost'
      BY <1>2, <2>3 DEF Switch, TypeOK
    <2> QED
      BY <1>2, <2>1, <2>2, <2>4 DEF Switch, TypeOK, sync
  <1>3. CASE Restart
    <2>1. restarts' \in 0 .. MaxRestarts
      BY <1>3, BoundsAssumption DEF Restart, TypeOK
    <2> QED
      BY <1>0, <1>3, <2>1 DEF Restart, TypeOK
  <1>4. CASE BeginSync
    <2>1. call' \in Call /\ jobs' \in Seq(Call)
      BY <1>0, <1>4, HeadTailProperties DEF BeginSync
    <2> QED
      BY <1>4, <2>1 DEF BeginSync, TypeOK, hermes
  <1>5. CASE Backfill
    <2>1. PICK i \in MissingAt(call) : EnqueueTurn(Prior(call)[i])
      BY <1>5 DEF Backfill
    <2>2. call \in Call /\ Prior(call)[i] \in Text
      BY <1>5, PriorTyped DEF Backfill, MissingAt, TypeOK
    <2>3. index' \in Seq(Record)
      BY <2>1, <2>2, Appended
    <2> QED
      BY <1>5, <2>3 DEF Backfill, TypeOK, hermes, sync
  <1>6. CASE Plan
    <2>1. Planned(Absent(call)) \subseteq Intent
      BY TypedSession DEF Planned, Absent, Intent, Record
    <2> QED
      BY <1>6, <2>1 DEF Plan, TypeOK, hermes
  <1>7. CASE Correct
    BY <1>7 DEF Correct, TypeOK, hermes
  <1>8. CASE CorrectConflict
    BY <1>0, <1>8 DEF CorrectConflict, EndSync, TypeOK, hermes
  <1>9. CASE BackfillDone \/ CorrectDone \/ ClearRequired
    BY <1>9 DEF BackfillDone, CorrectDone, ClearRequired, TypeOK, hermes
  <1>10. CASE Capture
    <2>1. call.turn \in Text
      BY <1>10, PriorTyped DEF Capture, TypeOK
    <2>2. index' \in Seq(Record)
      BY <1>10, <2>1, Appended DEF Capture
    <2> QED
      BY <1>0, <1>10, <2>2 DEF Capture, EndSync, TypeOK, hermes
  <1>11. ASSUME NEW n \in DOMAIN index, RecordRevision(n) \/ ArchiveCapture(n)
         PROVE  TypeOK'
    <2>1. index' \in Seq(Record) /\ UNCHANGED <<hermes, jobs, mark, corrections, sync>>
      BY <1>0, <1>11, Delivered
    <2> QED
      BY <2>1 DEF TypeOK, hermes, sync
  <1>12. CASE UNCHANGED vars
    BY <1>12 DEF vars, TypeOK, hermes, sync
  <1> QED
    BY <1>1, <1>2, <1>3, <1>4, <1>5, <1>6, <1>7, <1>8, <1>9, <1>10, <1>11, <1>12
    DEF Next, SyncStep

LEMMA ReconcilingKept ==
  ASSUME Reconciling, [Next]_vars
  PROVE  Reconciling'
  <1>1. CASE \E t \in Text : CompleteTurn(t)
    BY <1>1 DEF CompleteTurn, Reconciling, sync
  <1>2. CASE \E n \in 0 .. Len(transcript) : Switch(n)
    BY <1>2 DEF Switch, Reconciling, sync
  <1>3. CASE Restart
    BY <1>3 DEF Restart, Reconciling
  <1>4. CASE SyncStep
    BY <1>4 DEF SyncStep, BeginSync, Backfill, BackfillDone, Plan, Correct, CorrectConflict,
                CorrectDone, ClearRequired, Capture, EndSync, Reconciling, sync
  <1>5. CASE \E n \in DOMAIN index : RecordRevision(n) \/ ArchiveCapture(n)
    BY <1>5 DEF RecordRevision, ArchiveCapture, Reconciling, sync
  <1>6. CASE UNCHANGED vars
    BY <1>6 DEF vars, Reconciling, sync
  <1> QED
    BY <1>1, <1>2, <1>3, <1>4, <1>5, <1>6 DEF Next

LEMMA GuardedKept ==
  ASSUME TypeOK, Guarded, [Next]_vars
  PROVE  Guarded'
  <1>0. Len(index) \in Nat /\ DOMAIN index = 1 .. Len(index)
    BY TypedSession
  <1>1. ASSUME NEW t \in Text, EnqueueTurn(t), corrections' = corrections,
               intents' = intents \/ intents' = {}
        PROVE  Guarded'
    <2>0. /\ Len(index') = Len(index) + 1
          /\ \A n \in 1 .. Len(index) : index'[n] = index[n]
          /\ index'[Len(index) + 1] = [text |-> t, revision |-> 0, queued |-> TRUE]
      BY <1>1, Appended
    <2>1. index'[Len(index) + 1].queued
      BY <2>0
    <2>2. \A n \in 1 .. Len(index') : n \in 1 .. Len(index) \/ n = Len(index) + 1
      BY <1>0, <2>0
    <2>3. \A n \in 1 .. Len(index) : n \in 1 .. Len(index')
      BY <1>0, <2>0
    <2>4. \A n \in 1 .. Len(index') : index'[n].queued \/ index'[n].revision # 0
      BY <2>0, <2>1, <2>2 DEF Guarded
    <2>5. \A it \in corrections' \cup intents' : it \in corrections \cup intents
      BY <1>1
    <2> QED
      BY <2>3, <2>4, <2>5 DEF Guarded
  <1>2. CASE Backfill
    <2>1. PICK i \in MissingAt(call) : EnqueueTurn(Prior(call)[i])
      BY <1>2 DEF Backfill
    <2>2. Prior(call)[i] \in Text
      BY <1>2, PriorTyped DEF Backfill, MissingAt, TypeOK
    <2> QED
      BY <1>1, <1>2, <2>1, <2>2 DEF Backfill, sync
  <1>3. CASE Capture
    <2>1. call.turn \in Text
      BY <1>3, PriorTyped DEF Capture, TypeOK
    <2> QED
      BY <1>1, <1>3, <2>1 DEF Capture, EndSync
  <1>4. CASE Plan
    <2>1. \A it \in Planned(Absent(call)) :
             it.record \in 1 .. Len(index) /\ (it.expected = 0 => it.waits)
      BY <1>0 DEF Planned, Absent, Guarded
    <2> QED
      BY <1>4, <2>1 DEF Plan, Guarded
  <1>5. ASSUME NEW n \in DOMAIN index, RecordRevision(n) \/ ArchiveCapture(n)
        PROVE  Guarded'
    BY <1>0, <1>5, Delivered DEF Guarded, sync
  <1>6. CASE Restart \/ CorrectConflict
    BY <1>6 DEF Restart, CorrectConflict, EndSync, Guarded
  <1>7. CASE Correct
    BY <1>7 DEF Correct, Guarded
  <1>8. CASE BeginSync \/ BackfillDone \/ CorrectDone \/ ClearRequired
    BY <1>8 DEF BeginSync, BackfillDone, CorrectDone, ClearRequired, Guarded
  <1>9. CASE (\E t \in Text : CompleteTurn(t)) \/ (\E n \in 0 .. Len(transcript) : Switch(n))
    BY <1>9 DEF CompleteTurn, Switch, Guarded, sync
  <1>10. CASE UNCHANGED vars
    BY <1>10 DEF vars, Guarded, sync
  <1> QED
    BY <1>2, <1>3, <1>4, <1>5, <1>6, <1>7, <1>8, <1>9, <1>10 DEF Next, SyncStep

\* Calls are added behind those that wait, and begin in that order.
LEMMA CallsKept ==
  ASSUME BaseIInv, [Next]_vars
  PROVE  CallsPending'
  <1> DEFINE L == Len(transcript)
  <1> DEFINE J == Len(jobs)
  <1> SUFFICES ASSUME switches' = 0
               PROVE  /\ Done' \in Nat
                      /\ pc' # "idle" => call' = CallOf(Done + 1)'
                      /\ \A j \in 1 .. Len(jobs') :
                            jobs'[j] = CallOf(Len(transcript) - Len(jobs) + j)'
    BY DEF CallsPending
  <1>0. /\ L \in Nat /\ J \in Nat /\ transcript \in Seq(Text) /\ jobs \in Seq(Call)
        /\ switches \in Nat /\ Done \in Int /\ TypeOK
    BY TypedSession, BoundsAssumption DEF BaseIInv, TypeOK
  <1>1. switches' # 0 \/ switches = 0
    <2>1. CASE \E n \in 0 .. L : Switch(n)
      BY <1>0, <2>1 DEF Switch
    <2>2. CASE SyncStep
      BY <2>2 DEF SyncStep, BeginSync, Backfill, BackfillDone, Plan, Correct, CorrectConflict,
                  CorrectDone, ClearRequired, Capture, hermes
    <2>3. CASE (\E t \in Text : CompleteTurn(t)) \/ Restart
      BY <2>3 DEF CompleteTurn, Restart
    <2>4. CASE (\E n \in DOMAIN index : RecordRevision(n) \/ ArchiveCapture(n)) \/ UNCHANGED vars
      BY <2>4 DEF RecordRevision, ArchiveCapture, vars, hermes
    <2> QED
      BY <2>1, <2>2, <2>3, <2>4 DEF Next
  <1>2. /\ Done \in Nat
        /\ pc # "idle" => call = CallOf(Done + 1)
        /\ \A j \in 1 .. J : jobs[j] = CallOf(L - J + j)
        /\ Done = L - J - (IF pc = "idle" THEN 0 ELSE 1)
    BY <1>1 DEF BaseIInv, CallsPending, Done
  <1>3. ASSUME NEW t \in Text, CompleteTurn(t)
        PROVE  /\ Done' \in Nat
               /\ pc' # "idle" => call' = CallOf(Done + 1)'
               /\ \A j \in 1 .. Len(jobs') : jobs'[j] = CallOf(Len(transcript) - Len(jobs) + j)'
    <2> DEFINE new == [turn |-> t, messages |-> transcript']
    <2>1. /\ transcript' = Append(transcript, t) /\ jobs' = Append(jobs, new)
          /\ pc' = pc /\ call' = call
      BY <1>3 DEF CompleteTurn, sync
    <2>2. /\ transcript' \in Seq(Text) /\ Len(transcript') = L + 1
          /\ \A i \in 1 .. L : transcript'[i] = transcript[i]
          /\ transcript'[L + 1] = t
      BY <1>0, <2>1, AppendProperties
    <2>3. /\ Len(jobs') = J + 1
          /\ \A j \in 1 .. J : jobs'[j] = jobs[j]
          /\ jobs'[J + 1] = new
      <3>1. new \in Call
        BY <2>2 DEF Call
      <3> QED
        BY <1>0, <2>1, <3>1, AppendProperties
    <2>4. Done' = Done
      BY <1>0, <1>2, <2>1, <2>2, <2>3 DEF Done
    <2>5. ASSUME NEW k \in 1 .. L
          PROVE  CallOf(k)' = CallOf(k)
      <3>1. SubSeq(transcript', 1, k) = SubSeq(transcript, 1, k)
        BY <1>0, <2>1, PrefixKept
      <3> QED
        BY <2>2, <3>1 DEF CallOf
    <2>6. [turn |-> transcript'[L + 1], messages |-> SubSeq(transcript', 1, L + 1)] = new
      <3>1. SubSeq(transcript', 1, L + 1) = transcript'
        BY <2>2, SubSeqFull
      <3> QED
        BY <2>2, <3>1
    <2>7. pc' # "idle" => call' = CallOf(Done + 1)'
      <3>1. pc # "idle" => Done + 1 \in 1 .. L
        BY <1>0, <1>2
      <3> QED
        BY <1>2, <2>1, <2>4, <2>5, <3>1 DEF CallOf
    <2>8. ASSUME NEW j \in 1 .. J + 1
          PROVE  jobs'[j] = CallOf(Len(transcript) - Len(jobs) + j)'
      <3>1. Len(transcript') - Len(jobs') + j = L - J + j
        BY <1>0, <2>2, <2>3
      <3>2. CASE j \in 1 .. J
        <4>1. L - J + j \in 1 .. L
          BY <1>0, <1>2, <3>2
        <4>2. jobs'[j] = CallOf(L - J + j)
          BY <1>2, <2>3, <3>2
        <4>3. jobs'[j] = [turn |-> transcript'[L - J + j],
                          messages |-> SubSeq(transcript', 1, L - J + j)]
          BY <2>5, <4>1, <4>2 DEF CallOf
        <4> QED
          BY <3>1, <4>3 DEF CallOf
      <3>3. CASE j = J + 1
        <4>1. L - J + j = L + 1
          BY <1>0, <3>3
        <4> QED
          BY <2>3, <2>6, <3>1, <3>3, <4>1 DEF CallOf
      <3> QED
        BY <1>0, <3>2, <3>3
    <2> QED
      BY <1>2, <2>3, <2>4, <2>7, <2>8
  <1>4. CASE \E n \in 0 .. L : Switch(n)
    <2>1. PICK n \in 0 .. L : Switch(n)
      BY <1>4
    <2>2. switches' # 0
      BY <1>0, <2>1 DEF Switch
    <2>3. jobs' = <<>> /\ pc' = "idle" /\ Len(jobs') = 0 /\ Len(transcript') \in Nat
      BY <1>0, <2>1, <2>2, PrefixIs, EmptySeq DEF Switch, sync
    <2> QED
      BY <2>3 DEF Done
  <1>5. CASE Restart
    <2>1. jobs' = <<>> /\ pc' = "idle" /\ Len(jobs') = 0 /\ transcript' = transcript
      BY <1>5, EmptySeq DEF Restart
    <2> QED
      BY <1>0, <2>1 DEF Done
  <1>6. CASE BeginSync
    <2>1. /\ pc = "idle" /\ jobs # <<>> /\ call' = Head(jobs) /\ jobs' = Tail(jobs)
          /\ transcript' = transcript /\ pc' # "idle"
      BY <1>6 DEF BeginSync, hermes
    <2>2. /\ J \in Nat \ {0} /\ Len(jobs') = J - 1
          /\ \A j \in 1 .. Len(jobs') : jobs'[j] = jobs[j + 1]
          /\ call' = jobs[1]
      BY <1>0, <2>1, EmptySeq, HeadTailProperties
    <2>3. Done' = Done /\ Done + 1 = L - J + 1
      BY <1>0, <1>2, <2>1, <2>2 DEF Done
    <2>4. call' = CallOf(Done + 1)'
      <3>1. jobs[1] = CallOf(L - J + 1)
        BY <1>2, <2>2
      <3> QED
        BY <2>1, <2>2, <2>3, <3>1 DEF CallOf
    <2>5. ASSUME NEW j \in 1 .. Len(jobs')
          PROVE  jobs'[j] = CallOf(Len(transcript) - Len(jobs) + j)'
      <3>1. j + 1 \in 1 .. J /\ L - Len(jobs') + j = L - J + (j + 1)
        BY <1>0, <2>2
      <3> QED
        BY <1>2, <2>1, <2>2, <3>1 DEF CallOf
    <2> QED
      BY <1>2, <2>3, <2>4, <2>5
  <1>7. ASSUME UNCHANGED <<transcript, jobs>>,
               UNCHANGED <<pc, call>> \/ (pc # "idle" /\ pc' # "idle" /\ call' = call)
        PROVE  /\ Done' \in Nat
               /\ pc' # "idle" => call' = CallOf(Done + 1)'
               /\ \A j \in 1 .. Len(jobs') : jobs'[j] = CallOf(Len(transcript) - Len(jobs) + j)'
    <2>1. Done' = Done
      BY <1>7 DEF Done
    <2> QED
      BY <1>2, <1>7, <2>1 DEF CallOf
  <1>8. CASE CorrectConflict \/ Capture
    <2>1. UNCHANGED <<transcript, jobs>> /\ pc # "idle" /\ pc' = "idle"
      BY <1>8 DEF CorrectConflict, Capture, EndSync, hermes
    <2>2. Done' \in Nat
      BY <1>0, <1>2, <2>1 DEF Done
    <2> QED
      BY <1>2, <2>1, <2>2 DEF CallOf
  <1>9. CASE Backfill \/ BackfillDone \/ Plan \/ Correct \/ CorrectDone \/ ClearRequired
    BY <1>7, <1>9 DEF Backfill, BackfillDone, Plan, Correct, CorrectDone, ClearRequired, hermes, sync
  <1>10. CASE \E n \in DOMAIN index : RecordRevision(n) \/ ArchiveCapture(n)
    BY <1>7, <1>10 DEF RecordRevision, ArchiveCapture, hermes, sync
  <1>11. CASE UNCHANGED vars
    BY <1>7, <1>11 DEF vars, hermes, sync
  <1> QED
    BY <1>3, <1>4, <1>5, <1>6, <1>8, <1>9, <1>10, <1>11 DEF Next, SyncStep

\* The invariant of every behaviour: calls wait in the order of their turns, a
\* correction knows its revision or waits for it (runtime.py:585-651, 660).
THEOREM BaseInductive == Spec => []BaseIInv
  <1>1. Init => BaseIInv
    BY InitBase
  <1>2. BaseIInv /\ [Next]_vars => BaseIInv'
    BY TypesKept, CallsKept, ReconcilingKept, GuardedKept DEF BaseIInv
  <1> QED
    BY <1>1, <1>2, PTL DEF Spec

\* Transcript, index, queue of calls and corrections keep their types.
THEOREM SessionTypes == Spec => []TypeOK
  <1>1. BaseIInv => TypeOK
    BY DEF BaseIInv
  <1> QED
    BY <1>1, BaseInductive, PTL

\* No rewind correction can be sent without the revision it is about: it names
\* one, or waits for a capture that records its own before its row is archived
\* (runtime.py:660 before outbox.py:1019; runtime.py:678-690).
THEOREM RevisionGuardedHolds == Spec => []RevisionGuarded
  <1>1. BaseIInv => RevisionGuarded
    BY DEF BaseIInv, Guarded, RevisionGuarded
  <1> QED
    BY <1>1, BaseInductive, PTL

-----------------------------------------------------------------------------
(* A conversation that was never switched. *)

\* The messages of the running call are the transcript up to its turn.
LEMMA RunningCall ==
  ASSUME BaseIInv, pc # "idle", switches = 0
  PROVE  /\ Done \in Nat /\ Done + 1 \in 1 .. Len(transcript)
         /\ call \in Call /\ call.turn = transcript[Done + 1] /\ call.turn \in Text
         /\ Len(call.messages) = Done + 1
         /\ \A i \in 1 .. Done + 1 : call.messages[i] = transcript[i]
         /\ Len(Prior(call)) = Done /\ DOMAIN Prior(call) = 1 .. Done
         /\ \A i \in 1 .. Done : Prior(call)[i] = transcript[i] /\ Prior(call)[i] \in Text
  <1> DEFINE k == Done + 1
  <1>1. /\ Done \in Nat /\ call = CallOf(k) /\ call \in Call
        /\ Len(transcript) \in Nat /\ Len(jobs) \in Nat /\ transcript \in Seq(Text)
        /\ Done = Len(transcript) - Len(jobs) - 1
    BY TypedSession DEF BaseIInv, CallsPending, TypeOK, Done
  <1>2. k \in 1 .. Len(transcript) /\ k \in 0 .. Len(transcript)
    BY <1>1
  <1>3. call.turn = transcript[k] /\ call.messages = SubSeq(transcript, 1, k)
    BY <1>1 DEF CallOf
  <1>4. /\ call.messages \in Seq(Text) /\ Len(call.messages) = k
        /\ \A i \in 1 .. k : call.messages[i] = transcript[i]
    <2> DEFINE prefix == SubSeq(transcript, 1, k)
    <2>1. /\ prefix \in Seq(Text) /\ Len(prefix) = k
          /\ \A i \in 1 .. k : prefix[i] = transcript[i]
      <3> HIDE DEF k
      <3> QED
        BY <1>1, <1>2, PrefixIs
    <2> HIDE DEF prefix, k
    <2>2. call.messages = prefix
      BY <1>3 DEF prefix
    <2> QED
      BY <2>1, <2>2
  <1>5. call.messages # <<>> /\ call.messages[Len(call.messages)] = call.turn
    <2>1. k # 0 /\ k \in 1 .. k
      BY <1>1
    <2> QED
      BY <1>3, <1>4, <2>1, EmptySeq
  <1>6. Prior(call) = SubSeq(call.messages, 1, Done)
    <2>1. Len(call.messages) - 1 = Done
      BY <1>1, <1>4
    <2> QED
      BY <1>5, <2>1 DEF Prior
  <1>7. Done \in 0 .. Len(call.messages) /\ \A i \in 1 .. Done : i \in 1 .. k
    BY <1>1, <1>4
  <1>8. /\ Len(Prior(call)) = Done
        /\ \A i \in 1 .. Done : Prior(call)[i] = call.messages[i]
    BY <1>4, <1>6, <1>7, PrefixIs
  <1>9. \A i \in 1 .. Done : Prior(call)[i] = transcript[i] /\ Prior(call)[i] \in Text
    BY <1>1, <1>4, <1>7, <1>8, PriorTyped
  <1> QED
    BY <1>1, <1>2, <1>3, <1>4, <1>8, <1>9, PriorTyped

LEMMA TextsIs ==
  ASSUME TypeOK
  PROVE  Len(Texts) = Len(index) /\ \A n \in 1 .. Len(index) : Texts[n] = index[n].text
  <1> DEFINE K == Len(index)
  <1>1. K \in Nat /\ Texts = [n \in 1 .. K |-> index[n].text]
    BY TypedSession DEF Texts
  <1>2. Texts \in Seq(Text)
    <2>1. \A n \in 1 .. K : index[n].text \in Text
      BY TypedSession DEF Record
    <2>2. Texts \in [1 .. K -> Text]
      BY <1>1, <2>1
    <2> QED
      BY <1>1, <2>2, SeqDef
  <1>3. DOMAIN Texts = 1 .. Len(Texts) /\ Len(Texts) \in Nat /\ DOMAIN Texts = 1 .. K
    BY <1>1, <1>2, LengthIsNat
  <1>4. Len(Texts) = K
    BY <1>1, <1>3, SameLength
  <1> QED
    BY <1>1, <1>4

\* Of an index that is the beginning of the messages the first turn beyond it
\* is missing, and no turn within it.
LEMMA MissingIsNext ==
  ASSUME TypeOK, NEW c \in Call, NEW K \in Nat, NEW D \in Nat, K <= D,
         Len(index) = K, Len(Prior(c)) = D,
         \A n \in 1 .. K : index[n].text = Prior(c)[n]
  PROVE  /\ \A i \in MissingAt(c) : i \in 1 .. D /\ i > K
         /\ K < D => K + 1 \in MissingAt(c)
  <1> DEFINE p == Prior(c)
  <1>0. DOMAIN p = 1 .. D /\ Len(Texts) = K /\ \A n \in 1 .. K : Texts[n] = p[n]
    BY PriorTyped, TextsIs
  <1> HIDE DEF p
  <1>1. \A t : Count(Texts, t) = CountUpTo(p, K, t)
    <2> SUFFICES ASSUME NEW t PROVE Count(Texts, t) = CountUpTo(p, K, t)
      OBVIOUS
    <2>1. Where(Texts, K, t) = Where(p, K, t)
      BY <1>0 DEF Where
    <2>2. CountUpTo(Texts, K, t) = CountUpTo(p, K, t)
      BY <2>1 DEF CountUpTo, Where
    <2> QED
      BY <1>0, <2>2 DEF Count
  <1>2. ASSUME NEW i \in MissingAt(c)
        PROVE  i \in 1 .. D /\ i > K
    <2>1. i \in 1 .. D /\ CountUpTo(p, i, p[i]) > Count(Texts, p[i])
      BY <1>0, <1>2 DEF MissingAt, p
    <2>2. CASE i <= K
      <3>1. Where(p, i, p[i]) \subseteq Where(p, K, p[i])
        BY <2>1, <2>2 DEF Where
      <3>2. i \in Nat
        BY <2>1
      <3>3. CountUpTo(p, i, p[i]) <= CountUpTo(p, K, p[i])
        BY <3>1, <3>2, CountMonotonic
      <3>4. CountUpTo(p, i, p[i]) \in Nat /\ CountUpTo(p, K, p[i]) \in Nat
        BY <3>2, CountIsCardinality
      <3> QED
        BY <1>1, <2>1, <3>3, <3>4
    <2> QED
      BY <2>1, <2>2
  <1>3. ASSUME K < D
        PROVE  K + 1 \in MissingAt(c)
    <2>1. K + 1 \in 1 .. D
      BY <1>3
    <2>2. CountUpTo(p, K + 1, p[K + 1]) = CountUpTo(p, K, p[K + 1]) + 1
      BY CountOneMore
    <2>3. CountUpTo(p, K, p[K + 1]) \in Nat
      BY CountIsCardinality
    <2>4. CountUpTo(p, K + 1, p[K + 1]) > Count(Texts, p[K + 1])
      BY <1>1, <2>2, <2>3
    <2> QED
      BY <1>0, <2>1, <2>4 DEF MissingAt, p
  <1> QED
    BY <1>2, <1>3

\* ... and of such an index no record is to be marked stale.
LEMMA NoneAbsent ==
  ASSUME TypeOK, NEW c \in Call, Len(index) <= Len(c.messages),
         \A n \in 1 .. Len(index) : index[n].text = c.messages[n]
  PROVE  Absent(c) = {}
  <1>0. /\ DOMAIN index = 1 .. Len(index) /\ Len(index) \in Nat /\ Len(c.messages) \in Nat
        /\ \A n \in 1 .. Len(index) : Texts[n] = c.messages[n]
    BY TypedSession, PriorTyped DEF Texts
  <1> SUFFICES ASSUME NEW n \in 1 .. Len(index)
               PROVE  ~(CountUpTo(Texts, n, index[n].text) > Count(c.messages, index[n].text))
    BY <1>0 DEF Absent
  <1> DEFINE t == index[n].text
  <1>1. Where(Texts, n, t) \subseteq Where(c.messages, Len(c.messages), t)
    BY <1>0 DEF Where
  <1>2. CountUpTo(Texts, n, t) <= CountUpTo(c.messages, Len(c.messages), t)
    BY <1>0, <1>1, CountMonotonic
  <1>3. CountUpTo(Texts, n, t) \in Nat /\ CountUpTo(c.messages, Len(c.messages), t) \in Nat
    BY <1>0, CountIsCardinality
  <1> QED
    BY <1>2, <1>3 DEF Count

\* The number of turns that are done with, step by step.
LEMMA DoneSteps ==
  ASSUME TypeOK
  PROVE  /\ \A t \in Text : CompleteTurn(t) => Done' = Done
         /\ BeginSync => Done' = Done
         /\ Capture \/ CorrectConflict => Done' = Done + 1
         /\ Restart => Done' = Len(transcript)
         /\ Backfill \/ BackfillDone \/ Plan \/ Correct \/ CorrectDone \/ ClearRequired
               => Done' = Done
         /\ UNCHANGED <<transcript, jobs, pc>> => Done' = Done
  <1>0. /\ Len(transcript) \in Nat /\ Len(jobs) \in Nat
        /\ transcript \in Seq(Text) /\ jobs \in Seq(Call)
    BY TypedSession DEF TypeOK
  <1>1. ASSUME NEW t \in Text, CompleteTurn(t)
        PROVE  Done' = Done
    <2> DEFINE new == [turn |-> t, messages |-> transcript']
    <2>1. transcript' = Append(transcript, t) /\ jobs' = Append(jobs, new) /\ pc' = pc
      BY <1>1 DEF CompleteTurn, sync
    <2>2. transcript' \in Seq(Text) /\ Len(transcript') = Len(transcript) + 1
      BY <1>0, <2>1, AppendProperties
    <2>3. Len(jobs') = Len(jobs) + 1
      <3>1. new \in Call
        BY <2>2 DEF Call
      <3> QED
        BY <1>0, <2>1, <3>1, AppendProperties
    <2> QED
      BY <1>0, <2>1, <2>2, <2>3 DEF Done
  <1>2. ASSUME BeginSync
        PROVE  Done' = Done
    <2>1. pc = "idle" /\ pc' # "idle" /\ jobs # <<>> /\ jobs' = Tail(jobs) /\ transcript' = transcript
      BY <1>2 DEF BeginSync, hermes
    <2>2. Len(jobs') = Len(jobs) - 1
      BY <1>0, <2>1, HeadTailProperties
    <2> QED
      BY <1>0, <2>1, <2>2 DEF Done
  <1>3. ASSUME Capture \/ CorrectConflict
        PROVE  Done' = Done + 1
    <2>1. pc # "idle" /\ pc' = "idle" /\ UNCHANGED <<transcript, jobs>>
      BY <1>3 DEF Capture, CorrectConflict, EndSync, hermes
    <2> QED
      BY <1>0, <2>1 DEF Done
  <1>4. ASSUME Restart
        PROVE  Done' = Len(transcript)
    <2>1. jobs' = <<>> /\ Len(jobs') = 0 /\ pc' = "idle" /\ transcript' = transcript
      BY <1>4, EmptySeq DEF Restart
    <2> QED
      BY <1>0, <2>1 DEF Done
  <1>5. ASSUME Backfill \/ BackfillDone \/ Plan \/ Correct \/ CorrectDone \/ ClearRequired
        PROVE  Done' = Done
    <2>1. pc # "idle" /\ pc' # "idle" /\ UNCHANGED <<transcript, jobs>>
      BY <1>5 DEF Backfill, BackfillDone, Plan, Correct, CorrectDone, ClearRequired, hermes, sync
    <2> QED
      BY <2>1 DEF Done
  <1>6. UNCHANGED <<transcript, jobs, pc>> => Done' = Done
    BY DEF Done
  <1> QED
    BY <1>1, <1>2, <1>3, <1>4, <1>5, <1>6

LEMMA NothingSwitched ==
  ASSUME TypeOK, [Next]_vars, switches' = 0
  PROVE  switches = 0 /\ ~ \E n \in 0 .. Len(transcript) : Switch(n)
  <1>0. switches \in Nat
    BY BoundsAssumption DEF TypeOK
  <1>1. ~ \E n \in 0 .. Len(transcript) : Switch(n)
    BY <1>0 DEF Switch
  <1>2. CASE SyncStep
    BY <1>1, <1>2 DEF SyncStep, BeginSync, Backfill, BackfillDone, Plan, Correct, CorrectConflict,
                CorrectDone, ClearRequired, Capture, hermes
  <1>3. CASE (\E t \in Text : CompleteTurn(t)) \/ Restart
    BY <1>1, <1>3 DEF CompleteTurn, Restart
  <1>4. CASE (\E n \in DOMAIN index : RecordRevision(n) \/ ArchiveCapture(n)) \/ UNCHANGED vars
    BY <1>1, <1>4 DEF RecordRevision, ArchiveCapture, vars, hermes
  <1> QED
    BY <1>1, <1>2, <1>3, <1>4 DEF Next

LEMMA InOrderKept ==
  ASSUME BaseIInv, InOrder, [Next]_vars
  PROVE  InOrder'
  <1> DEFINE K == Len(index)
  <1> SUFFICES ASSUME switches' = 0
               PROVE  /\ Len(index') <= Done'
                      /\ \A n \in 1 .. Len(index') : index'[n].text = transcript'[n]
                      /\ CaughtUp' => Len(index') = Done'
                      /\ intents' = {}
    BY DEF InOrder
  <1>0. switches = 0 /\ TypeOK /\ ~ \E n \in 0 .. Len(transcript) : Switch(n)
    BY NothingSwitched DEF BaseIInv
  <1>1. /\ K \in Nat /\ Done \in Nat /\ K <= Done
        /\ \A n \in 1 .. K : index[n].text = transcript[n]
        /\ CaughtUp => K = Done
        /\ intents = {}
        /\ Len(transcript) \in Nat /\ Len(jobs) \in Nat /\ Done <= Len(transcript)
        /\ transcript \in Seq(Text)
    <2>1. Len(transcript) \in Nat /\ Len(jobs) \in Nat /\ K \in Nat
      BY <1>0, TypedSession
    <2>2. Done \in Nat /\ Done <= Len(transcript)
      BY <1>0, <2>1 DEF BaseIInv, CallsPending, Done
    <2> QED
      BY <1>0, <2>1, <2>2 DEF InOrder, TypeOK
  <1>2. ASSUME NEW t \in Text, CompleteTurn(t)
        PROVE  InOrder'
    <2>1. /\ Done' = Done /\ transcript' = Append(transcript, t)
          /\ UNCHANGED <<index, intents, pc, required>>
      BY <1>0, <1>2, DoneSteps DEF CompleteTurn, sync
    <2>2. \A n \in 1 .. K : transcript'[n] = transcript[n]
      <3>1. \A n \in 1 .. K : n \in 1 .. Len(transcript)
        BY <1>1
      <3> QED
        BY <1>1, <2>1, <3>1, AppendProperties
    <2> QED
      BY <1>1, <2>1, <2>2 DEF InOrder, CaughtUp
  <1>3. CASE Restart
    <2>1. /\ Done' = Len(transcript) /\ UNCHANGED <<transcript, index>>
          /\ intents' = {} /\ ~CaughtUp'
      BY <1>0, <1>3, DoneSteps DEF Restart, CaughtUp
    <2>2. K <= Len(transcript)
      BY <1>1
    <2> QED
      BY <1>1, <2>1, <2>2 DEF InOrder
  <1>4. CASE BeginSync
    <2>1. Done' = Done /\ UNCHANGED <<transcript, index, intents>> /\ (CaughtUp' => CaughtUp)
      BY <1>0, <1>4, DoneSteps DEF BeginSync, CaughtUp, hermes
    <2> QED
      BY <1>1, <2>1 DEF InOrder
  <1>5. ASSUME pc # "idle"
        PROVE  /\ \A i \in MissingAt(call) : i \in 1 .. Done /\ i > K
               /\ K < Done => K + 1 \in MissingAt(call)
               /\ Absent(call) = {}
               /\ call.turn = transcript[Done + 1] /\ call.turn \in Text
               /\ \A i \in 1 .. Done : Prior(call)[i] = transcript[i] /\ Prior(call)[i] \in Text
    <2>1. /\ Done + 1 \in 1 .. Len(transcript)
          /\ call \in Call /\ call.turn = transcript[Done + 1] /\ call.turn \in Text
          /\ Len(call.messages) = Done + 1
          /\ \A i \in 1 .. Done + 1 : call.messages[i] = transcript[i]
          /\ Len(Prior(call)) = Done
          /\ \A i \in 1 .. Done : Prior(call)[i] = transcript[i] /\ Prior(call)[i] \in Text
      BY <1>0, <1>5, RunningCall
    <2>2. \A n \in 1 .. K : n \in 1 .. Done /\ n \in 1 .. Done + 1
      BY <1>1
    <2>3. \A n \in 1 .. K : index[n].text = Prior(call)[n] /\ index[n].text = call.messages[n]
      BY <1>1, <2>1, <2>2
    <2>4. K <= Len(call.messages)
      BY <1>1, <2>1
    <2> QED
      BY <1>0, <1>1, <2>1, <2>3, <2>4, MissingIsNext, NoneAbsent
  <1>6. ASSUME NEW t \in Text, EnqueueTurn(t), t = transcript[K + 1]
        PROVE  /\ Len(index') = K + 1
               /\ \A n \in 1 .. Len(index') : index'[n].text = transcript[n]
    <2>1. /\ Len(index') = K + 1 /\ \A n \in 1 .. K : index'[n] = index[n]
          /\ index'[K + 1] = [text |-> t, revision |-> 0, queued |-> TRUE]
      BY <1>0, <1>6, Appended
    <2>2. index'[K + 1].text = t
      BY <2>1
    <2>3. \A n \in 1 .. K + 1 : n \in 1 .. K \/ n = K + 1
      BY <1>1
    <2> QED
      BY <1>1, <1>6, <2>1, <2>2, <2>3
  <1>7. CASE Backfill
    <2>1. pc = "backfill" /\ UNCHANGED <<pc, transcript, intents>> /\ Done' = Done
      BY <1>0, <1>7, DoneSteps DEF Backfill, hermes, sync
    <2>2. PICK i \in MissingAt(call) :
             (\A j \in MissingAt(call) : i <= j) /\ EnqueueTurn(Prior(call)[i])
      BY <1>7 DEF Backfill
    <2>3. i \in 1 .. Done /\ i > K
      BY <1>5, <2>1, <2>2
    <2>4. K < Done /\ i = K + 1
      BY <1>1, <1>5, <2>1, <2>2, <2>3
    <2>5. Prior(call)[i] = transcript[K + 1] /\ Prior(call)[i] \in Text
      BY <1>5, <2>1, <2>3, <2>4
    <2>6. Len(index') = K + 1 /\ \A n \in 1 .. Len(index') : index'[n].text = transcript[n]
      BY <1>6, <2>2, <2>5
    <2>7. Len(index') <= Done
      BY <1>1, <2>4, <2>6
    <2> QED
      BY <1>1, <2>1, <2>6, <2>7 DEF InOrder, CaughtUp
  <1>8. CASE BackfillDone
    <2>1. /\ pc = "backfill" /\ UNCHANGED <<transcript, index, intents>> /\ Done' = Done
          /\ MissingAt(call) = {}
      BY <1>0, <1>8, DoneSteps DEF BackfillDone, hermes
    <2>2. K = Done
      BY <1>1, <1>5, <2>1
    <2> QED
      BY <1>1, <2>1, <2>2 DEF InOrder
  <1>9. CASE Plan
    <2>1. pc = "plan" /\ UNCHANGED <<transcript, index>> /\ Done' = Done /\ CaughtUp
          /\ intents' = Planned(Absent(call))
      BY <1>0, <1>9, DoneSteps DEF Plan, hermes, CaughtUp
    <2>2. intents' = {}
      BY <1>5, <2>1 DEF Planned
    <2> QED
      BY <1>1, <2>1, <2>2 DEF InOrder
  <1>10. CASE CorrectDone \/ ClearRequired
    <2>1. CaughtUp /\ UNCHANGED <<transcript, index, intents>> /\ Done' = Done
      BY <1>0, <1>10, DoneSteps DEF CorrectDone, ClearRequired, hermes, CaughtUp
    <2> QED
      BY <1>1, <2>1 DEF InOrder
  <1>11. CASE Correct \/ CorrectConflict
    BY <1>1, <1>11 DEF Correct, CorrectConflict
  <1>12. CASE Capture
    <2>1. pc = "capture" /\ CaughtUp /\ transcript' = transcript /\ Done' = Done + 1
          /\ intents' = {} /\ EnqueueTurn(call.turn)
      BY <1>0, <1>12, DoneSteps DEF Capture, EndSync, hermes, CaughtUp
    <2>2. K = Done /\ call.turn = transcript[K + 1] /\ call.turn \in Text
      BY <1>1, <1>5, <2>1
    <2>3. Len(index') = K + 1 /\ \A n \in 1 .. Len(index') : index'[n].text = transcript[n]
      BY <1>6, <2>1, <2>2
    <2>4. Len(index') = Done' /\ Len(index') <= Done'
      BY <1>1, <2>1, <2>2, <2>3
    <2> QED
      BY <2>1, <2>3, <2>4 DEF InOrder
  <1>13. ASSUME NEW n \in DOMAIN index, RecordRevision(n) \/ ArchiveCapture(n)
         PROVE  InOrder'
    <2>1. n \in 1 .. K
      BY <1>0, <1>13, TypedSession
    <2>2. /\ Len(index') = K /\ \A m \in 1 .. K : index'[m].text = index[m].text
          /\ UNCHANGED <<hermes, jobs, mark, corrections, sync>>
      BY <1>0, <1>13, <2>1, Delivered
    <2>3. Done' = Done /\ transcript' = transcript /\ intents' = intents /\ (CaughtUp' => CaughtUp)
      BY <2>2 DEF hermes, sync, CaughtUp, Done
    <2> QED
      BY <1>1, <2>2, <2>3 DEF InOrder
  <1>14. CASE UNCHANGED vars
    <2>1. /\ UNCHANGED <<transcript, index, intents>> /\ Done' = Done /\ (CaughtUp' => CaughtUp)
      BY <1>14 DEF vars, hermes, sync, CaughtUp, Done
    <2> QED
      BY <1>1, <2>1 DEF InOrder
  <1>15. InOrder'
    <2>1. SyncStep => InOrder'
      BY <1>4, <1>7, <1>8, <1>9, <1>10, <1>11, <1>12 DEF SyncStep, InOrder
    <2>2. (\E n \in DOMAIN index : RecordRevision(n) \/ ArchiveCapture(n)) => InOrder'
      BY <1>13
    <2>3. (\E t \in Text : CompleteTurn(t)) => InOrder'
      BY <1>2
    <2> QED
      BY <1>0, <1>3, <1>14, <2>1, <2>2, <2>3 DEF Next, InOrder
  <1> QED
    BY <1>15 DEF InOrder

\* However often the provider dies with syncs under way, and however often
\* words repeat, a settled session that was never switched has every completed
\* turn once and in order (runtime.py:599-608, outbox.py:532).
THEOREM CapturedInOrderHolds == Spec => []CapturedInOrder
  <1>1. Init => InOrder
    <2> SUFFICES ASSUME Init PROVE InOrder
      OBVIOUS
    <2>1. Len(<<>>) = 0
      BY EmptySeq
    <2> QED
      BY <2>1 DEF Init, InOrder, CaughtUp, Done
  <1>2. BaseIInv /\ InOrder /\ [Next]_vars => InOrder'
    BY InOrderKept
  <1>3. BaseIInv /\ InOrder => CapturedInOrder
    <2> SUFFICES ASSUME BaseIInv, InOrder, Settled, switches = 0
                 PROVE  Texts = transcript
      BY DEF CapturedInOrder
    <2>1. /\ TypeOK /\ Len(transcript) \in Nat /\ DOMAIN index = 1 .. Len(index)
          /\ transcript \in [1 .. Len(transcript) -> Text]
      BY TypedSession, LenProperties DEF BaseIInv, TypeOK
    <2>2. pc = "idle" /\ Len(jobs) = 0 /\ CaughtUp
      BY EmptySeq DEF Settled, CaughtUp
    <2>3. Done = Len(transcript)
      BY <2>1, <2>2 DEF Done
    <2>4. Len(index) = Len(transcript) /\ \A n \in 1 .. Len(index) : index[n].text = transcript[n]
      BY <2>2, <2>3 DEF InOrder
    <2> QED
      BY <2>1, <2>4 DEF Texts
  <1> QED
    BY <1>1, <1>2, <1>3, BaseInductive, PTL DEF Spec

-----------------------------------------------------------------------------
(* What may be marked stale. *)

\* Every call was made with the transcript as its turn ended it.
WellFormed(c) == c.messages # <<>> /\ c.messages[Len(c.messages)] = c.turn

\* Words no rewind has touched are counted on from call to call: the index has
\* no more of them than the turns before any call still to be synced, and each
\* call no more than the next ones and the transcript.
Ordered(t) ==
    /\ Count(Texts, t) <= Count(transcript, t)
    /\ \A j \in 1 .. Len(jobs) :
          /\ Count(Texts, t) <= Count(Prior(jobs[j]), t)
          /\ Count(jobs[j].messages, t) <= Count(transcript, t)
          /\ \A i \in 1 .. Len(jobs) :
                i < j => Count(jobs[i].messages, t) <= Count(Prior(jobs[j]), t)
    /\ pc # "idle" =>
          /\ Count(Texts, t) <= Count(Prior(call), t)
          /\ Count(call.messages, t) <= Count(transcript, t)
          /\ \A j \in 1 .. Len(jobs) : Count(call.messages, t) <= Count(Prior(jobs[j]), t)

CallsFormed ==
    /\ \A j \in 1 .. Len(jobs) : WellFormed(jobs[j])
    /\ pc # "idle" => WellFormed(call)

StandingIInv ==
    /\ CallsFormed
    /\ \A t \in Text \ lost : Ordered(t)
    /\ \A it \in corrections \cup intents : index[it.record].text \in lost

LEMMA CountStep ==
  ASSUME NEW s, NEW n \in Nat, NEW t
  PROVE  CountUpTo(s, n + 1, t) = CountUpTo(s, n, t) + (IF s[n + 1] = t THEN 1 ELSE 0)
  <1>1. CASE s[n + 1] = t
    BY <1>1, CountOneMore
  <1>2. CASE s[n + 1] # t
    <2>1. Where(s, n + 1, t) = Where(s, n, t)
      BY <1>2 DEF Where
    <2>2. CountUpTo(s, n + 1, t) = CountUpTo(s, n, t) /\ CountUpTo(s, n, t) \in Nat
      BY <2>1, CountIsCardinality
    <2> QED
      BY <1>2, <2>2
  <1> QED
    BY <1>1, <1>2

LEMMA CountSame ==
  ASSUME NEW r, NEW s, NEW n \in Nat, NEW t, \A i \in 1 .. n : r[i] = s[i]
  PROVE  CountUpTo(r, n, t) = CountUpTo(s, n, t)
  <1>1. Where(r, n, t) = Where(s, n, t)
    BY DEF Where
  <1> QED
    BY <1>1, CountIsCardinality

LEMMA CountAppended ==
  ASSUME NEW S, NEW s \in Seq(S), NEW x \in S, NEW t
  PROVE  /\ Count(s, t) \in Nat
         /\ Count(Append(s, x), t) = Count(s, t) + (IF x = t THEN 1 ELSE 0)
  <1> DEFINE longer == Append(s, x)
  <1>1. /\ Len(s) \in Nat /\ Len(longer) = Len(s) + 1
        /\ \A i \in 1 .. Len(s) : longer[i] = s[i]
        /\ longer[Len(s) + 1] = x
    BY AppendProperties, LengthIsNat
  <1> HIDE DEF longer
  <1>2. CountUpTo(longer, Len(s) + 1, t) = CountUpTo(longer, Len(s), t) + (IF x = t THEN 1 ELSE 0)
    BY <1>1, CountStep
  <1>3. CountUpTo(longer, Len(s), t) = CountUpTo(s, Len(s), t) /\ CountUpTo(s, Len(s), t) \in Nat
    BY <1>1, CountSame, CountIsCardinality
  <1>4. Count(longer, t) = Count(s, t) + (IF x = t THEN 1 ELSE 0) /\ Count(s, t) \in Nat
    BY <1>1, <1>2, <1>3 DEF Count
  <1> QED
    BY <1>4 DEF longer

LEMMA CountPrefix ==
  ASSUME NEW S, NEW s \in Seq(S), NEW k \in 0 .. Len(s), NEW t
  PROVE  /\ Count(SubSeq(s, 1, k), t) = CountUpTo(s, k, t)
         /\ Count(SubSeq(s, 1, k), t) <= Count(s, t)
         /\ Count(SubSeq(s, 1, k), t) \in Nat /\ Count(s, t) \in Nat
         /\ (\A i \in k + 1 .. Len(s) : s[i] # t) => Count(SubSeq(s, 1, k), t) = Count(s, t)
  <1> DEFINE p == SubSeq(s, 1, k)
  <1>1. Len(s) \in Nat /\ k \in Nat /\ Len(p) = k /\ \A i \in 1 .. k : p[i] = s[i]
    BY PrefixIs, LengthIsNat
  <1> HIDE DEF p
  <1>2. Count(p, t) = CountUpTo(s, k, t) /\ CountUpTo(s, k, t) \in Nat /\ Count(s, t) \in Nat
    BY <1>1, CountSame, CountIsCardinality DEF Count
  <1>3. Where(s, k, t) \subseteq Where(s, Len(s), t)
    BY <1>1 DEF Where
  <1>4. CountUpTo(s, k, t) <= Count(s, t)
    BY <1>1, <1>3, CountMonotonic DEF Count
  <1>5. ASSUME \A i \in k + 1 .. Len(s) : s[i] # t
        PROVE  CountUpTo(s, k, t) = Count(s, t)
    <2>1. Where(s, k, t) = Where(s, Len(s), t)
      BY <1>1, <1>5 DEF Where
    <2> QED
      BY <1>1, <2>1, CountIsCardinality DEF Count
  <1> QED
    BY <1>2, <1>4, <1>5 DEF p

\* The turns before the current one, and the current one.
LEMMA PriorCount ==
  ASSUME NEW c \in Call, NEW t
  PROVE  /\ Count(Prior(c), t) <= Count(c.messages, t)
         /\ Count(Prior(c), t) \in Nat /\ Count(c.messages, t) \in Nat
         /\ WellFormed(c) => Count(c.messages, t) =
                                Count(Prior(c), t) + (IF c.turn = t THEN 1 ELSE 0)
  <1> DEFINE m == c.messages
  <1> DEFINE k == Len(m) - 1
  <1>1. m \in Seq(Text) /\ Len(m) \in Nat
    BY PriorTyped
  <1>2. Count(m, t) \in Nat
    BY <1>1, CountIsCardinality DEF Count
  <1>3. CASE m # <<>> /\ m[Len(m)] = c.turn
    <2>1. k \in 0 .. Len(m) /\ k \in Nat /\ k + 1 = Len(m) /\ Prior(c) = SubSeq(m, 1, k)
      BY <1>1, <1>3, EmptySeq DEF Prior
    <2> HIDE DEF k, m
    <2>2. /\ Count(Prior(c), t) = CountUpTo(m, k, t) /\ Count(Prior(c), t) \in Nat
          /\ Count(Prior(c), t) <= Count(m, t)
      BY <1>1, <2>1, CountPrefix
    <2>3. Count(m, t) = CountUpTo(m, k, t) + (IF c.turn = t THEN 1 ELSE 0)
      BY <1>3, <2>1, CountStep DEF Count
    <2> QED
      BY <1>2, <2>2, <2>3 DEF m
  <1>4. CASE ~(m # <<>> /\ m[Len(m)] = c.turn)
    <2>1. Prior(c) = m
      BY <1>4 DEF Prior
    <2> QED
      BY <1>2, <1>4, <2>1 DEF WellFormed
  <1> QED
    BY <1>3, <1>4

\* One more record of its text in the index, and none of any other.
LEMMA TextsAppended ==
  ASSUME TypeOK, NEW x \in Text, EnqueueTurn(x), NEW t
  PROVE  /\ Count(Texts, t) \in Nat
         /\ Count(Texts', t) = Count(Texts, t) + (IF x = t THEN 1 ELSE 0)
  <1> DEFINE K == Len(index)
  <1>1. /\ K \in Nat /\ index' \in Seq(Record) /\ Len(index') = K + 1
        /\ \A n \in 1 .. K : index'[n] = index[n]
        /\ index'[K + 1].text = x
    <2>1. index'[K + 1] = [text |-> x, revision |-> 0, queued |-> TRUE]
      BY Appended
    <2> QED
      BY <2>1, TypedSession, Appended
  <1>2. Len(Texts) = K /\ \A n \in 1 .. K : Texts[n] = index[n].text
    BY TextsIs
  <1>3. DOMAIN index' = 1 .. K + 1
    BY <1>1, LengthIsNat
  <1>4. Texts' \in Seq(Text) /\ Texts' = [n \in 1 .. K + 1 |-> index'[n].text]
    <2>1. \A n \in 1 .. K + 1 : index'[n] \in Record
      BY <1>1, LengthIsNat
    <2>2. Texts' = [n \in 1 .. K + 1 |-> index'[n].text]
      BY <1>3 DEF Texts
    <2>3. Texts' \in [1 .. K + 1 -> Text]
      BY <2>1, <2>2 DEF Record
    <2> QED
      BY <1>1, <2>2, <2>3, SeqDef
  <1>5. Len(Texts') = K + 1
    <2>1. DOMAIN Texts' = 1 .. Len(Texts') /\ Len(Texts') \in Nat
      BY <1>4, LengthIsNat
    <2> QED
      BY <1>1, <1>4, <2>1, SameLength
  <1>6. \A n \in 1 .. K : Texts'[n] = Texts[n]
    BY <1>1, <1>2, <1>4
  <1>7. Texts'[K + 1] = x
    BY <1>1, <1>4
  <1> HIDE DEF K
  <1>8. CountUpTo(Texts', K + 1, t) = CountUpTo(Texts', K, t) + (IF x = t THEN 1 ELSE 0)
    BY <1>1, <1>7, CountStep
  <1>9. CountUpTo(Texts', K, t) = CountUpTo(Texts, K, t) /\ CountUpTo(Texts, K, t) \in Nat
    BY <1>1, <1>6, CountSame, CountIsCardinality
  <1> QED
    BY <1>2, <1>5, <1>8, <1>9 DEF Count

\* What may happen to the counts of words no rewind has touched.
LEMMA OrderedSame ==
  ASSUME NEW t, Ordered(t), UNCHANGED <<transcript, jobs>>,
         UNCHANGED <<pc, call>> \/ (pc # "idle" /\ call' = call) \/ pc' = "idle",
         Count(Texts', t) = Count(Texts, t)
  PROVE  Ordered(t)'
  BY DEF Ordered, Prior

LEMMA CompleteStanding ==
  ASSUME TypeOK, CallsFormed, NEW x \in Text, CompleteTurn(x)
  PROVE  /\ CallsFormed'
         /\ \A t \in Text : Ordered(t) => Ordered(t)'
  <1> DEFINE J == Len(jobs)
  <1> DEFINE new == [turn |-> x, messages |-> transcript']
  <1>0. /\ transcript \in Seq(Text) /\ jobs \in Seq(Call) /\ J \in Nat
        /\ Len(transcript) \in Nat
    BY TypedSession DEF TypeOK
  <1>1. /\ transcript' = Append(transcript, x) /\ jobs' = Append(jobs, new)
        /\ UNCHANGED <<pc, call, index>>
    BY DEF CompleteTurn, sync
  <1>2. /\ transcript' \in Seq(Text) /\ Len(transcript') = Len(transcript) + 1
        /\ transcript'[Len(transcript) + 1] = x
    BY <1>0, <1>1, AppendProperties
  <1>3. new \in Call /\ new.turn = x /\ new.messages = transcript'
    BY <1>2 DEF Call
  <1> HIDE DEF new
  <1>4. /\ Len(jobs') = J + 1 /\ jobs'[J + 1] = new
        /\ \A j \in 1 .. J : jobs'[j] = jobs[j] /\ jobs[j] \in Call
    BY <1>0, <1>1, <1>3, AppendProperties, LengthIsNat
  <1>5. WellFormed(new)
    BY <1>0, <1>2, <1>3, EmptySeq DEF WellFormed
  <1>6. \A j \in 1 .. J + 1 : j \in 1 .. J \/ j = J + 1
    BY <1>0
  <1>7. CallsFormed'
    BY <1>1, <1>4, <1>5, <1>6 DEF CallsFormed, WellFormed
  <1>8. ASSUME NEW t \in Text, Ordered(t)
        PROVE  Ordered(t)'
    <2>1. /\ Count(transcript, t) \in Nat
          /\ Count(transcript', t) = Count(transcript, t) + (IF x = t THEN 1 ELSE 0)
      BY <1>0, <1>1, CountAppended
    <2>2. Count(new.messages, t) = Count(transcript', t) /\ Count(Prior(new), t) = Count(transcript, t)
      BY <1>3, <1>5, <2>1, PriorCount
    <2>3. /\ Count(Texts, t) \in Nat
          /\ pc # "idle" => Count(call.messages, t) \in Nat
          /\ \A j \in 1 .. J : Count(jobs[j].messages, t) \in Nat
      <3>1. Count(Texts, t) \in Nat
        BY TextsIs, TypedSession, CountIsCardinality DEF Count
      <3>2. pc # "idle" => call \in Call
        BY DEF TypeOK
      <3> QED
        BY <1>4, <3>1, <3>2, PriorCount
    <2>4. Texts' = Texts
      BY <1>1 DEF Texts
    <2>5. Count(transcript, t) <= Count(transcript', t) /\ Count(transcript', t) \in Nat
      BY <2>1
    <2>6. Count(Texts', t) <= Count(transcript', t)
      BY <1>8, <2>1, <2>3, <2>4, <2>5 DEF Ordered
    <2>7. ASSUME NEW j \in 1 .. J + 1
          PROVE  /\ Count(Texts', t) <= Count(Prior(jobs'[j]), t)
                 /\ Count(jobs'[j].messages, t) <= Count(transcript', t)
                 /\ \A i \in 1 .. J + 1 :
                       i < j => Count(jobs'[i].messages, t) <= Count(Prior(jobs'[j]), t)
                 /\ pc # "idle" => Count(call.messages, t) <= Count(Prior(jobs'[j]), t)
      <3>1. CASE j \in 1 .. J
        <4>1. \A i \in 1 .. J + 1 : i < j => i \in 1 .. J
          BY <1>0, <3>1
        <4>2. Count(jobs[j].messages, t) <= Count(transcript', t)
          BY <1>8, <2>1, <2>3, <2>5, <3>1 DEF Ordered
        <4> QED
          BY <1>4, <1>8, <2>4, <3>1, <4>1, <4>2 DEF Ordered
      <3>2. CASE j = J + 1
        <4>1. \A i \in 1 .. J + 1 : i < j => i \in 1 .. J
          BY <1>0, <3>2
        <4>2. jobs'[j] = new
          BY <1>4, <3>2
        <4> QED
          BY <1>4, <1>8, <2>2, <2>4, <2>5, <4>1, <4>2 DEF Ordered
      <3> QED
        BY <1>6, <3>1, <3>2
    <2>8. pc' # "idle" =>
             /\ Count(Texts', t) <= Count(Prior(call'), t)
             /\ Count(call'.messages, t) <= Count(transcript', t)
      BY <1>1, <1>8, <2>1, <2>3, <2>4, <2>5 DEF Ordered
    <2> QED
      BY <1>1, <1>4, <1>8, <2>6, <2>7, <2>8 DEF Ordered, Prior
  <1> QED
    BY <1>7, <1>8

\* A rewind keeps every saying of the words it does not discard.
LEMMA SwitchStanding ==
  ASSUME TypeOK, NEW n \in 0 .. Len(transcript), Switch(n)
  PROVE  \A t \in Text \ lost' : Ordered(t) => Ordered(t)'
  <1>0. transcript \in Seq(Text) /\ Len(transcript) \in Nat
    BY TypedSession DEF TypeOK
  <1>1. /\ transcript' = SubSeq(transcript, 1, n) /\ lost' = lost \cup DiscardedAfter(n)
        /\ UNCHANGED <<jobs, pc, call, index>>
    BY DEF Switch, sync
  <1> SUFFICES ASSUME NEW t \in Text \ lost', Ordered(t) PROVE Ordered(t)'
    OBVIOUS
  <1>2. \A i \in n + 1 .. Len(transcript) : transcript[i] # t
    BY <1>1 DEF DiscardedAfter
  <1>3. Count(transcript', t) = Count(transcript, t)
    BY <1>0, <1>1, <1>2, CountPrefix
  <1>4. Texts' = Texts
    BY <1>1 DEF Texts
  <1> QED
    BY <1>1, <1>3, <1>4 DEF Ordered, Prior

LEMMA BeginStanding ==
  ASSUME TypeOK, CallsFormed, BeginSync
  PROVE  /\ CallsFormed'
         /\ \A t \in Text : Ordered(t) => Ordered(t)'
  <1> DEFINE J == Len(jobs)
  <1>1. /\ pc = "idle" /\ jobs # <<>> /\ call' = Head(jobs) /\ jobs' = Tail(jobs)
        /\ pc' # "idle" /\ UNCHANGED <<transcript, index>> /\ jobs \in Seq(Call)
    BY DEF BeginSync, hermes, TypeOK
  <1>2. /\ J \in Nat \ {0} /\ Len(jobs') = J - 1 /\ call' = jobs[1]
        /\ \A j \in 1 .. Len(jobs') : jobs'[j] = jobs[j + 1]
    BY <1>1, EmptySeq, HeadTailProperties
  <1>3. 1 \in 1 .. J /\ \A j \in 1 .. Len(jobs') : j + 1 \in 1 .. J /\ 1 < j + 1
    BY <1>2
  <1>4. \A i, j \in 1 .. Len(jobs') : i < j => i + 1 < j + 1
    BY <1>2
  <1>5. Texts' = Texts
    BY <1>1 DEF Texts
  <1>6. CallsFormed'
    BY <1>2, <1>3 DEF CallsFormed, WellFormed
  <1>7. ASSUME NEW t \in Text, Ordered(t)
        PROVE  Ordered(t)'
    <2>1. ASSUME NEW j \in 1 .. Len(jobs')
          PROVE  /\ Count(Texts, t) <= Count(Prior(jobs'[j]), t)
                 /\ Count(jobs'[j].messages, t) <= Count(transcript, t)
                 /\ \A i \in 1 .. Len(jobs') :
                       i < j => Count(jobs'[i].messages, t) <= Count(Prior(jobs'[j]), t)
                 /\ Count(call'.messages, t) <= Count(Prior(jobs'[j]), t)
      <3>1. jobs'[j] = jobs[j + 1] /\ j + 1 \in 1 .. J
        BY <1>2, <1>3
      <3>2. \A i \in 1 .. Len(jobs') : i < j => jobs'[i] = jobs[i + 1] /\ i + 1 \in 1 .. J /\ i + 1 < j + 1
        BY <1>2, <1>3, <1>4
      <3> QED
        BY <1>2, <1>3, <1>7, <3>1, <3>2 DEF Ordered
    <2>2. /\ Count(Texts, t) <= Count(Prior(call'), t)
          /\ Count(call'.messages, t) <= Count(transcript, t)
      BY <1>2, <1>3, <1>7 DEF Ordered
    <2> QED
      BY <1>1, <1>5, <1>7, <2>1, <2>2 DEF Ordered, Prior
  <1> QED
    BY <1>6, <1>7

\* A record added for the running call: no more than its messages have.
LEMMA EnqueueStanding ==
  ASSUME TypeOK, NEW x \in Text, EnqueueTurn(x), pc # "idle", UNCHANGED <<transcript, jobs>>,
         NEW t, Ordered(t), x = t => Count(Texts, t) + 1 <= Count(call.messages, t),
         \/ pc' = "idle"
         \/ /\ pc' = pc /\ call' = call
            /\ x = t => Count(Texts, t) + 1 <= Count(Prior(call), t)
  PROVE  Ordered(t)'
  <1>0. /\ Count(Texts, t) \in Nat
        /\ Count(Texts', t) = Count(Texts, t) + (IF x = t THEN 1 ELSE 0)
    BY TextsAppended
  <1>1. /\ call \in Call /\ \A j \in 1 .. Len(jobs) : jobs[j] \in Call
        /\ transcript \in Seq(Text) /\ Len(transcript) \in Nat
    BY TypedSession DEF TypeOK
  <1>2. /\ Count(call.messages, t) \in Nat /\ Count(transcript, t) \in Nat
        /\ Count(Prior(call), t) \in Nat
        /\ \A j \in 1 .. Len(jobs) : Count(Prior(jobs[j]), t) \in Nat
    BY <1>1, PriorCount, CountIsCardinality DEF Count
  <1>3. Count(Texts', t) <= Count(transcript, t)
    BY <1>0, <1>2 DEF Ordered
  <1>4. \A j \in 1 .. Len(jobs) : Count(Texts', t) <= Count(Prior(jobs[j]), t)
    BY <1>0, <1>2 DEF Ordered
  <1>5. pc' # "idle" => Count(Texts', t) <= Count(Prior(call), t)
    BY <1>0, <1>2 DEF Ordered
  <1> QED
    BY <1>3, <1>4, <1>5 DEF Ordered, Prior

\* A record of words that stand is never found absent from the messages.
LEMMA AbsentAreLost ==
  ASSUME TypeOK, pc # "idle", \A t \in Text \ lost : Ordered(t), NEW n \in Absent(call)
  PROVE  n \in 1 .. Len(index) /\ index[n].text \in lost
  <1> DEFINE t == index[n].text
  <1>1. /\ n \in 1 .. Len(index) /\ Len(index) \in Nat /\ t \in Text /\ n \in Nat
        /\ CountUpTo(Texts, n, t) > Count(call.messages, t) /\ call \in Call
    BY TypedSession DEF Absent, Record, TypeOK
  <1> HIDE DEF t
  <1> SUFFICES ASSUME t \notin lost PROVE FALSE
    BY <1>1 DEF t
  <1>2. Where(Texts, n, t) \subseteq Where(Texts, Len(index), t)
    BY <1>1 DEF Where
  <1>3. CountUpTo(Texts, n, t) <= CountUpTo(Texts, Len(index), t)
    BY <1>1, <1>2, CountMonotonic
  <1>4. CountUpTo(Texts, Len(index), t) = Count(Texts, t)
    BY TextsIs DEF Count
  <1>5. Count(Texts, t) <= Count(Prior(call), t)
    BY <1>1 DEF Ordered
  <1>6. /\ Count(Prior(call), t) <= Count(call.messages, t)
        /\ Count(Prior(call), t) \in Nat /\ Count(call.messages, t) \in Nat
    BY <1>1, PriorCount
  <1>7. CountUpTo(Texts, n, t) \in Nat /\ CountUpTo(Texts, Len(index), t) \in Nat
    BY <1>1, CountIsCardinality
  <1> QED
    BY <1>1, <1>3, <1>4, <1>5, <1>6, <1>7

\* A record keeps its text, and what was lost stays lost.
LEMMA TextsStay ==
  ASSUME TypeOK, [Next]_vars
  PROVE  /\ lost \subseteq lost'
         /\ \A n \in 1 .. Len(index) : index'[n].text = index[n].text
  <1>1. CASE Backfill
    <2>1. PICK i \in MissingAt(call) : EnqueueTurn(Prior(call)[i])
      BY <1>1 DEF Backfill
    <2>2. call \in Call /\ lost' = lost
      BY <1>1 DEF Backfill, TypeOK, hermes
    <2>3. Prior(call)[i] \in Text
      BY <2>2, PriorTyped DEF MissingAt
    <2> QED
      BY <2>1, <2>2, <2>3, Appended
  <1>2. CASE Capture
    <2>1. call \in Call /\ lost' = lost /\ EnqueueTurn(call.turn)
      BY <1>2 DEF Capture, TypeOK, hermes
    <2>2. call.turn \in Text
      BY <2>1, PriorTyped
    <2> QED
      BY <2>1, <2>2, Appended
  <1>3. CASE \E n \in DOMAIN index : RecordRevision(n) \/ ArchiveCapture(n)
    BY <1>3, TypedSession, Delivered DEF hermes
  <1>4. CASE \E n \in 0 .. Len(transcript) : Switch(n)
    BY <1>4 DEF Switch
  <1>5. CASE \E t \in Text : CompleteTurn(t)
    BY <1>5 DEF CompleteTurn
  <1>6. CASE Restart
    BY <1>6 DEF Restart
  <1>7. CASE BeginSync \/ BackfillDone \/ Plan \/ Correct \/ CorrectConflict \/ CorrectDone
               \/ ClearRequired
    BY <1>7 DEF BeginSync, BackfillDone, Plan, Correct, CorrectConflict, CorrectDone,
                ClearRequired, hermes
  <1>8. CASE UNCHANGED vars
    BY <1>8 DEF vars, hermes
  <1> QED
    BY <1>1, <1>2, <1>3, <1>4, <1>5, <1>6, <1>7, <1>8 DEF Next, SyncStep

LEMMA CallsFormedKept ==
  ASSUME TypeOK, CallsFormed, [Next]_vars
  PROVE  CallsFormed'
  <1>1. CASE \E t \in Text : CompleteTurn(t)
    BY <1>1, CompleteStanding
  <1>2. CASE BeginSync
    BY <1>2, BeginStanding
  <1>3. CASE Restart
    <2>1. Len(jobs') = 0 /\ pc' = "idle"
      BY <1>3, EmptySeq DEF Restart
    <2> QED
      BY <2>1 DEF CallsFormed
  <1>4. ASSUME jobs' = jobs, (pc' # "idle" => pc # "idle" /\ call' = call)
        PROVE  CallsFormed'
    BY <1>4 DEF CallsFormed, WellFormed
  <1>5. CASE \E n \in 0 .. Len(transcript) : Switch(n)
    BY <1>4, <1>5 DEF Switch, sync
  <1>6. CASE SyncStep /\ ~BeginSync
    BY <1>4, <1>6 DEF SyncStep, Backfill, BackfillDone, Plan, Correct, CorrectConflict,
                      CorrectDone, ClearRequired, Capture, EndSync, sync
  <1>7. CASE \E n \in DOMAIN index : RecordRevision(n) \/ ArchiveCapture(n)
    BY <1>4, <1>7 DEF RecordRevision, ArchiveCapture, sync
  <1>8. CASE UNCHANGED vars
    BY <1>4, <1>8 DEF vars, sync
  <1> QED
    BY <1>1, <1>2, <1>3, <1>5, <1>6, <1>7, <1>8 DEF Next

\* A turn is captured late only if the messages have it once more than the index.
LEMMA BackfillStanding ==
  ASSUME TypeOK, Backfill, NEW t, Ordered(t)
  PROVE  Ordered(t)'
  <1>1. PICK i \in MissingAt(call) : EnqueueTurn(Prior(call)[i])
    BY DEF Backfill
  <1>2. pc = "backfill" /\ pc' = pc /\ call' = call /\ UNCHANGED <<transcript, jobs>> /\ call \in Call
    BY DEF Backfill, hermes, sync, TypeOK
  <1> DEFINE p == Prior(call)
  <1> DEFINE x == p[i]
  <1>3. /\ i \in 1 .. Len(p) /\ x \in Text /\ Len(p) \in Nat
        /\ CountUpTo(p, i, x) > Count(Texts, x)
    BY <1>1, <1>2, PriorTyped DEF MissingAt
  <1>4. x = t => Count(Texts, t) + 1 <= Count(p, t)
    <2> HIDE DEF p
    <2>1. Where(p, i, t) \subseteq Where(p, Len(p), t) /\ i \in Nat
      BY <1>3 DEF Where
    <2>2. CountUpTo(p, i, t) <= Count(p, t)
      BY <1>3, <2>1, CountMonotonic DEF Count
    <2>3. CountUpTo(p, i, t) \in Nat /\ Count(p, t) \in Nat /\ Count(Texts, t) \in Nat
      <3>1. Len(Texts) \in Nat
        BY TextsIs, TypedSession
      <3> QED
        BY <1>3, <2>1, <3>1, CountIsCardinality DEF Count
    <2> HIDE DEF x
    <2> QED
      BY <1>3, <2>2, <2>3
  <1>5. /\ Count(p, t) <= Count(call.messages, t) /\ Count(p, t) \in Nat
        /\ Count(call.messages, t) \in Nat /\ Count(Texts, t) \in Nat
    BY <1>2, <1>3, PriorCount, TextsAppended, <1>1
  <1>6. x = t => Count(Texts, t) + 1 <= Count(call.messages, t)
    BY <1>4, <1>5
  <1> QED
    BY <1>1, <1>2, <1>3, <1>4, <1>6, EnqueueStanding

\* The turn of the call is one more than what came before it.
LEMMA CaptureStanding ==
  ASSUME TypeOK, CallsFormed, Capture, NEW t, Ordered(t)
  PROVE  Ordered(t)'
  <1>1. /\ pc = "capture" /\ pc' = "idle" /\ UNCHANGED <<transcript, jobs>>
        /\ EnqueueTurn(call.turn) /\ call \in Call
    BY DEF Capture, EndSync, hermes, TypeOK
  <1>2. call.turn \in Text /\ WellFormed(call)
    BY <1>1, PriorTyped DEF CallsFormed
  <1>3. Count(Texts, t) \in Nat /\ Count(Texts, t) <= Count(Prior(call), t)
    BY <1>1, <1>2, TextsAppended DEF Ordered
  <1>4. /\ Count(Prior(call), t) \in Nat
        /\ call.turn = t => Count(call.messages, t) = Count(Prior(call), t) + 1
    BY <1>1, <1>2, PriorCount
  <1>5. call.turn = t => Count(Texts, t) + 1 <= Count(call.messages, t)
    BY <1>3, <1>4
  <1> QED
    BY <1>1, <1>2, <1>5, EnqueueStanding

LEMMA OrderedKept ==
  ASSUME TypeOK, CallsFormed, \A t \in Text \ lost : Ordered(t), [Next]_vars
  PROVE  \A t \in Text \ lost' : Ordered(t)'
  <1>0. \A t \in Text \ lost' : t \in Text /\ Ordered(t)
    BY TextsStay
  <1>1. CASE \E t \in Text : CompleteTurn(t)
    BY <1>0, <1>1, CompleteStanding
  <1>2. CASE \E n \in 0 .. Len(transcript) : Switch(n)
    BY <1>0, <1>2, SwitchStanding
  <1>3. CASE Restart
    <2>1. Len(jobs') = 0 /\ pc' = "idle" /\ UNCHANGED <<transcript, index>>
      BY <1>3, EmptySeq DEF Restart
    <2>2. Texts' = Texts
      BY <2>1 DEF Texts
    <2> QED
      BY <1>0, <2>1, <2>2 DEF Ordered
  <1>4. CASE BeginSync
    BY <1>0, <1>4, BeginStanding
  <1>5. CASE Backfill
    BY <1>0, <1>5, BackfillStanding
  <1>6. CASE Capture
    BY <1>0, <1>6, CaptureStanding
  <1>7. ASSUME UNCHANGED <<transcript, jobs, index>>,
               UNCHANGED <<pc, call>> \/ (pc # "idle" /\ call' = call) \/ pc' = "idle"
        PROVE  \A t \in Text \ lost' : Ordered(t)'
    <2>1. Texts' = Texts
      BY <1>7 DEF Texts
    <2> QED
      BY <1>0, <1>7, <2>1, OrderedSame
  <1>8. CASE BackfillDone \/ Plan \/ Correct \/ CorrectConflict \/ CorrectDone \/ ClearRequired
    BY <1>7, <1>8 DEF BackfillDone, Plan, Correct, CorrectConflict, CorrectDone, ClearRequired,
                      EndSync, hermes
  <1>9. CASE \E n \in DOMAIN index : RecordRevision(n) \/ ArchiveCapture(n)
    <2>1. PICK n \in 1 .. Len(index) : RecordRevision(n) \/ ArchiveCapture(n)
      BY <1>9, TypedSession
    <2>2. /\ index' \in Seq(Record) /\ Len(index') = Len(index)
          /\ UNCHANGED <<transcript, jobs, pc, call>>
      BY <2>1, Delivered DEF hermes, sync
    <2>3. DOMAIN index' = DOMAIN index /\ DOMAIN index = 1 .. Len(index)
      BY <2>2, LengthIsNat, TypedSession
    <2>4. Texts' = Texts
      BY <2>3, TextsStay DEF Texts
    <2> QED
      BY <1>0, <2>2, <2>4, OrderedSame
  <1>10. CASE UNCHANGED vars
    BY <1>7, <1>10 DEF vars, hermes, sync
  <1> QED
    BY <1>1, <1>2, <1>3, <1>4, <1>5, <1>6, <1>8, <1>9, <1>10 DEF Next, SyncStep

\* A correction is about a record found absent, whose words are lost.
LEMMA MarksKept ==
  ASSUME BaseIInv, StandingIInv, [Next]_vars
  PROVE  \A it \in corrections' \cup intents' : index'[it.record].text \in lost'
  <1>0. TypeOK /\ \A it \in corrections \cup intents : it.record \in 1 .. Len(index)
    BY DEF BaseIInv, Guarded
  <1>1. \A it \in corrections \cup intents : index'[it.record].text \in lost'
    BY <1>0, TextsStay DEF StandingIInv
  <1>2. CASE Plan
    <2>1. /\ corrections' = corrections /\ intents' = Planned(Absent(call)) /\ pc # "idle"
      BY <1>2 DEF Plan
    <2>2. \A n \in Absent(call) : n \in 1 .. Len(index) /\ index[n].text \in lost
      BY <1>0, <2>1, AbsentAreLost DEF StandingIInv
    <2>3. \A n \in Absent(call) : index'[n].text \in lost'
      BY <1>0, <2>2, TextsStay
    <2>4. \A it \in intents' : it.record \in Absent(call)
      BY <2>1 DEF Planned
    <2> QED
      BY <1>1, <2>1, <2>3, <2>4
  <1>3. CASE corrections' \cup intents' \subseteq corrections \cup intents
    BY <1>1, <1>3
  <1>4. CASE SyncStep /\ ~Plan
    BY <1>3, <1>4 DEF SyncStep, BeginSync, Backfill, BackfillDone, Correct, CorrectConflict,
                      CorrectDone, ClearRequired, Capture, EndSync, sync
  <1>5. CASE \E n \in DOMAIN index : RecordRevision(n) \/ ArchiveCapture(n)
    BY <1>3, <1>5 DEF RecordRevision, ArchiveCapture, sync
  <1>6. CASE \/ \E t \in Text : CompleteTurn(t)
             \/ \E n \in 0 .. Len(transcript) : Switch(n)
             \/ Restart
             \/ UNCHANGED vars
    BY <1>3, <1>6 DEF CompleteTurn, Switch, Restart, vars, sync
  <1> QED
    BY <1>2, <1>4, <1>5, <1>6 DEF Next

\* For words no rewind has discarded a saying of, the index never runs ahead of
\* any call that is still to be synced, so no record of theirs is marked stale.
THEOREM StandingInductive == Spec => []StandingIInv
  <1>1. Init => StandingIInv
    <2> SUFFICES ASSUME Init PROVE StandingIInv
      OBVIOUS
    <2>1. /\ Len(jobs) = 0 /\ pc = "idle" /\ corrections = {} /\ intents = {}
          /\ Len(transcript) = 0 /\ index = <<>> /\ transcript = <<>>
      BY EmptySeq DEF Init
    <2>2. ASSUME NEW t PROVE Count(Texts, t) <= Count(transcript, t)
      <3>1. Texts = <<>>
        BY <2>1, EmptySeq DEF Texts
      <3>2. Count(<<>>, t) \in Nat
        BY EmptySeq, CountIsCardinality DEF Count
      <3> QED
        BY <2>1, <3>1, <3>2
    <2> QED
      BY <2>1, <2>2 DEF StandingIInv, CallsFormed, Ordered
  <1>2. BaseIInv /\ StandingIInv /\ [Next]_vars => StandingIInv'
    <2> SUFFICES ASSUME BaseIInv, StandingIInv, [Next]_vars PROVE StandingIInv'
      OBVIOUS
    <2>1. TypeOK /\ CallsFormed /\ \A t \in Text \ lost : Ordered(t)
      BY DEF BaseIInv, StandingIInv
    <2> QED
      BY <2>1, CallsFormedKept, OrderedKept, MarksKept DEF StandingIInv
  <1> QED
    BY <1>1, <1>2, BaseInductive, PTL DEF Spec

\* Only what a rewind has discarded is ever marked stale: not by a sync that
\* runs late or with the messages of before, and not for words said twice
\* (plan_rewind_corrections, sessions.py:89-106).
THEOREM OnlyLostMarkedHolds == Spec => []OnlyLostMarked
  <1>1. StandingIInv => OnlyLostMarked
    BY DEF StandingIInv, OnlyLostMarked
  <1> QED
    BY <1>1, StandingInductive, PTL

=============================================================================
