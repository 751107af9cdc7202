-------------------------- MODULE TurnStartsProofs --------------------------
(***************************************************************************)
(* Theorems about turn numbers, for any sessions, messages and bounds.     *)
(* Queues only ever hold turns in the order they began, syncs run in the   *)
(* order their turns completed, and consuming a match leaves nothing in    *)
(* the queue that began before it.                                         *)
(***************************************************************************)
EXTENDS TurnStarts, SequenceTheorems, TLAPS

\* The turns in q come in the order they began, and none is later than top.
Ordered(q, top) ==
    /\ \A i \in 1 .. Len(q) : q[i] <= top
    /\ \A i, j \in 1 .. Len(q) : i < j => q[i] < q[j]

\* The turns that have ended.
Ended == IF running THEN turn - 1 ELSE turn

\* The queue of a session and the syncs to be run are so ordered; the turn
\* under way is due to be synced only after it has ended.
QueuesOrdered ==
    /\ \A s \in Session : Ordered(starts[s], turn)
    /\ Ordered(due, Ended)
    /\ running => turn # 0

\* Whatever has been synced completed, and did so before what is due; a
\* number given is that of a turn that has begun.
SyncedFirst ==
    \A m \in Turn :
        number[m] # NotSynced =>
            /\ m <= Ended
            /\ \A i \in 1 .. Len(due) : m < due[i]
            /\ number[m] <= turn

\* A turn that has begun has a session and a message.
Begun == \A n \in Turn : n <= turn => about[n] \in Session \X Text

\* What is still in a session's queue began after every number it has given.
QueueAhead ==
    \A m \in Turn :
        Numbered(m) => \A i \in 1 .. Len(starts[about[m][1]]) :
                          number[m] < starts[about[m][1]][i]

TurnsIInv ==
    TypeOK /\ QueuesOrdered /\ SyncedFirst /\ Begun /\ QueueAhead /\ NumbersIncrease

-----------------------------------------------------------------------------
(* Queues. *)

LEMMA TurnsAreNat == (\A n \in Turn : n \in Nat) /\ NotSynced \in Nat /\ NotSynced \notin Turn
  BY TurnAssumption DEF Turn, NotSynced

\* A turn that begins goes to the end of its queue.
LEMMA AppendOrdered ==
  ASSUME NEW q \in Seq(Turn), NEW top \in Nat, NEW n \in Turn, Ordered(q, top), top < n
  PROVE  Append(q, n) \in Seq(Turn) /\ Ordered(Append(q, n), n)
  <1> DEFINE longer == Append(q, n)
  <1>0. Len(q) \in Nat /\ n \in Nat
    BY LenProperties, TurnsAreNat
  <1>1. \A i \in 1 .. Len(q) : q[i] \in Nat
    BY <1>0, ElementOfSeq, TurnsAreNat
  <1>2. /\ longer \in Seq(Turn)
        /\ Len(longer) = Len(q) + 1
        /\ \A i \in 1 .. Len(q) : longer[i] = q[i]
        /\ longer[Len(q) + 1] = n
    BY AppendProperties
  <1> HIDE DEF longer
  <1>3. \A i \in 1 .. Len(longer) :
            \/ i \in 1 .. Len(q) /\ longer[i] = q[i]
            \/ i = Len(q) + 1 /\ longer[i] = n
    BY <1>0, <1>2
  <1>4. \A i \in 1 .. Len(q) : q[i] < n
    BY <1>0, <1>1 DEF Ordered
  <1>5. \A i \in 1 .. Len(longer) : longer[i] <= n
    BY <1>0, <1>1, <1>3, <1>4
  <1>6. ASSUME NEW i \in 1 .. Len(longer), NEW j \in 1 .. Len(longer), i < j
        PROVE  longer[i] < longer[j]
    <2>1. i \in 1 .. Len(q) /\ longer[i] = q[i]
      BY <1>0, <1>2, <1>3, <1>6
    <2>2. CASE j \in 1 .. Len(q)
      BY <1>2, <1>6, <2>1, <2>2 DEF Ordered
    <2>3. CASE longer[j] = n
      BY <1>4, <2>1, <2>3
    <2> QED
      BY <1>3, <2>2, <2>3
  <1> QED
    BY <1>2, <1>5, <1>6 DEF Ordered, longer

\* What is left behind the i-th turn of a queue began after it.
LEMMA RestOrdered ==
  ASSUME NEW q \in Seq(Turn), NEW top \in Nat, NEW i \in 1 .. Len(q), Ordered(q, top)
  PROVE  LET rest == SubSeq(q, i + 1, Len(q))
         IN  /\ rest \in Seq(Turn)
             /\ Ordered(rest, top)
             /\ \A j \in 1 .. Len(rest) : q[i] < rest[j]
  <1> DEFINE rest == SubSeq(q, i + 1, Len(q))
  <1>0. Len(q) \in Nat
    BY LenProperties
  <1>1. \A j \in i + 1 .. Len(q) : q[j] \in Turn
    BY <1>0, ElementOfSeq
  <1>2. /\ rest \in Seq(Turn)
        /\ Len(rest) = IF i + 1 <= Len(q) THEN Len(q) - (i + 1) + 1 ELSE 0
        /\ \A j \in 1 .. Len(q) - (i + 1) + 1 : rest[j] = q[i + 1 + j - 1]
    BY <1>0, <1>1, SubSeqProperties
  <1>3. Len(rest) = Len(q) - i /\ \A j \in 1 .. Len(rest) : rest[j] = q[i + j]
    BY <1>0, <1>2
  <1> HIDE DEF rest
  <1>4. \A j \in 1 .. Len(rest) : i + j \in 1 .. Len(q) /\ i < i + j
    BY <1>0, <1>3
  <1>5. \A j \in 1 .. Len(rest) : q[i] < rest[j] /\ rest[j] <= top
    BY <1>3, <1>4 DEF Ordered
  <1>6. ASSUME NEW j \in 1 .. Len(rest), NEW k \in 1 .. Len(rest), j < k
        PROVE  rest[j] < rest[k]
    <2>1. i + j < i + k
      BY <1>0, <1>3, <1>6
    <2> QED
      BY <1>3, <1>4, <2>1 DEF Ordered
  <1> QED
    BY <1>2, <1>5, <1>6 DEF rest, Ordered

LEMMA TailOrdered ==
  ASSUME NEW q \in Seq(Turn), NEW top \in Nat, q # <<>>, Ordered(q, top)
  PROVE  /\ Head(q) \in Turn /\ Tail(q) \in Seq(Turn)
         /\ Ordered(Tail(q), top)
         /\ \A j \in 1 .. Len(Tail(q)) : Head(q) < Tail(q)[j]
         /\ Head(q) <= top
         /\ Head(q) = q[1] /\ 1 \in 1 .. Len(q)
  <1>1. Len(q) \in Nat \ {0}
    BY EmptySeq
  <1>2. /\ Head(q) \in Turn /\ Tail(q) \in Seq(Turn) /\ Len(Tail(q)) = Len(q) - 1
        /\ \A j \in 1 .. Len(Tail(q)) : Tail(q)[j] = q[j + 1]
        /\ Head(q) = q[1]
    BY HeadTailProperties
  <1> QED
    BY <1>1, <1>2 DEF Ordered

LEMMA NoneOrdered ==
  ASSUME NEW top
  PROVE  <<>> \in Seq(Turn) /\ Ordered(<<>>, top) /\ Len(<<>>) = 0
  BY EmptySeq DEF Ordered

LEMMA LaterTop ==
  ASSUME NEW q \in Seq(Turn), NEW top \in Nat, NEW later \in Nat, top <= later, Ordered(q, top)
  PROVE  Ordered(q, later)
  <1>1. \A i \in 1 .. Len(q) : q[i] \in Nat
    BY LenProperties, ElementOfSeq, TurnsAreNat
  <1>2. \A i \in 1 .. Len(q) : q[i] <= later
    BY <1>1 DEF Ordered
  <1> QED
    BY <1>2 DEF Ordered

-----------------------------------------------------------------------------
(* The invariant, action by action. *)

LEMMA EndedIsNat ==
  ASSUME TypeOK, QueuesOrdered
  PROVE  turn \in Nat /\ Ended \in Nat /\ Ended <= turn /\ (running => Ended = turn - 1)
  BY TurnAssumption DEF TypeOK, QueuesOrdered, Ended

\* A number is given to a turn that has begun, and has its session.
LEMMA NumberedTurn ==
  ASSUME TurnsIInv, NEW m \in Turn, Numbered(m)
  PROVE  /\ m \in Nat /\ m <= Ended /\ number[m] \in Turn /\ number[m] <= turn
         /\ about[m] \in Session \X Text /\ about[m][1] \in Session
  <1>1. number[m] \in Turn /\ number[m] # NotSynced
    BY DEF TurnsIInv, TypeOK, Numbered
  <1>2. m <= Ended /\ number[m] <= turn
    BY <1>1 DEF TurnsIInv, SyncedFirst
  <1>3. m \in Nat /\ m <= turn
    BY <1>2, EndedIsNat, TurnsAreNat DEF TurnsIInv
  <1> QED
    BY <1>1, <1>2, <1>3 DEF TurnsIInv, Begun

LEMMA InitTurns ==
  ASSUME Init
  PROVE  TurnsIInv
  <1>0. <<>> \in Seq(Turn) /\ 0 \in 0 .. MaxTurns /\ 0 \in 0 .. MaxSwitches
    BY TurnAssumption, NoneOrdered
  <1>1. TypeOK
    BY <1>0 DEF Init, TypeOK
  <1>2. QueuesOrdered
    BY NoneOrdered DEF Init, QueuesOrdered
  <1>3. Begun
    BY TurnsAreNat, TurnAssumption DEF Init, Begun, Turn
  <1> QED
    BY <1>1, <1>2, <1>3 DEF Init, TurnsIInv, SyncedFirst, QueueAhead, NumbersIncrease, Numbered

\* The turn that begins goes behind every number that was given.
LEMMA StartTurnKeeps ==
  ASSUME TurnsIInv, NEW t \in Text, StartTurn(t)
  PROVE  TurnsIInv'
  <1> DEFINE queue == starts[session]
  <1>0. /\ TypeOK /\ QueuesOrdered /\ SyncedFirst /\ Begun
        /\ turn \in Nat /\ Ended = turn /\ Ended' = turn
        /\ turn' = turn + 1 /\ turn' \in Turn /\ turn' \in 0 .. MaxTurns /\ turn' # 0
        /\ turn < turn' /\ session \in Session /\ session' = session /\ running' = TRUE
        /\ due' = due /\ number' = number /\ switches' = switches
    BY TurnAssumption DEF TurnsIInv, TypeOK, StartTurn, Ended, Turn
  <1>1. /\ about' = [about EXCEPT ![turn'] = <<session, t>>]
        /\ starts' = [starts EXCEPT ![session] = Append(queue, turn')]
        /\ about \in [Turn -> (Session \X Text) \cup {<<>>}]
        /\ starts \in [Session -> Seq(Turn)]
    BY DEF StartTurn, TurnsIInv, TypeOK
  <1>2. Append(queue, turn') \in Seq(Turn) /\ Ordered(Append(queue, turn'), turn')
    <2>1. queue \in Seq(Turn) /\ Ordered(queue, turn)
      BY <1>0, <1>1 DEF QueuesOrdered
    <2> HIDE DEF queue
    <2> QED
      BY <1>0, <2>1, AppendOrdered
  <1>3. TypeOK'
    BY <1>0, <1>1, <1>2 DEF TypeOK
  <1>4. QueuesOrdered'
    <2>1. ASSUME NEW s \in Session
          PROVE  Ordered(starts'[s], turn')
      <3>1. CASE s = session
        BY <1>1, <1>2, <3>1
      <3>2. CASE s # session
        <4>1. starts'[s] = starts[s] /\ starts[s] \in Seq(Turn) /\ Ordered(starts[s], turn)
          BY <1>0, <1>1, <3>2 DEF QueuesOrdered
        <4>2. turn' \in Nat /\ turn <= turn'
          BY <1>0
        <4> QED
          BY <1>0, <4>1, <4>2, LaterTop
      <3> QED
        BY <3>1, <3>2
    <2>2. Ordered(due, Ended)
      BY <1>0 DEF QueuesOrdered
    <2> QED
      BY <1>0, <2>1, <2>2 DEF QueuesOrdered
  <1>5. SyncedFirst'
    <2>1. ASSUME NEW m \in Turn, number[m] # NotSynced
          PROVE  m <= turn /\ (\A i \in 1 .. Len(due) : m < due[i]) /\ number[m] <= turn'
      <3>1. number[m] \in Nat /\ number[m] <= turn
        <4>1. number[m] \in Turn \cup {Fallback}
          BY <1>0, <2>1 DEF TypeOK
        <4>2. number[m] \in Nat
          BY <4>1, TurnsAreNat DEF Fallback
        <4> QED
          BY <1>0, <2>1, <4>2 DEF SyncedFirst
      <3>2. number[m] <= turn'
        BY <1>0, <3>1
      <3> QED
        BY <1>0, <2>1, <3>2 DEF SyncedFirst
    <2> QED
      BY <1>0, <2>1 DEF SyncedFirst
  <1>6. Begun'
    <2>1. ASSUME NEW n \in Turn, n <= turn'
          PROVE  about'[n] \in Session \X Text
      <3>1. CASE n = turn'
        BY <1>0, <1>1, <3>1
      <3>2. CASE n # turn'
        <4>1. n <= turn
          BY <1>0, <2>1, <3>2, TurnsAreNat
        <4> QED
          BY <1>0, <1>1, <3>2, <4>1 DEF Begun
      <3> QED
        BY <3>1, <3>2
    <2> QED
      BY <2>1 DEF Begun
  <1>7. ASSUME NEW m \in Turn, Numbered(m)'
        PROVE  /\ Numbered(m) /\ about'[m] = about[m] /\ about[m][1] \in Session
               /\ number[m] \in Nat /\ number[m] < turn'
    <2>1. Numbered(m)
      BY <1>0, <1>7 DEF Numbered
    <2>2. /\ m \in Nat /\ m <= turn /\ number[m] \in Turn /\ number[m] <= turn
          /\ about[m][1] \in Session
      BY <1>0, <2>1, NumberedTurn
    <2>3. m # turn'
      BY <1>0, <2>2
    <2>4. number[m] \in Nat
      BY <2>2, TurnsAreNat
    <2>5. number[m] < turn'
      BY <1>0, <2>2, <2>4
    <2> QED
      BY <1>0, <1>1, <2>1, <2>2, <2>3, <2>4, <2>5
  <1>8. QueueAhead'
    <2>1. ASSUME NEW m \in Turn, Numbered(m)', NEW i \in 1 .. Len(starts'[about'[m][1]])
          PROVE  number'[m] < starts'[about'[m][1]][i]
      <3>1. /\ Numbered(m) /\ about'[m] = about[m] /\ about[m][1] \in Session
            /\ number[m] \in Nat /\ number[m] < turn'
        BY <1>7, <2>1
      <3>2. CASE about[m][1] # session
        <4>1. starts'[about[m][1]] = starts[about[m][1]]
          BY <1>1, <3>1, <3>2
        <4> QED
          BY <1>0, <2>1, <3>1, <4>1 DEF TurnsIInv, QueueAhead
      <3>3. CASE about[m][1] = session
        <4> DEFINE longer == Append(queue, turn')
        <4>1. starts'[about[m][1]] = longer /\ queue \in Seq(Turn)
          BY <1>0, <1>1, <3>1, <3>3
        <4>2. /\ Len(queue) \in Nat /\ Len(longer) = Len(queue) + 1
              /\ \A j \in 1 .. Len(queue) : longer[j] = queue[j]
              /\ longer[Len(queue) + 1] = turn'
          BY <1>0, <4>1, AppendProperties, LenProperties
        <4>3. \A j \in 1 .. Len(queue) : number[m] < queue[j]
          BY <3>1, <3>3 DEF TurnsIInv, QueueAhead
        <4>4. i \in 1 .. Len(longer)
          BY <2>1, <3>1, <4>1
        <4> HIDE DEF longer, queue
        <4>5. number[m] < longer[i]
          <5>1. i \in 1 .. Len(queue) \/ i = Len(queue) + 1
            BY <4>2, <4>4
          <5> QED
            BY <3>1, <4>2, <4>3, <5>1
        <4> QED
          BY <1>0, <3>1, <4>1, <4>5
      <3> QED
        BY <3>2, <3>3
    <2> QED
      BY <2>1 DEF QueueAhead
  <1>9. NumbersIncrease'
    BY <1>0, <1>7 DEF NumbersIncrease, TurnsIInv
  <1> QED
    BY <1>3, <1>4, <1>5, <1>6, <1>8, <1>9 DEF TurnsIInv

\* A completed turn is due after all that are due or have been synced.
LEMMA EndTurnKeeps ==
  ASSUME TurnsIInv, EndTurn
  PROVE  TurnsIInv'
  <1>0. /\ TypeOK /\ QueuesOrdered /\ SyncedFirst
        /\ turn \in Nat /\ turn \in Turn /\ Ended = turn - 1 /\ Ended \in Nat /\ Ended' = turn
        /\ Ended < turn /\ Ended <= turn /\ running' = FALSE
        /\ due' \in {due, Append(due, turn)}
        /\ UNCHANGED <<turn, about, session, starts, number, switches>>
    BY TurnAssumption DEF TurnsIInv, TypeOK, QueuesOrdered, EndTurn, Ended, Turn
  <1>1. due \in Seq(Turn) /\ Ordered(due, Ended)
    BY <1>0 DEF TypeOK, QueuesOrdered
  <1>2. Append(due, turn) \in Seq(Turn) /\ Ordered(Append(due, turn), turn) /\ Ordered(due, turn)
    BY <1>0, <1>1, AppendOrdered, LaterTop
  <1>3. TypeOK'
    BY <1>0, <1>1, <1>2 DEF TypeOK
  <1>4. QueuesOrdered'
    BY <1>0, <1>2 DEF QueuesOrdered
  <1>5. SyncedFirst'
    <2>1. ASSUME NEW m \in Turn, number[m] # NotSynced
          PROVE  m <= turn /\ (\A i \in 1 .. Len(due') : m < due'[i]) /\ number[m] <= turn
      <3>1. m \in Nat /\ m <= Ended /\ number[m] <= turn /\ \A i \in 1 .. Len(due) : m < due[i]
        BY <1>0, <2>1, TurnsAreNat DEF SyncedFirst
      <3>2. m <= turn /\ m < turn
        BY <1>0, <3>1
      <3> DEFINE longer == Append(due, turn)
      <3>3. /\ Len(due) \in Nat /\ Len(longer) = Len(due) + 1
            /\ \A j \in 1 .. Len(due) : longer[j] = due[j]
            /\ longer[Len(due) + 1] = turn
        BY <1>0, <1>1, AppendProperties, LenProperties
      <3>4. due' \in {due, longer}
        BY <1>0
      <3> HIDE DEF longer
      <3>5. \A i \in 1 .. Len(longer) : m < longer[i]
        <4>1. \A i \in 1 .. Len(longer) : i \in 1 .. Len(due) \/ i = Len(due) + 1
          BY <3>3
        <4> QED
          BY <3>1, <3>2, <3>3, <4>1
      <3> QED
        BY <3>1, <3>2, <3>4, <3>5
    <2> QED
      BY <1>0, <2>1 DEF SyncedFirst
  <1> QED
    BY <1>0, <1>3, <1>4, <1>5 DEF TurnsIInv, Begun, QueueAhead, NumbersIncrease, Numbered

\* A session is switched to between turns; its queue stays or is emptied.
LEMMA SwitchKeeps ==
  ASSUME TurnsIInv, NEW s \in Session, NEW reset \in BOOLEAN, Switch(s, reset)
  PROVE  TurnsIInv'
  <1>0. /\ TypeOK /\ switches' \in 0 .. MaxSwitches
        /\ UNCHANGED <<turn, about, running, due, number>>
        /\ session' \in Session
        /\ Ended' = Ended
    BY TurnAssumption DEF TurnsIInv, TypeOK, Switch, Ended
  <1>1. /\ starts' \in [Session -> Seq(Turn)]
        /\ \A r \in Session : starts'[r] = starts[r] \/ starts'[r] = <<>>
    BY <1>0, NoneOrdered DEF Switch, TypeOK
  <1>2. TypeOK'
    BY <1>0, <1>1 DEF TypeOK
  <1>3. QueuesOrdered'
    BY <1>0, <1>1, NoneOrdered DEF QueuesOrdered, TurnsIInv
  <1>4. SyncedFirst' /\ Begun'
    BY <1>0 DEF TurnsIInv, SyncedFirst, Begun
  <1>5. QueueAhead'
    <2>1. ASSUME NEW m \in Turn, Numbered(m)', NEW i \in 1 .. Len(starts'[about'[m][1]])
          PROVE  number'[m] < starts'[about'[m][1]][i]
      <3>1. Numbered(m) /\ about[m][1] \in Session
        BY <1>0, <2>1, NumberedTurn DEF Numbered
      <3>2. starts'[about[m][1]] # <<>>
        BY <1>0, <2>1, NoneOrdered
      <3> QED
        BY <1>0, <1>1, <2>1, <3>1, <3>2 DEF TurnsIInv, QueueAhead
    <2> QED
      BY <2>1 DEF QueueAhead
  <1> QED
    BY <1>0, <1>2, <1>3, <1>4, <1>5 DEF TurnsIInv, NumbersIncrease, Numbered

\* A new process has empty queues, and no sync is due.
LEMMA RestartKeeps ==
  ASSUME TurnsIInv, Restart
  PROVE  TurnsIInv'
  <1>0. /\ TypeOK /\ due' = <<>> /\ running' = FALSE
        /\ UNCHANGED <<turn, about, session, number, switches>>
        /\ turn \in Nat /\ Ended \in Nat /\ Ended <= turn /\ Ended' = turn
    BY EndedIsNat DEF TurnsIInv, Restart, Ended
  <1>1. /\ starts' \in [Session -> Seq(Turn)]
        /\ \A r \in Session : starts'[r] = <<>>
    BY NoneOrdered DEF Restart
  <1>2. TypeOK'
    BY <1>0, <1>1, NoneOrdered DEF TypeOK
  <1>3. QueuesOrdered'
    BY <1>0, <1>1, NoneOrdered DEF QueuesOrdered
  <1>4. SyncedFirst'
    <2>1. ASSUME NEW m \in Turn, number[m] # NotSynced
          PROVE  m <= turn /\ (\A i \in 1 .. Len(due') : m < due'[i]) /\ number[m] <= turn
      <3>1. m \in Nat /\ m <= Ended /\ number[m] <= turn
        BY <2>1, TurnsAreNat DEF TurnsIInv, SyncedFirst
      <3> QED
        BY <1>0, <3>1, NoneOrdered
    <2> QED
      BY <1>0, <2>1 DEF SyncedFirst
  <1>5. QueueAhead'
    <2>1. ASSUME NEW m \in Turn, Numbered(m)', NEW i \in 1 .. Len(starts'[about'[m][1]])
          PROVE  FALSE
      <3>1. about'[m][1] \in Session
        BY <1>0, <2>1, NumberedTurn DEF Numbered
      <3> QED
        BY <1>1, <2>1, <3>1, NoneOrdered
    <2> QED
      BY <2>1 DEF QueueAhead
  <1> QED
    BY <1>0, <1>2, <1>3, <1>4, <1>5 DEF TurnsIInv, Begun, NumbersIncrease, Numbered

\* The turn synced next takes a number above those its session has given,
\* and leaves in the queue what began after it.
LEMMA SyncTurnKeeps ==
  ASSUME TurnsIInv, SyncTurn
  PROVE  TurnsIInv'
  <1> DEFINE n == Head(due)
  <1> DEFINE queue == starts[about[n][1]]
  <1>0. /\ TypeOK /\ QueuesOrdered /\ SyncedFirst /\ Begun
        /\ due # <<>> /\ due' = Tail(due)
        /\ UNCHANGED <<turn, about, session, running, switches>>
        /\ Ended' = Ended
        /\ due \in Seq(Turn) /\ Ordered(due, Ended)
        /\ turn \in Nat /\ Ended \in Nat /\ Ended <= turn
    BY EndedIsNat DEF TurnsIInv, TypeOK, QueuesOrdered, SyncTurn, Ended
  <1>1. /\ n \in Turn /\ Tail(due) \in Seq(Turn) /\ Ordered(Tail(due), Ended)
        /\ \A j \in 1 .. Len(Tail(due)) : n < Tail(due)[j]
        /\ n <= Ended /\ n = due[1] /\ 1 \in 1 .. Len(due)
    BY <1>0, TailOrdered
  <1>2. \A m \in Turn : number[m] # NotSynced => m < n
    BY <1>0, <1>1 DEF SyncedFirst
  <1>3. \A m \in Turn : number[m] # NotSynced => \A j \in 1 .. Len(Tail(due)) : m < Tail(due)[j]
    <2>1. ASSUME NEW m \in Turn, number[m] # NotSynced, NEW j \in 1 .. Len(Tail(due))
          PROVE  m < Tail(due)[j]
      <3>1. m < n /\ n < Tail(due)[j] /\ m \in Nat /\ n \in Nat
        BY <1>1, <1>2, <2>1, TurnsAreNat
      <3>2. Tail(due)[j] \in Nat
        BY <1>1, <2>1, ElementOfSeq, TurnsAreNat
      <3> QED
        BY <3>1, <3>2
    <2> QED
      BY <2>1
  <1>4. about[n] \in Session \X Text /\ about[n][1] \in Session
    <2>1. n <= turn
      BY <1>0, <1>1, TurnsAreNat
    <2> QED
      BY <1>0, <1>1, <2>1 DEF Begun
  <1>5. queue \in Seq(Turn) /\ Ordered(queue, turn)
    BY <1>0, <1>4 DEF TypeOK, QueuesOrdered
  <1>6. Begun'
    BY <1>0 DEF Begun
  <1>7. ASSUME number' = [number EXCEPT ![n] = Fallback], starts' = starts
        PROVE  TurnsIInv'
    <2>1. \A m \in Turn : m # n => number'[m] = number[m]
      BY <1>0, <1>1, <1>7 DEF TypeOK
    <2>2. number'[n] = Fallback
      BY <1>0, <1>1, <1>7 DEF TypeOK
    <2>3. \A m \in Turn : Numbered(m)' => Numbered(m) /\ number'[m] = number[m]
      BY <2>1, <2>2 DEF Numbered
    <2>4. TypeOK'
      BY <1>0, <1>1, <1>7 DEF TypeOK
    <2>5. QueuesOrdered'
      BY <1>0, <1>1, <1>7 DEF QueuesOrdered
    <2>6. SyncedFirst'
      BY <1>0, <1>1, <1>3, <2>1, <2>2 DEF SyncedFirst, Fallback
    <2>7. QueueAhead'
      BY <1>0, <1>7, <2>3 DEF QueueAhead, TurnsIInv
    <2>8. NumbersIncrease'
      BY <1>0, <2>3 DEF NumbersIncrease, TurnsIInv
    <2> QED
      BY <1>6, <2>4, <2>5, <2>6, <2>7, <2>8 DEF TurnsIInv
  <1>8. ASSUME NEW i \in DOMAIN queue,
               number' = [number EXCEPT ![n] = queue[i]], ConsumeTo(n, i)
        PROVE  TurnsIInv'
    <2> DEFINE rest == SubSeq(queue, i + 1, Len(queue))
    <2>1. i \in 1 .. Len(queue)
      BY <1>5, <1>8, LenProperties
    <2>2. rest \in Seq(Turn) /\ Ordered(rest, turn) /\ \A j \in 1 .. Len(rest) : queue[i] < rest[j]
      <3> HIDE DEF n, queue
      <3> QED
        BY <1>0, <1>5, <2>1, RestOrdered
    <2>3. starts' = [starts EXCEPT ![about[n][1]] = rest]
      BY <1>8 DEF ConsumeTo
    <2>4. starts \in [Session -> Seq(Turn)] /\ number \in [Turn -> Turn \cup {Fallback, NotSynced}]
      BY <1>0 DEF TypeOK
    <2>5. queue[i] \in Turn /\ queue[i] <= turn
      <3>1. queue[i] \in Turn
        BY <1>5, <2>1, ElementOfSeq
      <3> QED
        BY <1>5, <2>1, <3>1 DEF Ordered
    <2>6. /\ number'[n] = queue[i]
          /\ \A m \in Turn : m # n => number'[m] = number[m]
          /\ starts'[about[n][1]] = rest
          /\ \A s \in Session : s # about[n][1] => starts'[s] = starts[s]
      <3> HIDE DEF n, queue, rest
      <3> QED
        BY <1>1, <1>4, <1>8, <2>3, <2>4
    <2>7. TypeOK'
      <3> HIDE DEF n, queue, rest
      <3> QED
        BY <1>0, <1>1, <1>8, <2>2, <2>3, <2>5 DEF TypeOK
    <2>8. QueuesOrdered'
      <3>1. \A s \in Session : Ordered(starts'[s], turn)
        BY <1>0, <2>2, <2>6 DEF QueuesOrdered
      <3> QED
        BY <1>0, <1>1, <3>1 DEF QueuesOrdered
    <2>9. SyncedFirst'
      <3>1. ASSUME NEW m \in Turn, number'[m] # NotSynced
            PROVE  m <= Ended /\ (\A j \in 1 .. Len(Tail(due)) : m < Tail(due)[j]) /\ number'[m] <= turn
        <4>1. CASE m = n
          BY <1>1, <2>5, <2>6, <4>1
        <4>2. CASE m # n
          BY <1>0, <1>3, <2>6, <3>1, <4>2 DEF SyncedFirst
        <4> QED
          BY <4>1, <4>2
      <3> QED
        BY <1>0, <3>1 DEF SyncedFirst
    <2>10. \A m \in Turn : (m # n /\ Numbered(m)') => Numbered(m) /\ number'[m] = number[m] /\ m < n
      BY <1>2, <2>6 DEF Numbered
    <2>11. \A m \in Turn :
              (m # n /\ Numbered(m)' /\ about[m][1] = about[n][1]) => number'[m] < queue[i]
      BY <2>1, <2>10 DEF TurnsIInv, QueueAhead
    <2>12. QueueAhead'
      <3>1. ASSUME NEW m \in Turn, Numbered(m)', NEW j \in 1 .. Len(starts'[about[m][1]])
            PROVE  number'[m] < starts'[about[m][1]][j]
        <4>1. CASE m = n
          BY <2>2, <2>6, <3>1, <4>1
        <4>2. CASE m # n /\ about[m][1] = about[n][1]
          <5>1. number'[m] < queue[i] /\ queue[i] < rest[j] /\ j \in 1 .. Len(rest)
            BY <2>2, <2>6, <2>11, <3>1, <4>2
          <5>2. number[m] \in Turn /\ number'[m] = number[m]
            BY <2>10, <3>1, <4>2, NumberedTurn
          <5>3. rest[j] \in Nat /\ queue[i] \in Nat /\ number[m] \in Nat
            BY <2>2, <2>5, <5>1, <5>2, ElementOfSeq, TurnsAreNat
          <5>4. number[m] < rest[j]
            <6> HIDE DEF n, queue, rest
            <6> QED
              BY <5>1, <5>2, <5>3
          <5> QED
            BY <2>6, <4>2, <5>2, <5>4
        <4>3. CASE m # n /\ about[m][1] # about[n][1]
          <5>1. Numbered(m) /\ number'[m] = number[m]
            BY <2>10, <3>1, <4>3
          <5>2. about[m][1] \in Session
            BY <5>1, NumberedTurn
          <5>3. starts'[about[m][1]] = starts[about[m][1]]
            BY <2>6, <4>3, <5>2
          <5> QED
            BY <3>1, <5>1, <5>3 DEF TurnsIInv, QueueAhead
        <4> QED
          BY <4>1, <4>2, <4>3
      <3> QED
        BY <1>0, <3>1 DEF QueueAhead
    <2>13. NumbersIncrease'
      <3>1. ASSUME NEW l \in Turn, NEW m \in Turn, l < m, Numbered(l)', Numbered(m)',
                   about[l][1] = about[m][1]
            PROVE  number'[l] < number'[m]
        <4>1. CASE m = n
          <5>1. l # n
            BY <3>1, <4>1, TurnsAreNat
          <5> QED
            BY <2>6, <2>11, <3>1, <4>1, <5>1
        <4>2. CASE l = n
          <5>1. m \in Nat /\ n \in Nat /\ m # n
            BY <1>1, <3>1, <4>2, TurnsAreNat
          <5>2. m < n
            BY <2>10, <3>1, <5>1
          <5> QED
            BY <3>1, <4>2, <5>1, <5>2
        <4>3. CASE l # n /\ m # n
          BY <2>10, <3>1, <4>3 DEF NumbersIncrease, TurnsIInv
        <4> QED
          BY <4>1, <4>2, <4>3
      <3> QED
        BY <1>0, <3>1 DEF NumbersIncrease
    <2> QED
      BY <1>6, <2>7, <2>8, <2>9, <2>12, <2>13 DEF TurnsIInv
  <1>9. CASE Matches(n) = {}
    BY <1>7, <1>9 DEF SyncTurn
  <1>10. CASE Matches(n) # {}
    <2>1. PICK i \in Matches(n) : number' = [number EXCEPT ![n] = queue[i]] /\ ConsumeTo(n, i)
      BY <1>10 DEF SyncTurn
    <2>2. i \in DOMAIN queue
      BY DEF Matches
    <2> QED
      BY <1>8, <2>1, <2>2
  <1> QED
    BY <1>9, <1>10

-----------------------------------------------------------------------------
(* Theorems. *)

\* The inductive invariant: the turns in a queue, and the completed turns yet
\* to be synced, are in the order they began, and all that is still queued is
\* later than the numbers already given (TurnStartQueue, sessions.py:30-60).
THEOREM TurnsInductive == Spec => []TurnsIInv
  <1>1. Init => TurnsIInv
    BY InitTurns
  <1>2. TurnsIInv /\ [Next]_vars => TurnsIInv'
    <2> SUFFICES ASSUME TurnsIInv, [Next]_vars
                 PROVE  TurnsIInv'
      OBVIOUS
    <2>1. ASSUME NEW t \in Text, StartTurn(t)
          PROVE  TurnsIInv'
      BY <2>1, StartTurnKeeps
    <2>2. CASE EndTurn
      BY <2>2, EndTurnKeeps
    <2>3. ASSUME NEW s \in Session, NEW reset \in BOOLEAN, Switch(s, reset)
          PROVE  TurnsIInv'
      BY <2>3, SwitchKeeps
    <2>4. CASE Restart
      BY <2>4, RestartKeeps
    <2>5. CASE SyncTurn
      BY <2>5, SyncTurnKeeps
    <2>6. CASE UNCHANGED vars
      BY <2>6 DEF vars, TurnsIInv, TypeOK, QueuesOrdered, Ordered, Ended, SyncedFirst, Begun,
                  QueueAhead, NumbersIncrease, Numbered
    <2> QED
      BY <2>1, <2>2, <2>3, <2>4, <2>5, <2>6 DEF Next
  <1> QED
    BY <1>1, <1>2, PTL DEF Spec

\* Whatever is queued, due or numbered is a turn that can begin.
THEOREM TurnStartTypes == Spec => []TypeOK
  <1>1. TurnsIInv => TypeOK
    BY DEF TurnsIInv
  <1> QED
    BY <1>1, TurnsInductive, PTL

\* The captures of a session carry turn numbers in the order of their turns,
\* however late they are synced, whatever was interrupted or said twice
\* (TurnStartQueue.consume, sessions.py:39).
THEOREM NumbersIncreaseHolds == Spec => []NumbersIncrease
  <1>1. TurnsIInv => NumbersIncrease
    BY DEF TurnsIInv
  <1> QED
    BY <1>1, TurnsInductive, PTL
=============================================================================
