--------------------------- MODULE RuntimeProofs ---------------------------
(***************************************************************************)
(* Theorems about one runtime and its threads, for any sessions, messages, *)
(* threads and bounds: nothing passes the credential gate unproven, a turn *)
(* is given only what it asked for, what is acknowledged was handed out,   *)
(* and no operation is left without a flush to come.                       *)
(***************************************************************************)
EXTENDS Runtime, TLAPS

USE DEF hermes, recall, gate, ending, vars

-----------------------------------------------------------------------------
(* The inductive invariant. *)

\* The turn Hermes is in is counted, has its session and message, and its sync
\* is not among those to come.
TurnCounted ==
    /\ due <= turn
    /\ pc # "idle" => 0 < turn /\ due < turn
    /\ \A n \in 1 .. turn : about[n] \in Session \X Text

\* Between on_turn_start and prefetch the future of the message is the one of
\* this turn; prefetch then waits for it, and for no other.
OwnFuture ==
    /\ pc = "begun" => slot[about[turn]] = turn
    /\ pc \in {"waiting", "recorded"} => awaited = turn

\* One thread at most asks auth_me, and only while the verdict is open.
OneProbe ==
    /\ probing # {} => verdict = "unknown"
    /\ \A x, y \in probing : x = y

\* The outbox is closed by shutdown alone.
ClosedByShutdown == (~open \/ closer # "none") => closed

RuntimeIInv ==
    /\ TypeOK
    /\ TurnCounted
    /\ OwnFuture
    /\ OneProbe
    /\ ClosedByShutdown
    /\ Gated
    /\ FreshRecall
    /\ AcknowledgedIsReturned
    /\ WakeupKept

LEMMA RuntimeInit == Init => RuntimeIInv
  <1> SUFFICES ASSUME Init PROVE RuntimeIInv
    OBVIOUS
  <1>1. TypeOK
    <2>1. /\ DOMAIN stage = Turn \cup Thread
          /\ \A n \in Turn : stage[n] = "none"
          /\ \A h \in Thread : stage[h] = "idle"
      BY ThreadAssumption DEF Init
    <2>2. /\ about \in [Turn -> (Session \X Text) \cup {<<>>}]
          /\ slot \in [Session \X Text -> Turn \cup {Nobody}]
          /\ returned \subseteq Turn \X Turn
      BY DEF Init
    <2>3. turn \in 0 .. MaxTurns /\ due \in 0 .. MaxTurns /\ switches \in 0 .. MaxSwitches
      BY RuntimeAssumption DEF Init
    <2> QED
      BY <2>1, <2>2, <2>3 DEF Init, TypeOK
  <1>2. TurnCounted
    BY RuntimeAssumption DEF Init, TurnCounted
  <1>3. Gated
    BY DEF Init, Gated
  <1>4. OwnFuture /\ OneProbe /\ ClosedByShutdown /\ FreshRecall /\ AcknowledgedIsReturned
    BY DEF Init, OwnFuture, OneProbe, ClosedByShutdown, FreshRecall, AcknowledgedIsReturned
  <1>5. WakeupKept
    BY DEF Init, WakeupKept
  <1> QED
    BY <1>1, <1>2, <1>3, <1>4, <1>5 DEF RuntimeIInv

-----------------------------------------------------------------------------
(* What happens to the fetches and to the threads of the pool. *)

\* What the fetches and the threads may be doing.
StageOK ==
    /\ DOMAIN stage = Turn \cup Thread
    /\ \A n \in Turn : stage[n] \in Unfinished \cup Done \cup {"none"}
    /\ \A h \in Thread : stage[h] \in {"idle", "gate", "flush"}

\* A step in which fetches are cancelled, or one is queued, at the most.
Recalled ==
    /\ StageOK'
    /\ \A h \in Thread : stage'[h] = stage[h]
    /\ \A x \in Turn \cup Thread : stage'[x] = "request" => stage[x] = "request"

LEMMA ScheduleRecalls ==
  ASSUME TypeOK, NEW k \in Session \X Text, NEW n \in Turn, Schedule(k, n)
  PROVE  /\ Recalled
         /\ slot' \in [Session \X Text -> Turn \cup {Nobody}]
         /\ slot'[k] = n
  BY ThreadAssumption
  DEF TypeOK, Schedule, Cancelled, Recalled, StageOK, Unfinished, Done

LEMMA DiscardRecalls ==
  ASSUME TypeOK, NEW ss, Discard(ss)
  PROVE  Recalled /\ slot' \in [Session \X Text -> Turn \cup {Nobody}]
  BY ThreadAssumption
  DEF TypeOK, Discard, Cancelled, Recalled, StageOK, Unfinished, Done

LEMMA CancelRecalls ==
  ASSUME TypeOK, CancelQueued
  PROVE  Recalled
  BY ThreadAssumption DEF TypeOK, CancelQueued, Recalled, StageOK, Unfinished, Done

\* Where the gate lets one go.
LEMMA GateStages ==
  ASSUME TypeOK, NEW x \in Turn \cup Thread, Enter(x) \/ TurnBack(x)
  PROVE  /\ StageOK' /\ fresh' \in BOOLEAN /\ gaveUp' \in BOOLEAN
         /\ \A y \in Turn \cup Thread : y # x => stage'[y] = stage[y]
  <1>1. PICK to : /\ stage' = [stage EXCEPT ![x] = to]
                  /\ to = Passed(x) \/ to = Refused(x)
    BY DEF Enter, TurnBack
  <1>2. IF x \in Turn THEN to \in {"request", "failed"} ELSE to \in {"idle", "flush"}
    BY <1>1 DEF Passed, Refused
  <1>3. StageOK /\ fresh' \in BOOLEAN /\ gaveUp' \in BOOLEAN
    BY DEF TypeOK, StageOK, Enter, TurnBack
  <1>4. StageOK'
    BY <1>1, <1>2, <1>3, ThreadAssumption DEF StageOK, Unfinished, Done
  <1> QED
    BY <1>1, <1>3, <1>4 DEF StageOK

-----------------------------------------------------------------------------
(* Each part of the invariant is kept by every step. *)

LEMMA RuntimeTypeStep ==
  ASSUME TypeOK, TurnCounted, OwnFuture, [Next]_vars
  PROVE  TypeOK'
  <1> USE RuntimeAssumption DEF Turn, Nobody
  <1>1. ASSUME NEW t \in Text, StartTurn(t) PROVE TypeOK'
    <2>1. turn + 1 \in Turn /\ <<session, t>> \in Session \X Text
      BY <1>1 DEF StartTurn, TypeOK
    <2>2. StageOK' /\ slot' \in [Session \X Text -> Turn \cup {Nobody}]
      BY <1>1, <2>1, ScheduleRecalls DEF StartTurn, Recalled
    <2> QED
      BY <1>1, <2>1, <2>2 DEF StartTurn, TypeOK, StageOK
  <1>2. CASE Prefetch
    <2>1. about[turn] \in Session \X Text
      BY <1>2 DEF Prefetch, TypeOK, TurnCounted
    <2> QED
      BY <1>2, <2>1 DEF Prefetch, TypeOK
  <1>3. CASE PrefetchOther
    BY <1>3 DEF PrefetchOther, TypeOK
  <1>4. CASE ContextReady
    BY <1>4 DEF ContextReady, TypeOK, OwnFuture, TurnCounted
  <1>5. CASE ReturnContext
    BY <1>5 DEF ReturnContext, StopWaiting, TypeOK, OwnFuture, TurnCounted
  <1>6. CASE ReturnBare
    BY <1>6 DEF ReturnBare, StopWaiting, TypeOK, OwnFuture, TurnCounted
  <1>7. CASE NoContext
    BY <1>7 DEF NoContext, StopWaiting, TypeOK
  <1>8. CASE MissHotWait
    BY <1>8 DEF MissHotWait, StopWaiting, TypeOK
  <1>9. CASE ToolWrite
    BY <1>9 DEF ToolWrite, TypeOK
  <1>10. CASE ToolSubmit
    BY <1>10 DEF ToolSubmit, TypeOK
  <1>11. CASE EndTurn
    BY <1>11 DEF EndTurn, TypeOK, TurnCounted
  <1>12. ASSUME NEW s \in Session, NEW reset, NEW rewound, Switch(s, reset, rewound)
         PROVE  TypeOK'
    <2>1. StageOK' /\ slot' \in [Session \X Text -> Turn \cup {Nobody}]
      BY <1>12, DiscardRecalls DEF Switch, Recalled
    <2> QED
      BY <1>12, <2>1 DEF Switch, TypeOK, StageOK
  <1>13. CASE SyncTurn
    BY <1>13 DEF SyncTurn, TypeOK
  <1>14. CASE SyncSubmit
    BY <1>14 DEF SyncSubmit, TypeOK
  <1>15. ASSUME NEW n \in Turn, FetchBegins(n) \/ FetchEnds(n) PROVE TypeOK'
    <2>1. StageOK' /\ UNCHANGED <<hermes, sync, recall, gate, ending, jobs, fresh, gaveUp>>
      BY <1>15, ThreadAssumption
      DEF FetchBegins, FetchEnds, TypeOK, StageOK, Unfinished, Done
    <2> QED
      BY <2>1 DEF TypeOK, StageOK
  <1>16. ASSUME NEW h \in Thread, JobBegins(h) PROVE TypeOK'
    <2>1. StageOK'
      BY <1>16, ThreadAssumption DEF JobBegins, TypeOK, StageOK
    <2> QED
      BY <1>16, <2>1 DEF JobBegins, TypeOK, StageOK
  <1>17. ASSUME NEW h \in Thread, FlushEnds(h) PROVE TypeOK'
    <2>1. StageOK'
      BY <1>17, ThreadAssumption DEF FlushEnds, TypeOK, StageOK
    <2> QED
      BY <1>17, <2>1 DEF FlushEnds, TypeOK, StageOK
  <1>18. ASSUME NEW x \in Turn \cup Thread, GatePass(x) PROVE TypeOK'
    <2>1. StageOK' /\ fresh' \in BOOLEAN /\ gaveUp' \in BOOLEAN
      BY <1>18, GateStages DEF GatePass
    <2>2. UNCHANGED <<hermes, sync, recall, gate, ending, jobs>>
      BY <1>18 DEF GatePass
    <2> QED
      BY <2>1, <2>2 DEF TypeOK, StageOK
  <1>19. ASSUME NEW x \in Turn \cup Thread, ProbeAnswer(x) PROVE TypeOK'
    <2>1. StageOK' /\ fresh' \in BOOLEAN /\ gaveUp' \in BOOLEAN
      BY <1>19, GateStages DEF ProbeAnswer
    <2>2. /\ UNCHANGED <<hermes, sync, recall, ending, jobs>>
          /\ verdict' \in {"unknown", "safe", "unsafe"}
          /\ probing' \subseteq Turn \cup Thread
      BY <1>19 DEF ProbeAnswer, TypeOK
    <2> QED
      BY <2>1, <2>2 DEF TypeOK, StageOK
  <1>20. ASSUME NEW x \in Turn \cup Thread, Probe(x) PROVE TypeOK'
    BY <1>20 DEF Probe, TypeOK
  <1>21. CASE Shutdown
    <2>1. StageOK'
      BY <1>21, CancelRecalls DEF Shutdown, Recalled
    <2> QED
      BY <1>21, <2>1 DEF Shutdown, TypeOK, StageOK
  <1>22. CASE CloserEnds
    BY <1>22 DEF CloserEnds, TypeOK
  <1>23. CASE UNCHANGED vars
    BY <1>23 DEF TypeOK
  <1> QED
    BY <1>1, <1>2, <1>3, <1>4, <1>5, <1>6, <1>7, <1>8, <1>9, <1>10, <1>11, <1>12, <1>13,
       <1>14, <1>15, <1>16, <1>17, <1>18, <1>19, <1>20, <1>21, <1>22, <1>23 DEF Next

\* A step of the pools, of the gate or of the closer.
Elsewhere == UNCHANGED <<hermes, recall>>

LEMMA HermesOrElsewhere ==
  ASSUME [Next]_vars
  PROVE  \/ \E t \in Text : StartTurn(t)
         \/ Prefetch \/ PrefetchOther \/ ContextReady \/ ReturnContext \/ ReturnBare
         \/ NoContext \/ MissHotWait \/ ToolWrite \/ ToolSubmit \/ EndTurn
         \/ \E s \in Session, reset, rewound \in BOOLEAN : Switch(s, reset, rewound)
         \/ SyncTurn
         \/ Elsewhere
  <1>1. CASE SyncSubmit
    BY <1>1 DEF SyncSubmit, Elsewhere
  <1>2. ASSUME NEW n \in Turn, FetchBegins(n) \/ FetchEnds(n) PROVE Elsewhere
    BY <1>2 DEF FetchBegins, FetchEnds, Elsewhere
  <1>3. ASSUME NEW h \in Thread, JobBegins(h) \/ FlushEnds(h) PROVE Elsewhere
    BY <1>3 DEF JobBegins, FlushEnds, Elsewhere
  <1>4. ASSUME NEW x \in Turn \cup Thread, GatePass(x) \/ Probe(x) \/ ProbeAnswer(x)
        PROVE  Elsewhere
    BY <1>4 DEF GatePass, Probe, ProbeAnswer, Elsewhere
  <1>5. CASE Shutdown \/ CloserEnds
    BY <1>5 DEF Shutdown, CloserEnds, Elsewhere
  <1>6. CASE UNCHANGED vars
    BY <1>6 DEF Elsewhere
  <1> QED
    BY <1>1, <1>2, <1>3, <1>4, <1>5, <1>6 DEF Next

LEMMA TurnCountedStep ==
  ASSUME TypeOK, TurnCounted, [Next]_vars
  PROVE  TurnCounted'
  <1> USE RuntimeAssumption DEF Turn
  <1>1. ASSUME NEW t \in Text, StartTurn(t) PROVE TurnCounted'
    <2>1. /\ turn + 1 \in Turn /\ turn' = turn + 1 /\ due' = due
          /\ about' = [about EXCEPT ![turn + 1] = <<session, t>>]
          /\ <<session, t>> \in Session \X Text
      BY <1>1 DEF StartTurn, TypeOK
    <2>2. \A n \in 1 .. turn + 1 : about'[n] \in Session \X Text
      BY <2>1 DEF TypeOK, TurnCounted
    <2> QED
      BY <2>1, <2>2 DEF TypeOK, TurnCounted
  <1>2. CASE Prefetch
    BY <1>2 DEF Prefetch, TurnCounted
  <1>3. CASE PrefetchOther
    BY <1>3 DEF PrefetchOther, TurnCounted
  <1>4. CASE ContextReady
    BY <1>4 DEF ContextReady, TurnCounted
  <1>5. CASE ReturnContext
    BY <1>5 DEF ReturnContext, StopWaiting, TurnCounted
  <1>6. CASE ReturnBare
    BY <1>6 DEF ReturnBare, StopWaiting, TurnCounted
  <1>7. CASE NoContext
    BY <1>7 DEF NoContext, StopWaiting, TurnCounted
  <1>8. CASE MissHotWait
    BY <1>8 DEF MissHotWait, StopWaiting, TurnCounted
  <1>9. CASE ToolWrite
    BY <1>9 DEF ToolWrite, TurnCounted
  <1>10. CASE ToolSubmit
    BY <1>10 DEF ToolSubmit, TurnCounted
  <1>11. CASE EndTurn
    BY <1>11 DEF EndTurn, TypeOK, TurnCounted
  <1>12. ASSUME NEW s \in Session, NEW reset, NEW rewound, Switch(s, reset, rewound)
         PROVE  TurnCounted'
    BY <1>12 DEF Switch, TurnCounted
  <1>13. CASE SyncTurn
    BY <1>13 DEF SyncTurn, TypeOK, TurnCounted
  <1>14. CASE Elsewhere
    BY <1>14 DEF Elsewhere, TurnCounted
  <1> QED
    BY HermesOrElsewhere, <1>1, <1>2, <1>3, <1>4, <1>5, <1>6, <1>7, <1>8, <1>9, <1>10,
       <1>11, <1>12, <1>13, <1>14

LEMMA OwnFutureStep ==
  ASSUME TypeOK, TurnCounted, OwnFuture, [Next]_vars
  PROVE  OwnFuture'
  <1> USE RuntimeAssumption DEF Turn
  <1>1. ASSUME NEW t \in Text, StartTurn(t) PROVE OwnFuture'
    <2>1. /\ turn + 1 \in Turn /\ turn' = turn + 1 /\ pc' = "begun"
          /\ about' = [about EXCEPT ![turn + 1] = <<session, t>>]
          /\ <<session, t>> \in Session \X Text
          /\ Schedule(<<session, t>>, turn + 1)
      BY <1>1 DEF StartTurn, TypeOK
    <2>2. slot'[<<session, t>>] = turn + 1
      BY <2>1, ScheduleRecalls
    <2>3. about'[turn + 1] = <<session, t>>
      BY <2>1 DEF TypeOK
    <2> QED
      BY <2>1, <2>2, <2>3 DEF OwnFuture
  <1>2. CASE Prefetch
    BY <1>2 DEF Prefetch, OwnFuture
  <1>3. CASE PrefetchOther
    BY <1>3 DEF PrefetchOther, OwnFuture
  <1>4. CASE ContextReady
    BY <1>4 DEF ContextReady, OwnFuture
  <1>5. CASE ReturnContext
    BY <1>5 DEF ReturnContext, StopWaiting, OwnFuture
  <1>6. CASE ReturnBare
    BY <1>6 DEF ReturnBare, StopWaiting, OwnFuture
  <1>7. CASE NoContext
    BY <1>7 DEF NoContext, StopWaiting, OwnFuture
  <1>8. CASE MissHotWait
    BY <1>8 DEF MissHotWait, StopWaiting, OwnFuture
  <1>9. CASE ToolWrite
    BY <1>9 DEF ToolWrite, OwnFuture
  <1>10. CASE ToolSubmit
    BY <1>10 DEF ToolSubmit, OwnFuture
  <1>11. CASE EndTurn
    BY <1>11 DEF EndTurn, OwnFuture
  <1>12. ASSUME NEW s \in Session, NEW reset, NEW rewound, Switch(s, reset, rewound)
         PROVE  OwnFuture'
    BY <1>12 DEF Switch, OwnFuture
  <1>13. CASE SyncTurn
    BY <1>13 DEF SyncTurn, OwnFuture
  <1>14. CASE Elsewhere
    BY <1>14 DEF Elsewhere, OwnFuture
  <1> QED
    BY HermesOrElsewhere, <1>1, <1>2, <1>3, <1>4, <1>5, <1>6, <1>7, <1>8, <1>9, <1>10,
       <1>11, <1>12, <1>13, <1>14

\* What a turn is given, and what is acknowledged, is the fetch it waits for.
LEMMA HandedOutStep ==
  ASSUME TypeOK, OwnFuture, FreshRecall, AcknowledgedIsReturned, [Next]_vars
  PROVE  FreshRecall' /\ AcknowledgedIsReturned'
  <1> USE DEF FreshRecall, AcknowledgedIsReturned
  <1>1. ASSUME NEW t \in Text, StartTurn(t) PROVE FreshRecall' /\ AcknowledgedIsReturned'
    BY <1>1 DEF StartTurn
  <1>2. CASE Prefetch
    BY <1>2 DEF Prefetch
  <1>3. CASE PrefetchOther
    BY <1>3 DEF PrefetchOther
  <1>4. CASE ContextReady
    BY <1>4 DEF ContextReady
  <1>5. CASE ReturnContext
    <2>1. awaited = turn /\ returned' = returned \cup {<<turn, turn>>}
      BY <1>5 DEF ReturnContext, OwnFuture
    <2> QED
      BY <1>5, <2>1 DEF ReturnContext
  <1>6. CASE ReturnBare
    <2>1. returned' = returned \cup {<<turn, turn>>}
      BY <1>6 DEF ReturnBare, OwnFuture
    <2> QED
      BY <1>6, <2>1 DEF ReturnBare
  <1>7. CASE NoContext
    BY <1>7 DEF NoContext
  <1>8. CASE MissHotWait
    BY <1>8 DEF MissHotWait
  <1>9. CASE ToolWrite
    BY <1>9 DEF ToolWrite
  <1>10. CASE ToolSubmit
    BY <1>10 DEF ToolSubmit
  <1>11. CASE EndTurn
    BY <1>11 DEF EndTurn
  <1>12. ASSUME NEW s \in Session, NEW reset, NEW rewound, Switch(s, reset, rewound)
         PROVE  FreshRecall' /\ AcknowledgedIsReturned'
    BY <1>12 DEF Switch
  <1>13. CASE SyncTurn
    BY <1>13 DEF SyncTurn
  <1>14. CASE Elsewhere
    BY <1>14 DEF Elsewhere
  <1> QED
    BY HermesOrElsewhere, <1>1, <1>2, <1>3, <1>4, <1>5, <1>6, <1>7, <1>8, <1>9, <1>10,
       <1>11, <1>12, <1>13, <1>14

-----------------------------------------------------------------------------
(* The gate, the flushes and the shutdown. *)

\* Steps that neither ask the gate, nor pass it, nor shut down: of the fetches
\* and the threads they cancel some, at the most.
AwayFromGate ==
    /\ UNCHANGED <<gate, ending>>
    /\ Recalled \/ UNCHANGED stage

LEMMA GateOrAway ==
  ASSUME TypeOK, [Next]_vars
  PROVE  \/ AwayFromGate
         \/ \E n \in Turn : FetchBegins(n) \/ FetchEnds(n)
         \/ \E h \in Thread : JobBegins(h) \/ FlushEnds(h)
         \/ \E x \in Turn \cup Thread : GatePass(x) \/ Probe(x) \/ ProbeAnswer(x)
         \/ Shutdown \/ CloserEnds
  <1>1. ASSUME NEW t \in Text, StartTurn(t) PROVE AwayFromGate
    <2>1. /\ UNCHANGED <<gate, ending>>
          /\ Schedule(<<session, t>>, turn + 1)
          /\ turn + 1 \in Turn /\ <<session, t>> \in Session \X Text
      BY <1>1, RuntimeAssumption DEF StartTurn, TypeOK, Turn
    <2> QED
      BY <2>1, ScheduleRecalls DEF AwayFromGate
  <1>2. CASE Prefetch \/ PrefetchOther
    BY <1>2 DEF Prefetch, PrefetchOther, AwayFromGate
  <1>3. CASE ContextReady \/ ReturnContext \/ ReturnBare
    BY <1>3 DEF ContextReady, ReturnContext, ReturnBare, AwayFromGate
  <1>4. CASE NoContext \/ MissHotWait
    BY <1>4 DEF NoContext, MissHotWait, AwayFromGate
  <1>5. CASE ToolWrite \/ ToolSubmit \/ EndTurn
    BY <1>5 DEF ToolWrite, ToolSubmit, EndTurn, AwayFromGate
  <1>6. ASSUME NEW s \in Session, NEW reset, NEW rewound, Switch(s, reset, rewound)
        PROVE  AwayFromGate
    BY <1>6, DiscardRecalls DEF Switch, AwayFromGate
  <1>7. CASE SyncTurn \/ SyncSubmit
    BY <1>7 DEF SyncTurn, SyncSubmit, AwayFromGate
  <1>8. CASE UNCHANGED vars
    BY <1>8 DEF AwayFromGate
  <1> QED
    BY <1>1, <1>2, <1>3, <1>4, <1>5, <1>6, <1>7, <1>8 DEF Next

\* Who gets past the gate, and where everybody else is meanwhile.
LEMMA GateOutcome ==
  ASSUME TypeOK, OneProbe, NEW x \in Turn \cup Thread, GatePass(x) \/ ProbeAnswer(x)
  PROVE  /\ UNCHANGED ending
         /\ verdict # "unknown" => UNCHANGED verdict
         /\ \/ Enter(x) /\ verdict' = "safe"
            \/ TurnBack(x) /\ UNCHANGED verdict
            \/ TurnBack(x) /\ verdict = "unknown"
         /\ probing' = {}
  BY DEF GatePass, ProbeAnswer, TypeOK, OneProbe

LEMMA GateStep ==
  ASSUME TypeOK, OneProbe, ClosedByShutdown, Gated, [Next]_vars
  PROVE  OneProbe' /\ ClosedByShutdown' /\ Gated'
  <1>1. CASE AwayFromGate
    <2>1. OneProbe' /\ ClosedByShutdown'
      BY <1>1 DEF AwayFromGate, OneProbe, ClosedByShutdown
    <2>2. \A x \in Turn \cup Thread :
             stage'[x] \in {"request", "flush"} => stage[x] \in {"request", "flush"}
      BY <1>1, ThreadAssumption
      DEF AwayFromGate, Recalled, StageOK, TypeOK, Unfinished, Done
    <2>3. Gated'
      BY <1>1, <2>2 DEF AwayFromGate, Gated
    <2> QED
      BY <2>1, <2>3
  <1>2. ASSUME NEW n \in Turn, FetchBegins(n) \/ FetchEnds(n)
        PROVE  OneProbe' /\ ClosedByShutdown' /\ Gated'
    BY <1>2 DEF FetchBegins, FetchEnds, OneProbe, ClosedByShutdown, Gated, TypeOK
  <1>3. ASSUME NEW h \in Thread, JobBegins(h) \/ FlushEnds(h)
        PROVE  OneProbe' /\ ClosedByShutdown' /\ Gated'
    BY <1>3 DEF JobBegins, FlushEnds, OneProbe, ClosedByShutdown, Gated, TypeOK
  <1>4. ASSUME NEW x \in Turn \cup Thread, GatePass(x) \/ ProbeAnswer(x)
        PROVE  OneProbe' /\ ClosedByShutdown' /\ Gated'
    <2>1. OneProbe' /\ ClosedByShutdown'
      BY <1>4, GateOutcome DEF OneProbe, ClosedByShutdown
    <2>2. CASE Enter(x) /\ verdict' = "safe"
      BY <2>1, <2>2 DEF Gated
    <2>3. CASE TurnBack(x)
      <3>1. stage'[x] \notin {"request", "flush"}
        BY <2>3 DEF TurnBack, Refused, TypeOK
      <3>2. UNCHANGED ending /\ (verdict = "safe" => verdict' = "safe")
        BY <1>4, GateOutcome
      <3> QED
        BY <2>1, <2>3, <3>1, <3>2, GateStages DEF Gated
    <2> QED
      BY <1>4, <2>1, <2>2, <2>3, GateOutcome
  <1>5. ASSUME NEW x \in Turn \cup Thread, Probe(x)
        PROVE  OneProbe' /\ ClosedByShutdown' /\ Gated'
    BY <1>5 DEF Probe, OneProbe, ClosedByShutdown, Gated
  <1>6. CASE Shutdown
    <2>1. OneProbe' /\ ClosedByShutdown'
      BY <1>6 DEF Shutdown, OneProbe, ClosedByShutdown
    <2>2. Gated'
      BY <1>6 DEF Shutdown, CancelQueued, Gated, TypeOK
    <2> QED
      BY <2>1, <2>2
  <1>7. CASE CloserEnds
    BY <1>7 DEF CloserEnds, OneProbe, ClosedByShutdown, Gated
  <1> QED
    BY GateOrAway, <1>1, <1>2, <1>3, <1>4, <1>5, <1>6, <1>7

\* Whoever enqueues an operation submits a flush afterwards, and a flush that
\* begins sees what was enqueued before.
LEMMA WakeupStep ==
  ASSUME TypeOK, ClosedByShutdown, WakeupKept, [Next]_vars
  PROVE  WakeupKept'
  <1>1. ASSUME NEW t \in Text, StartTurn(t) PROVE WakeupKept'
    BY <1>1 DEF StartTurn, WakeupKept, TypeOK
  <1>2. CASE Prefetch
    BY <1>2 DEF Prefetch, WakeupKept
  <1>3. CASE PrefetchOther
    BY <1>3 DEF PrefetchOther, WakeupKept
  <1>4. CASE ContextReady
    BY <1>4 DEF ContextReady, WakeupKept
  <1>5. CASE ReturnContext
    BY <1>5 DEF ReturnContext, WakeupKept, TypeOK
  <1>6. CASE ReturnBare
    BY <1>6 DEF ReturnBare, WakeupKept
  <1>7. CASE NoContext
    BY <1>7 DEF NoContext, WakeupKept
  <1>8. CASE MissHotWait
    BY <1>8 DEF MissHotWait, WakeupKept
  <1>9. CASE ToolWrite
    BY <1>9 DEF ToolWrite, WakeupKept
  <1>10. CASE ToolSubmit
    BY <1>10 DEF ToolSubmit, WakeupKept, TypeOK
  <1>11. CASE EndTurn
    BY <1>11 DEF EndTurn, WakeupKept
  <1>12. ASSUME NEW s \in Session, NEW reset, NEW rewound, Switch(s, reset, rewound)
         PROVE  WakeupKept'
    BY <1>12, DiscardRecalls DEF Switch, Recalled, WakeupKept
  <1>13. CASE SyncTurn
    BY <1>13 DEF SyncTurn, WakeupKept
  <1>14. CASE SyncSubmit
    BY <1>14 DEF SyncSubmit, WakeupKept, TypeOK
  <1>15. ASSUME NEW n \in Turn, FetchBegins(n) \/ FetchEnds(n) PROVE WakeupKept'
    <2>1. \A h \in Thread : stage'[h] = stage[h]
      BY <1>15, ThreadAssumption DEF FetchBegins, FetchEnds, TypeOK
    <2> QED
      BY <1>15, <2>1 DEF FetchBegins, FetchEnds, WakeupKept
  <1>16. ASSUME NEW h \in Thread, JobBegins(h) PROVE WakeupKept'
    <2>1. CASE closed
      BY <1>16, <2>1 DEF JobBegins, WakeupKept
    <2>2. CASE ~closed
      BY <1>16, <2>2 DEF JobBegins, WakeupKept, TypeOK
    <2> QED
      BY <2>1, <2>2
  <1>17. ASSUME NEW h \in Thread, FlushEnds(h) PROVE WakeupKept'
    <2>1. \A g \in Thread : stage[g] = "gate" => stage'[g] = "gate"
      BY <1>17 DEF FlushEnds, TypeOK
    <2> QED
      BY <1>17, <2>1 DEF FlushEnds, WakeupKept
  <1>18. ASSUME NEW x \in Turn \cup Thread, GatePass(x) \/ ProbeAnswer(x)
         PROVE  WakeupKept'
    <2>1. Enter(x) \/ TurnBack(x)
      BY <1>18 DEF GatePass, ProbeAnswer
    <2>2. UNCHANGED <<hermes, sync, ending, jobs>>
      BY <1>18 DEF GatePass, ProbeAnswer
    <2>3. \A y \in Turn \cup Thread : y # x => stage'[y] = stage[y]
      BY <2>1, GateStages
    <2>4. CASE x \in Turn
      <3>1. \A h \in Thread : stage'[h] = stage[h]
        BY <2>3, <2>4, ThreadAssumption
      <3>2. UNCHANGED <<fresh, gaveUp>>
        BY <2>1, <2>4, ThreadAssumption DEF Enter, TurnBack, Passed, TypeOK
      <3> QED
        BY <2>2, <3>1, <3>2 DEF WakeupKept
    <2>5. CASE x \in Thread /\ TurnBack(x)
      BY <2>5 DEF TurnBack, WakeupKept
    <2>6. CASE x \in Thread /\ Enter(x) /\ open
      BY <2>6, ThreadAssumption DEF Enter, Passed, WakeupKept
    <2>7. CASE ~open
      BY <2>2, <2>7 DEF ClosedByShutdown, WakeupKept
    <2> QED
      BY <2>1, <2>4, <2>5, <2>6, <2>7 DEF TypeOK
  <1>19. ASSUME NEW x \in Turn \cup Thread, Probe(x) PROVE WakeupKept'
    BY <1>19 DEF Probe, WakeupKept
  <1>20. CASE Shutdown
    BY <1>20 DEF Shutdown, WakeupKept
  <1>21. CASE CloserEnds
    BY <1>21 DEF CloserEnds, WakeupKept
  <1>22. CASE UNCHANGED vars
    BY <1>22 DEF WakeupKept
  <1> QED
    BY <1>1, <1>2, <1>3, <1>4, <1>5, <1>6, <1>7, <1>8, <1>9, <1>10, <1>11, <1>12, <1>13,
       <1>14, <1>15, <1>16, <1>17, <1>18, <1>19, <1>20, <1>21, <1>22 DEF Next

-----------------------------------------------------------------------------
(* The theorems. *)

\* Whatever Hermes, the pools and the server do, in whatever order, a runtime
\* stays in the states RuntimeIInv describes (runtime.py, recall.py).
THEOREM RuntimeInductive == Spec => []RuntimeIInv
  <1>1. RuntimeIInv /\ [Next]_vars => RuntimeIInv'
    BY RuntimeTypeStep, TurnCountedStep, OwnFutureStep, GateStep, HandedOutStep, WakeupStep
    DEF RuntimeIInv
  <1> QED
    BY RuntimeInit, <1>1, PTL DEF Spec

\* Every variable of a runtime keeps its type: no thread of the pool is lost at
\* the gate, no turn waits for a fetch that does not exist (runtime.py:303).
THEOREM RuntimeTypes == Spec => []TypeOK
  BY RuntimeInductive, PTL DEF RuntimeIInv

\* Nothing is fetched and nothing flushed, not even by a shutdown, before the
\* server has shown the credential to be restricted (runtime.py:253 and 303).
THEOREM GatedHolds == Spec => []Gated
  BY RuntimeInductive, PTL DEF RuntimeIInv

\* A turn is given the context it asked for itself, never that of an earlier one
\* (recall.py:77 and 85).
THEOREM FreshRecallHolds == Spec => []FreshRecall
  BY RuntimeInductive, PTL DEF RuntimeIInv

\* What is acknowledged as exposed was returned to Hermes, or is about to be
\* (recall.py:140).
THEOREM AcknowledgedHolds == Spec => []AcknowledgedIsReturned
  BY RuntimeInductive, PTL DEF RuntimeIInv

\* No operation is left in the outbox without a flush to come, but for a gate
\* that turned a flush away (runtime.py:133).
THEOREM WakeupHolds == Spec => []WakeupKept
  BY RuntimeInductive, PTL DEF RuntimeIInv

\* The verdict on a credential is given once: what was found safe is not asked
\* again, and what was found unsafe stays out until another runtime is made
\* (_credential_safe, runtime.py:303).
VerdictFinal == [][verdict # "unknown" => verdict' = verdict]_vars

THEOREM VerdictHolds == Spec => VerdictFinal
  <1>1. RuntimeIInv /\ [Next]_vars => [verdict # "unknown" => verdict' = verdict]_vars
    <2> SUFFICES ASSUME RuntimeIInv, [Next]_vars, verdict # "unknown"
                 PROVE  verdict' = verdict
      OBVIOUS
    <2>1. ASSUME NEW x \in Turn \cup Thread, GatePass(x) \/ ProbeAnswer(x)
          PROVE  verdict' = verdict
      BY <2>1, GateOutcome DEF RuntimeIInv
    <2>2. ASSUME NEW x \in Turn \cup Thread, Probe(x) PROVE verdict' = verdict
      BY <2>2 DEF Probe
    <2>3. CASE AwayFromGate
      BY <2>3 DEF AwayFromGate
    <2>4. ASSUME NEW n \in Turn, FetchBegins(n) \/ FetchEnds(n) PROVE verdict' = verdict
      BY <2>4 DEF FetchBegins, FetchEnds
    <2>5. ASSUME NEW h \in Thread, JobBegins(h) \/ FlushEnds(h) PROVE verdict' = verdict
      BY <2>5 DEF JobBegins, FlushEnds
    <2>6. CASE Shutdown \/ CloserEnds
      BY <2>6 DEF Shutdown, CloserEnds
    <2> QED
      BY GateOrAway, <2>1, <2>2, <2>3, <2>4, <2>5, <2>6 DEF RuntimeIInv
  <1> QED
    BY RuntimeInductive, <1>1, PTL DEF Spec, VerdictFinal

=============================================================================
