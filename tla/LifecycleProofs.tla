-------------------------- MODULE LifecycleProofs --------------------------
(***************************************************************************)
(* Theorems about the coming and going of runtimes, for any number of      *)
(* processes, initializations, turns and deaths: the database can always   *)
(* be opened again, who says it is configured has a runtime that works,    *)
(* and no completed turn is forgotten but the one whose sync, on an        *)
(* earlier runtime, the last mark has overlapped.                          *)
(***************************************************************************)
EXTENDS Lifecycle, TLAPS

USE DEF database, provider, conversation, vars

-----------------------------------------------------------------------------
(* The inductive invariant.  Most of it is about one provider at a time.   *)

Upcoming == {"joining", "opening", "locking", "creating"}

\* The tables are those of the version; who runs a script has read a version
\* that was old then, holds the lock, and nobody else has run one since.
SchemaOK ==
    /\ tables = Schema(version)
    /\ lock # NoOne => pc[lock] = "creating"
    /\ \A o \in Opener :
          /\ seen[o] <= version
          /\ pc[o] \in {"locking", "creating"} => seen[o] < 2
          /\ pc[o] = "creating" => lock = o /\ Missing(o) \cap tables = {}

\* The runtime is the last one made; those before it have been shut down, and
\* it has too while another is under way.
RuntimeOK(p) ==
    /\ runtime[p] = made[p]
    /\ made[p] <= inits[p] /\ inits[p] <= MaxInits
    /\ pc[p] \in Upcoming => made[p] < inits[p]
    /\ \A g \in Generation : /\ g > made[p] => closer[p][g] = "none"
                             /\ g < made[p] => closer[p][g] # "none"
                             /\ g = made[p] /\ pc[p] \in Upcoming => closer[p][g] # "none"
    /\ pc[p] \in {"joining", "exiting"} => made[p] # 0

\* While a runtime comes up the provider is not configured.
ComingUp(p) ==
    /\ pc[p] \in Upcoming \cup {"marking"} => ~configured[p]
    /\ pc[p] = "marking" => /\ made[p] # 0
                            /\ outbox[p][made[p]]
                            /\ closer[p][made[p]] = "none"
                            /\ version = 2

Serves(p) ==
    InService(p) => /\ made[p] # 0
                    /\ outbox[p][made[p]]
                    /\ closer[p][made[p]] = "none"
                    /\ version = 2

\* Turns are synced in order: after the one under way, and after one that is
\* due, all are due.
SyncOK(p) ==
    /\ \A m \in due[p] : m <= turns[p] /\ \A n \in m .. turns[p] : n \in due[p]
    /\ sync[p] # NoSync =>
          /\ sync[p].turn \in 1 .. turns[p]
          /\ sync[p].of \in 1 .. made[p]
          /\ sync[p].step # "none"
          /\ \A n \in sync[p].turn + 1 .. turns[p] : n \in due[p]
          /\ sync[p].step = "clear" => \A n \in 1 .. sync[p].turn - 1 : n \in captured[p]

\* While a runtime serves, a sync of an earlier one is the one its mark found.
OldSync(p) ==
    InService(p) /\ sync[p] # NoSync /\ sync[p].of # made[p] => sync[p].turn = overlapped[p]

Kept(p) ==
    InService(p) =>
        \A n \in 1 .. turns[p] :
            n \in captured[p] \cup due[p] \cup {sync[p].turn, overlapped[p]} \/ required[p]

ProviderOK(p) ==
    RuntimeOK(p) /\ ComingUp(p) /\ Serves(p) /\ SyncOK(p) /\ OldSync(p) /\ Kept(p)

LifecycleIInv == TypeOK /\ SchemaOK /\ \A p \in Provider : ProviderOK(p)

LEMMA LifecycleInit == Init => LifecycleIInv
  <1> SUFFICES ASSUME Init PROVE LifecycleIInv
    OBVIOUS
  <1> USE LifecycleAssumption
  <1>1. TypeOK
    <2>1. /\ version \in 0 .. 3 /\ tables \subseteq {"operations", "sessions"}
          /\ deaths \in [Provider -> 0 .. MaxDeaths]
      BY DEF Init, Schema
    <2>2. sync \in [Provider -> Sync]
      BY DEF Init, NoSync, Sync
    <2> QED
      BY <2>1, <2>2 DEF Init, TypeOK
  <1>2. SchemaOK
    BY DEF Init, SchemaOK
  <1>3. ASSUME NEW p \in Provider PROVE ProviderOK(p)
    <2>1. /\ pc[p] = "idle" /\ runtime[p] = 0 /\ made[p] = 0 /\ inits[p] = 0
          /\ configured[p] = FALSE /\ turns[p] = 0 /\ due[p] = {} /\ sync[p] = NoSync
          /\ \A g \in Generation : closer[p][g] = "none"
      BY DEF Init, Opener
    <2>2. RuntimeOK(p)
      BY <2>1 DEF RuntimeOK, Upcoming, Generation
    <2>3. ComingUp(p) /\ Serves(p) /\ SyncOK(p) /\ OldSync(p) /\ Kept(p)
      BY <2>1 DEF ComingUp, Serves, SyncOK, OldSync, Kept, InService, Upcoming
    <2> QED
      BY <2>2, <2>3 DEF ProviderOK
  <1> QED
    BY <1>1, <1>2, <1>3 DEF LifecycleIInv

-----------------------------------------------------------------------------
(* What the helpers do. *)

LEMMA Bounds == MaxInits \in Nat /\ MaxTurns \in Nat /\ MaxDeaths \in Nat
  BY LifecycleAssumption

LEMMA Processes == Opener = Provider \cup Operator /\ Provider \cap Operator = {}
  BY LifecycleAssumption DEF Opener

\* The labels of pc.
Place == {"idle", "joining", "opening", "locking", "creating", "marking", "flushing",
          "exiting", "down"}

\* Of a shutdown: nothing to do, a closer at work, or an outbox closed at once.
LEMMA ShutCases ==
  ASSUME TypeOK, NEW p \in Provider, RuntimeOK(p), NEW l \in Place, NEW after \in Place,
         ShutRuntimeDown(p, l, after)
  PROVE  \/ /\ made[p] = 0 \/ closer[p][made[p]] # "none"
            /\ pc' = [pc EXCEPT ![p] = after]
            /\ UNCHANGED <<outbox, closer>>
         \/ /\ made[p] \in Generation
            /\ pc' = [pc EXCEPT ![p] = l]
            /\ closer' = [closer EXCEPT ![p] = [@ EXCEPT ![made[p]] = "flushing"]]
            /\ UNCHANGED outbox
         \/ /\ made[p] \in Generation
            /\ pc' = [pc EXCEPT ![p] = after]
            /\ closer' = [closer EXCEPT ![p] = [@ EXCEPT ![made[p]] = "over"]]
            /\ outbox' = [outbox EXCEPT ![p] = [@ EXCEPT ![made[p]] = FALSE]]
  BY DEF TypeOK, RuntimeOK, ShutRuntimeDown, Goto

\* A provider opens its database: it has one runtime more.
LEMMA OpenedFacts ==
  ASSUME TypeOK, NEW p \in Provider, RuntimeOK(p), pc[p] \in Upcoming, Opened(p)
  PROVE  /\ made[p] + 1 \in Generation
         /\ made' = [made EXCEPT ![p] = made[p] + 1]
         /\ runtime' = [runtime EXCEPT ![p] = made[p] + 1]
         /\ outbox' = [outbox EXCEPT ![p] = [@ EXCEPT ![made[p] + 1] = TRUE]]
         /\ pc' = [pc EXCEPT ![p] = "marking"]
         /\ UNCHANGED <<configured, closer>>
  <1>1. made[p] \in 0 .. MaxInits /\ inits[p] \in Nat
    BY LifecycleAssumption DEF TypeOK, Generation, Opener
  <1>2. made[p] + 1 \in Generation
    BY <1>1, LifecycleAssumption DEF RuntimeOK, Generation
  <1>3. made'[p] = made[p] + 1
    BY DEF Opened, TypeOK
  <1> QED
    BY <1>2, <1>3 DEF Opened, Goto

LEMMA OperatorOpens ==
  ASSUME NEW o \in Operator, Opened(o)
  PROVE  pc' = [pc EXCEPT ![o] = "flushing"] /\ UNCHANGED provider
  BY LifecycleAssumption DEF Opened, Goto

-----------------------------------------------------------------------------
(* The database. *)

\* The steps that neither open the database nor leave a script.
DatabaseAlone ==
    /\ UNCHANGED <<database, seen>>
    /\ \/ UNCHANGED pc
       \/ \E o \in Opener, l \in Place \ {"locking", "creating"} :
             pc[o] # "creating" /\ pc' = [pc EXCEPT ![o] = l]

LEMMA SchemaFacts ==
  /\ Schema(0) = {} /\ Schema(1) = {"operations"}
  /\ Schema(2) = {"operations", "sessions"} /\ Schema(3) = {"operations", "sessions"}
  BY DEF Schema

LEMMA OpenOrAlone ==
  ASSUME TypeOK, \A p \in Provider : RuntimeOK(p), [Next]_vars
  PROVE  \/ DatabaseAlone
         \/ \E p \in Provider : Die(p)
         \/ \E o \in Opener : OpenStep(o)
  <1>1. ASSUME NEW p \in Provider, SyncStep(p) PROVE DatabaseAlone
    BY <1>1 DEF SyncStep, CompleteTurn, BeginSync, Connect, SyncFails, CheckRequired, Backfill,
                ClearRequired, Capture, DatabaseAlone
  <1>2. ASSUME NEW p \in Provider, Initialize(p) \/ ProviderShutdown(p) PROVE DatabaseAlone
    <2>1. UNCHANGED <<database, seen>> /\ pc[p] = "idle"
      BY <1>2 DEF Initialize, ProviderShutdown
    <2>2. \E l \in {"joining", "opening", "exiting", "down"} : pc' = [pc EXCEPT ![p] = l]
      BY <1>2 DEF Initialize, ProviderShutdown, ShutRuntimeDown, Goto
    <2> QED
      BY <2>1, <2>2 DEF DatabaseAlone, Opener, Place
  <1>3. ASSUME NEW p \in Provider, JoinEnds(p) \/ Mark(p) PROVE DatabaseAlone
    BY <1>3 DEF JoinEnds, Mark, Goto, AfterJoin, DatabaseAlone, Opener, Place
  <1>4. ASSUME NEW p \in Provider, NEW g, CloserEnds(p, g) PROVE DatabaseAlone
    BY <1>4 DEF CloserEnds, DatabaseAlone
  <1>5. ASSUME NEW o \in Operator, Command(o) \/ CommandEnds(o) PROVE DatabaseAlone
    BY <1>5 DEF Command, CommandEnds, Goto, DatabaseAlone, Opener, Place
  <1>6. CASE UNCHANGED vars
    BY <1>6 DEF DatabaseAlone
  <1> QED
    BY <1>1, <1>2, <1>3, <1>4, <1>5, <1>6 DEF Next, ProviderStep

\* Whoever runs a script, nobody runs it a second time, and nobody finds tables
\* without the version they belong to.
LEMMA SchemaStep ==
  ASSUME TypeOK, SchemaOK, \A p \in Provider : RuntimeOK(p), [Next]_vars
  PROVE  SchemaOK' /\ (version = 2 => version' = 2)
  <1> USE LifecycleAssumption DEF Opener
  <1>1. CASE DatabaseAlone
    BY <1>1 DEF DatabaseAlone, SchemaOK, TypeOK, Missing, Place
  <1>2. ASSUME NEW o \in Opener, UNCHANGED <<version, tables, seen>>, Unlock(o),
               pc' = [pc EXCEPT ![o] = "idle"]
        PROVE  SchemaOK' /\ version' = version
    BY <1>2 DEF SchemaOK, TypeOK, Missing, Unlock
  <1>3. ASSUME NEW o \in Opener, Fail(o) \/ (o \in Provider /\ Die(o))
        PROVE  SchemaOK' /\ version' = version
    BY <1>2, <1>3 DEF Fail, Die, Goto
  <1>4. ASSUME NEW o \in Opener, ReadVersion(o) PROVE SchemaOK' /\ version' = version
    <2>1. /\ UNCHANGED database /\ seen' = [seen EXCEPT ![o] = version]
          /\ pc[o] = "opening" /\ version \in 0 .. 3
      BY <1>4 DEF ReadVersion, TypeOK
    <2>2. \E l \in {"locking", "marking", "flushing", "idle"} :
             /\ pc' = [pc EXCEPT ![o] = l]
             /\ l = "locking" => version < 2
      BY <1>4, <2>1 DEF ReadVersion, Opened, Goto
    <2> QED
      BY <2>1, <2>2 DEF SchemaOK, TypeOK, Missing
  <1>5. ASSUME NEW o \in Opener, BeginScript(o) PROVE SchemaOK' /\ version' = version
    <2>1. /\ UNCHANGED <<version, tables, seen>> /\ pc[o] = "locking" /\ lock = NoOne
          /\ \/ Missing(o) \cap tables = {} /\ lock' = o /\ pc' = [pc EXCEPT ![o] = "creating"]
             \/ UNCHANGED lock /\ pc' = [pc EXCEPT ![o] = "idle"]
      BY <1>5 DEF BeginScript, Goto
    <2> QED
      BY <2>1 DEF SchemaOK, TypeOK, Missing
  <1>6. ASSUME NEW o \in Opener, CommitScript(o) PROVE SchemaOK' /\ version' = 2
    <2>1. /\ pc[o] = "creating" /\ version' = 2 /\ lock' = NoOne /\ UNCHANGED seen
          /\ tables' = tables \cup Missing(o)
      BY <1>6 DEF CommitScript
    <2>2. \E l \in {"marking", "flushing"} : pc' = [pc EXCEPT ![o] = l]
      BY <1>6 DEF CommitScript, Opened, Goto
    <2>3. version \in 0 .. 3 /\ seen[o] \in 0 .. 3 /\ seen[o] < 2 /\ seen[o] <= version
      BY <2>1 DEF SchemaOK, TypeOK
    <2>4. version < 2 /\ tables' = Schema(2)
      BY <2>1, <2>3, SchemaFacts DEF SchemaOK, Missing
    <2>5. \A q \in Opener : pc'[q] # "creating" /\ (pc'[q] = "locking" => pc[q] = "locking")
      BY <2>1, <2>2 DEF SchemaOK, TypeOK
    <2>6. ASSUME NEW q \in Opener PROVE seen[q] <= 2
      <3>1. seen[q] \in 0 .. 3 /\ seen[q] <= version
        BY DEF SchemaOK, TypeOK
      <3> QED
        BY <2>3, <2>4, <3>1
    <2> QED
      BY <2>1, <2>4, <2>5, <2>6 DEF SchemaOK
  <1> QED
    BY OpenOrAlone, <1>1, <1>3, <1>4, <1>5, <1>6 DEF OpenStep, DatabaseAlone

-----------------------------------------------------------------------------
(* Types. *)

LEMMA SyncGoesOn ==
  ASSUME TypeOK, NEW p \in Provider, NEW step \in {"check", "backfill", "clear", "capture"},
         SyncTo(p, step)
  PROVE  /\ sync' \in [Provider -> Sync]
         /\ sync'[p].turn = sync[p].turn /\ sync'[p].of = sync[p].of
         /\ sync'[p].step = step
  BY DEF TypeOK, SyncTo, Sync

LEMMA LifecycleTypeStep ==
  ASSUME TypeOK, \A p \in Provider : RuntimeOK(p) /\ SyncOK(p), [Next]_vars
  PROVE  TypeOK'
  <1> USE Processes
  <1>1. ASSUME NEW p \in Provider, Initialize(p) \/ ProviderShutdown(p) PROVE TypeOK'
    <2>1. PICK l \in Place, after \in Place : ShutRuntimeDown(p, l, after)
      BY <1>1 DEF Initialize, ProviderShutdown, Place
    <2>2. /\ pc' \in [Opener -> Place]
          /\ outbox' \in [Provider -> [Generation -> BOOLEAN]]
          /\ closer' \in [Provider -> [Generation -> {"none", "flushing", "over"}]]
      <3>1. CASE pc' = [pc EXCEPT ![p] = after] /\ UNCHANGED <<outbox, closer>>
        BY <3>1 DEF TypeOK, Place
      <3>2. CASE /\ pc' = [pc EXCEPT ![p] = l]
                 /\ closer' = [closer EXCEPT ![p] = [@ EXCEPT ![made[p]] = "flushing"]]
                 /\ UNCHANGED outbox
        BY <3>2 DEF TypeOK, Place
      <3>3. CASE /\ pc' = [pc EXCEPT ![p] = after]
                 /\ closer' = [closer EXCEPT ![p] = [@ EXCEPT ![made[p]] = "over"]]
                 /\ outbox' = [outbox EXCEPT ![p] = [@ EXCEPT ![made[p]] = FALSE]]
        BY <3>3 DEF TypeOK, Place
      <3> QED
        BY <2>1, <3>1, <3>2, <3>3, ShutCases
    <2>3. CASE Initialize(p)
      <3>1. configured' \in [Provider -> BOOLEAN] /\ inits' \in [Opener -> Nat]
        BY <2>3 DEF Initialize, TypeOK
      <3> QED
        BY <2>2, <2>3, <3>1 DEF Initialize, TypeOK, Place
    <2>4. CASE ProviderShutdown(p)
      BY <2>2, <2>4 DEF ProviderShutdown, TypeOK, Place
    <2> QED
      BY <1>1, <2>3, <2>4
  <1>2. ASSUME NEW p \in Provider, JoinEnds(p) PROVE TypeOK'
    BY <1>2 DEF JoinEnds, AfterJoin, Goto, TypeOK
  <1>3. ASSUME NEW p \in Provider, Mark(p) PROVE TypeOK'
    <2>1. overlapped' \in [Provider -> {0} \cup Turn]
      BY <1>3 DEF Mark, TypeOK, Sync
    <2> QED
      BY <1>3, <2>1 DEF Mark, Goto, TypeOK
  <1>4. ASSUME NEW p \in Provider, Die(p) PROVE TypeOK'
    <2>1. /\ lock' \in Opener \cup {NoOne} /\ pc' \in [Opener -> Place]
          /\ deaths' \in [Provider -> 0 .. MaxDeaths]
      <3>1. pc' = [pc EXCEPT ![p] = "idle"] /\ lock' \in {lock, NoOne}
        BY <1>4 DEF Die, Unlock, Goto
      <3>2. deaths' = [deaths EXCEPT ![p] = deaths[p] + 1] /\ deaths[p] + 1 \in 0 .. MaxDeaths
        BY <1>4, Bounds DEF Die, TypeOK
      <3> QED
        BY <3>1, <3>2 DEF TypeOK, Place
    <2>2. /\ made' \in [Provider -> {0} \cup Generation]
          /\ runtime' \in [Provider -> {0} \cup Generation]
          /\ configured' \in [Provider -> BOOLEAN]
          /\ outbox' \in [Provider -> [Generation -> BOOLEAN]]
          /\ closer' \in [Provider -> [Generation -> {"none", "flushing", "over"}]]
      BY <1>4 DEF Die, TypeOK
    <2>3. /\ due' \in [Provider -> SUBSET Turn] /\ overlapped' \in [Provider -> {0} \cup Turn]
          /\ sync' \in [Provider -> Sync]
      BY <1>4 DEF Die, TypeOK, NoSync, Sync
    <2> QED
      BY <1>4, <2>1, <2>2, <2>3 DEF Die, TypeOK, Place
  <1>5. ASSUME NEW p \in Provider, NEW g \in Generation, CloserEnds(p, g) PROVE TypeOK'
    BY <1>5 DEF CloserEnds, TypeOK
  <1>6. ASSUME NEW p \in Provider, CompleteTurn(p) PROVE TypeOK'
    <2>1. turns[p] + 1 \in Turn
      <3>1. turns[p] \in 0 .. MaxTurns /\ turns[p] < MaxTurns
        BY <1>6, Bounds DEF CompleteTurn, TypeOK, Turn
      <3> QED
        BY <3>1, Bounds DEF Turn
    <2>2. turns' = [turns EXCEPT ![p] = turns[p] + 1] /\ turns'[p] = turns[p] + 1
      BY <1>6 DEF CompleteTurn, TypeOK
    <2> QED
      BY <1>6, <2>1, <2>2 DEF CompleteTurn, TypeOK
  <1>7. ASSUME NEW p \in Provider, BeginSync(p) PROVE TypeOK'
    <2>1. due' \in [Provider -> SUBSET Turn]
      BY <1>7 DEF BeginSync, TypeOK
    <2>2. sync' \in [Provider -> Sync]
      <3>1. PICK n \in due[p] :
               \/ sync' = [sync EXCEPT ![p] = [turn |-> n, of |-> runtime[p],
                                               step |-> "check", connected |-> FALSE]]
               \/ UNCHANGED sync
        BY <1>7 DEF BeginSync
      <3>2. n \in Turn /\ runtime[p] \in {0} \cup Generation /\ sync \in [Provider -> Sync]
        BY DEF TypeOK
      <3>3. [turn |-> n, of |-> runtime[p], step |-> "check", connected |-> FALSE] \in Sync
        BY <3>2 DEF Sync
      <3> QED
        BY <3>1, <3>2, <3>3
    <2> QED
      BY <1>7, <2>1, <2>2 DEF BeginSync, TypeOK
  <1>8. ASSUME NEW p \in Provider, Backfill(p) PROVE TypeOK'
    <2>1. sync' \in [Provider -> Sync]
      BY <1>8, SyncGoesOn DEF Backfill
    <2>2. Unindexed(p) \subseteq Turn
      <3>1. sync[p].turn \in {0} \cup Turn
        BY DEF TypeOK, Sync
      <3> QED
        BY <3>1, Bounds DEF Unindexed, Turn
    <2>3. captured' \in [Provider -> SUBSET Turn]
      <3>1. CASE UNCHANGED captured
        BY <3>1 DEF TypeOK
      <3>2. CASE \E n \in Unindexed(p) : captured' = [captured EXCEPT ![p] = @ \cup {n}]
        BY <2>2, <3>2 DEF TypeOK
      <3> QED
        BY <1>8, <3>1, <3>2 DEF Backfill
    <2>4. UNCHANGED <<database, pc, seen, provider, turns, required, due, overlapped, inits, deaths>>
      BY <1>8 DEF Backfill
    <2> QED
      BY <2>1, <2>3, <2>4 DEF TypeOK
  <1>9. ASSUME NEW p \in Provider, ClearRequired(p) PROVE TypeOK'
    <2>1. sync' \in [Provider -> Sync]
      BY <1>9, SyncGoesOn DEF ClearRequired
    <2> QED
      BY <1>9, <2>1 DEF ClearRequired, TypeOK
  <1>10. ASSUME NEW p \in Provider, Capture(p) PROVE TypeOK'
    <2>1. sync[p] # NoSync
      BY <1>10 DEF Capture, NoSync
    <2>2. sync[p].turn \in Turn /\ sync' \in [Provider -> Sync]
      BY <1>10, <2>1 DEF Capture, SyncOK, TypeOK, Sync, NoSync
    <2> QED
      BY <1>10, <2>2 DEF Capture, TypeOK
  <1>11. ASSUME NEW p \in Provider, Connect(p) \/ SyncFails(p) \/ CheckRequired(p)
         PROVE  TypeOK'
    <2>1. CASE Connect(p)
      BY <2>1 DEF Connect, TypeOK, Sync
    <2>2. CASE SyncFails(p)
      BY <2>2 DEF SyncFails, TypeOK, NoSync, Sync
    <2>3. CASE CheckRequired(p)
      <3>1. sync' \in [Provider -> Sync]
        BY <2>3, SyncGoesOn DEF CheckRequired
      <3> QED
        BY <2>3, <3>1 DEF CheckRequired, TypeOK
    <2> QED
      BY <1>11, <2>1, <2>2, <2>3
  <1>12. ASSUME NEW o \in Operator, Command(o) \/ CommandEnds(o) PROVE TypeOK'
    <2>1. pc' \in [Opener -> Place] /\ inits' \in [Opener -> Nat]
      <3>1. \E l \in Place : pc' = [pc EXCEPT ![o] = l]
        BY <1>12 DEF Command, CommandEnds, Goto, Place
      <3>2. inits' = inits \/ inits' = [inits EXCEPT ![o] = 1]
        BY <1>12 DEF Command, CommandEnds
      <3> QED
        BY <3>1, <3>2 DEF TypeOK, Place
    <2>2. UNCHANGED <<database, seen, provider, conversation, overlapped, deaths>>
      BY <1>12 DEF Command, CommandEnds
    <2> QED
      BY <2>1, <2>2 DEF TypeOK, Place
  <1>13. ASSUME NEW o \in Opener, pc[o] \in Upcoming,
                \/ Opened(o)
                \/ UNCHANGED provider /\ \E l \in Place : pc' = [pc EXCEPT ![o] = l]
         PROVE  /\ pc' \in [Opener -> Place]
                /\ made' \in [Provider -> {0} \cup Generation]
                /\ runtime' \in [Provider -> {0} \cup Generation]
                /\ configured' \in [Provider -> BOOLEAN]
                /\ outbox' \in [Provider -> [Generation -> BOOLEAN]]
                /\ closer' \in [Provider -> [Generation -> {"none", "flushing", "over"}]]
    <2>1. CASE o \in Provider /\ Opened(o)
      <3>1. /\ made[o] + 1 \in Generation
            /\ made' = [made EXCEPT ![o] = made[o] + 1]
            /\ runtime' = [runtime EXCEPT ![o] = made[o] + 1]
            /\ outbox' = [outbox EXCEPT ![o] = [@ EXCEPT ![made[o] + 1] = TRUE]]
            /\ pc' = [pc EXCEPT ![o] = "marking"]
            /\ UNCHANGED <<configured, closer>>
        BY <1>13, <2>1, OpenedFacts
      <3> QED
        BY <3>1 DEF TypeOK, Place
    <2>2. CASE o \in Operator /\ Opened(o)
      BY <2>2, OperatorOpens DEF TypeOK, Place
    <2>3. CASE UNCHANGED provider /\ \E l \in Place : pc' = [pc EXCEPT ![o] = l]
      BY <2>3 DEF TypeOK, Place
    <2> QED
      BY <1>13, <2>1, <2>2, <2>3
  <1>14. ASSUME NEW o \in Opener, ReadVersion(o) PROVE TypeOK'
    <2>1. \/ Opened(o)
          \/ UNCHANGED provider /\ \E l \in Place : pc' = [pc EXCEPT ![o] = l]
      BY <1>14 DEF ReadVersion, Goto, Place, TypeOK
    <2>2. /\ UNCHANGED <<database, conversation, overlapped, inits, deaths>>
          /\ seen' \in [Opener -> 0 .. 3] /\ pc[o] \in Upcoming
      BY <1>14 DEF ReadVersion, TypeOK, Upcoming
    <2> QED
      BY <1>13, <2>1, <2>2 DEF TypeOK, Place
  <1>15. ASSUME NEW o \in Opener, BeginScript(o) PROVE TypeOK'
    BY <1>15 DEF BeginScript, Goto, TypeOK
  <1>16. ASSUME NEW o \in Opener, CommitScript(o) PROVE TypeOK'
    <2>1. /\ UNCHANGED <<seen, conversation, overlapped, inits, deaths>> /\ Opened(o)
          /\ version' = 2 /\ lock' = NoOne /\ tables' = tables \cup Missing(o)
          /\ pc[o] \in Upcoming
      BY <1>16 DEF CommitScript, Upcoming
    <2>2. tables' \subseteq {"operations", "sessions"}
      BY <2>1, SchemaFacts DEF TypeOK, Missing
    <2>3. version' \in 0 .. 3 /\ lock' \in Opener \cup {NoOne}
      BY <2>1
    <2> QED
      BY <1>13, <2>1, <2>2, <2>3 DEF TypeOK, Place
  <1>17. ASSUME NEW o \in Opener, Fail(o) PROVE TypeOK'
    BY <1>17 DEF Fail, Unlock, Goto, TypeOK
  <1>18. CASE UNCHANGED vars
    BY <1>18 DEF TypeOK
  <1> QED
    BY <1>1, <1>2, <1>3, <1>4, <1>5, <1>6, <1>7, <1>8, <1>9, <1>10, <1>11, <1>12, <1>14,
       <1>15, <1>16, <1>17, <1>18 DEF Next, ProviderStep, SyncStep, OpenStep

-----------------------------------------------------------------------------
(* Each provider by itself. *)

Same(q) ==
    /\ UNCHANGED <<pc[q], inits[q], overlapped[q]>>
    /\ UNCHANGED <<runtime[q], configured[q], made[q], outbox[q], closer[q]>>
    /\ UNCHANGED <<turns[q], captured[q], required[q], due[q], sync[q]>>

\* A provider that a step leaves alone stays as it was.
LEMMA Frame ==
  ASSUME NEW q \in Provider, ProviderOK(q), Same(q), version = 2 => version' = 2
  PROVE  ProviderOK(q)'
  <1>1. RuntimeOK(q)' /\ ComingUp(q)' /\ Serves(q)'
    BY DEF ProviderOK, RuntimeOK, ComingUp, Serves, InService, Same
  <1>2. SyncOK(q)' /\ OldSync(q)' /\ Kept(q)'
    BY DEF ProviderOK, SyncOK, OldSync, Kept, InService, Same
  <1> QED
    BY <1>1, <1>2 DEF ProviderOK

LEMMA Numbers ==
  ASSUME TypeOK, NEW p \in Provider
  PROVE  /\ pc[p] \in Place
         /\ made[p] \in Nat /\ inits[p] \in Nat /\ turns[p] \in Nat
         /\ sync[p].turn \in Nat /\ sync[p].of \in Nat
         /\ due[p] \subseteq Nat
         /\ MaxInits \in Nat /\ Generation = 1 .. MaxInits
  BY Bounds DEF TypeOK, Sync, Place, Opener, Turn, Generation

\* The parts about runtimes need the runtimes, those about turns the turns.
RuntimePart(p) == RuntimeOK(p) /\ ComingUp(p) /\ Serves(p)
TurnPart(p) == SyncOK(p) /\ OldSync(p) /\ Kept(p)

LEMMA Parts == ASSUME NEW p PROVE ProviderOK(p) <=> RuntimePart(p) /\ TurnPart(p)
  BY DEF ProviderOK, RuntimePart, TurnPart

\* Shutting its runtime down makes of a provider one that is coming up, or one
\* that is leaving.
LEMMA ShutStep ==
  ASSUME TypeOK, NEW p \in Provider, ProviderOK(p), Initialize(p) \/ ProviderShutdown(p)
  PROVE  ProviderOK(p)' /\ \A q \in Provider : q # p => Same(q)
  <1>1. /\ RuntimeOK(p) /\ ComingUp(p) /\ Serves(p) /\ SyncOK(p)
        /\ pc[p] = "idle"
    BY DEF ProviderOK, Initialize, ProviderShutdown
  <1>2. /\ UNCHANGED <<runtime[p], made[p], overlapped[p], turns[p], captured[p], required[p]>>
        /\ UNCHANGED <<due[p], sync[p], version>>
        /\ \A q \in Provider : q # p =>
              /\ UNCHANGED <<inits[q], overlapped[q], runtime[q], configured[q], made[q]>>
              /\ UNCHANGED <<turns[q], captured[q], required[q], due[q], sync[q]>>
    BY DEF Initialize, ProviderShutdown, TypeOK, Opener
  <1>3. PICK l \in {"joining", "exiting"}, after \in {"opening", "down"} :
           /\ ShutRuntimeDown(p, l, after)
           /\ l = "joining" => after = "opening" /\ inits'[p] = inits[p] + 1
                               /\ inits[p] < MaxInits /\ configured'[p] = FALSE
           /\ l = "exiting" => after = "down" /\ UNCHANGED <<inits[p], configured[p]>>
    BY DEF Initialize, ProviderShutdown, TypeOK, Opener
  <1> DEFINE
        Nothing == /\ pc' = [pc EXCEPT ![p] = after]
                   /\ UNCHANGED <<outbox, closer>>
        Flushed == /\ pc' = [pc EXCEPT ![p] = l]
                   /\ closer' = [closer EXCEPT ![p] = [@ EXCEPT ![made[p]] = "flushing"]]
                   /\ UNCHANGED outbox
        AtOnce == /\ pc' = [pc EXCEPT ![p] = after]
                  /\ closer' = [closer EXCEPT ![p] = [@ EXCEPT ![made[p]] = "over"]]
                  /\ outbox' = [outbox EXCEPT ![p] = [@ EXCEPT ![made[p]] = FALSE]]
  <1>4. \/ (made[p] = 0 \/ closer[p][made[p]] # "none") /\ Nothing
        \/ made[p] \in Generation /\ (Flushed \/ AtOnce)
    <2>1. l \in Place /\ after \in Place
      BY DEF Place
    <2> QED
      BY <1>1, <1>3, <2>1, ShutCases
  <1>5. /\ \/ /\ made[p] = 0 \/ closer[p][made[p]] # "none"
              /\ pc'[p] = after /\ UNCHANGED closer[p]
           \/ /\ made[p] # 0 /\ pc'[p] = l
              /\ closer'[p] = [closer[p] EXCEPT ![made[p]] = "flushing"]
           \/ /\ made[p] # 0 /\ pc'[p] = after
              /\ closer'[p] = [closer[p] EXCEPT ![made[p]] = "over"]
        /\ \A q \in Provider : q # p => UNCHANGED <<pc[q], closer[q], outbox[q]>>
    <2>1. p \in Opener /\ 0 \notin Generation
      BY DEF Opener, Generation
    <2>2. CASE (made[p] = 0 \/ closer[p][made[p]] # "none") /\ Nothing
      BY <2>1, <2>2 DEF TypeOK
    <2>3. CASE made[p] \in Generation /\ Flushed
      BY <2>1, <2>3 DEF TypeOK
    <2>4. CASE made[p] \in Generation /\ AtOnce
      BY <2>1, <2>4 DEF TypeOK
    <2> QED
      BY <1>4, <2>2, <2>3, <2>4
  <1>6. ~InService(p)'
    BY <1>3, <1>5 DEF InService
  <1>7. closer[p] \in [Generation -> {"none", "flushing", "over"}]
    BY DEF TypeOK
  <1>8. RuntimeOK(p)'
    <2>1. /\ runtime'[p] = made'[p] /\ made'[p] <= inits'[p] /\ inits'[p] <= MaxInits
          /\ pc'[p] \in Upcoming => made'[p] < inits'[p]
          /\ pc'[p] \in {"joining", "exiting"} => made'[p] # 0
      BY <1>1, <1>2, <1>3, <1>5, Numbers DEF RuntimeOK, Upcoming
    <2>2. /\ \A g \in Generation : closer'[p][g] = "none" => closer[p][g] = "none"
          /\ \A g \in Generation : g # made[p] => closer'[p][g] = closer[p][g]
          /\ made[p] \in Generation => closer'[p][made[p]] # "none"
      <3>1. 0 \notin Generation
        BY DEF Generation
      <3> QED
        BY <1>5, <1>7, <3>1
    <2>3. \A g \in Generation : /\ g > made[p] => g # made[p]
                                /\ g < made[p] => g # made[p]
      BY Numbers
    <2> QED
      BY <1>1, <1>2, <2>1, <2>2, <2>3 DEF RuntimeOK
  <1>9. ComingUp(p)' /\ Serves(p)' /\ SyncOK(p)' /\ OldSync(p)' /\ Kept(p)'
    BY <1>1, <1>2, <1>3, <1>5, <1>6 DEF ComingUp, Upcoming, Serves, SyncOK, OldSync, Kept
  <1> QED
    BY <1>2, <1>5, <1>8, <1>9 DEF ProviderOK, Same

\* What a step of a provider that concerns neither its turns nor another does.
TurnsAlone(p) ==
    /\ UNCHANGED <<turns[p], captured[p], required[p], due[p], sync[p]>>
    /\ \A q \in Provider : q # p => Same(q)

LEMMA JoinStep ==
  ASSUME TypeOK, NEW p \in Provider, ProviderOK(p), JoinEnds(p)
  PROVE  ProviderOK(p)' /\ \A q \in Provider : q # p => Same(q)
  <1>1. RuntimeOK(p) /\ ComingUp(p) /\ SyncOK(p)
    BY DEF ProviderOK
  <1>2. TurnsAlone(p) /\ UNCHANGED <<version, made[p], runtime[p], inits[p], configured[p],
                                     closer[p], outbox[p]>>
    BY DEF JoinEnds, Goto, TurnsAlone, Same, TypeOK
  <1>3. /\ pc[p] \in {"joining", "exiting"}
        /\ pc'[p] = IF pc[p] = "joining" THEN "opening" ELSE "down"
    BY <1>1 DEF JoinEnds, Goto, AfterJoin, TypeOK, Opener, RuntimeOK
  <1>4. RuntimeOK(p)' /\ ComingUp(p)'
    BY <1>1, <1>2, <1>3 DEF RuntimeOK, ComingUp, Upcoming
  <1>5. ~InService(p)'
    BY <1>1, <1>2, <1>3 DEF InService, ComingUp, Upcoming
  <1>6. SyncOK(p)' /\ Serves(p)' /\ OldSync(p)' /\ Kept(p)'
    BY <1>1, <1>2, <1>5 DEF SyncOK, Serves, OldSync, Kept, TurnsAlone
  <1> QED
    BY <1>2, <1>4, <1>6 DEF ProviderOK, TurnsAlone

\* The mark makes good whatever was lost while nothing was configured, and notes
\* the sync of an earlier runtime that is still under way.
LEMMA MarkStep ==
  ASSUME TypeOK, NEW p \in Provider, ProviderOK(p), Mark(p)
  PROVE  ProviderOK(p)' /\ \A q \in Provider : q # p => Same(q)
  <1>1. RuntimeOK(p) /\ ComingUp(p) /\ SyncOK(p)
    BY DEF ProviderOK
  <1>2. /\ UNCHANGED <<version, made[p], runtime[p], inits[p], closer[p], outbox[p]>>
        /\ UNCHANGED <<turns[p], captured[p], due[p], sync[p]>>
        /\ \A q \in Provider : q # p => Same(q)
    BY DEF Mark, Goto, Same, TypeOK
  <1>3. pc[p] = "marking" /\ pc'[p] = "idle" /\ required'[p] = TRUE
    BY DEF Mark, Goto, TypeOK, Opener
  <1>4. RuntimeOK(p)' /\ ComingUp(p)' /\ Serves(p)'
    BY <1>1, <1>2, <1>3 DEF RuntimeOK, ComingUp, Serves, Upcoming
  <1>5. sync[p] # NoSync /\ sync[p].of # made[p] => overlapped'[p] = sync[p].turn
    <2>1. overlapped'[p] = IF sync[p].of \notin {0, runtime[p]} THEN sync[p].turn ELSE 0
      BY DEF Mark, TypeOK
    <2>2. sync[p] # NoSync => sync[p].of # 0
      BY <1>1, Numbers DEF SyncOK
    <2> QED
      BY <1>1, <2>1, <2>2 DEF RuntimeOK
  <1>6. SyncOK(p)' /\ OldSync(p)' /\ Kept(p)'
    BY <1>1, <1>2, <1>3, <1>5 DEF SyncOK, OldSync, Kept
  <1> QED
    BY <1>2, <1>4, <1>6 DEF ProviderOK

LEMMA DieStep ==
  ASSUME TypeOK, NEW p \in Provider, ProviderOK(p), Die(p)
  PROVE  ProviderOK(p)' /\ \A q \in Provider : q # p => Same(q)
  <1>1. /\ pc'[p] = "idle" /\ runtime'[p] = 0 /\ made'[p] = 0 /\ configured'[p] = FALSE
        /\ closer'[p] = [g \in Generation |-> "none"] /\ due'[p] = {} /\ sync'[p] = NoSync
        /\ UNCHANGED inits[p] /\ inits[p] <= MaxInits
    BY DEF Die, Goto, TypeOK, Opener, ProviderOK, RuntimeOK
  <1>2. \A q \in Provider : q # p => Same(q)
    BY DEF Die, Goto, Same, TypeOK
  <1>3. RuntimeOK(p)' /\ ComingUp(p)'
    BY <1>1, Numbers DEF RuntimeOK, ComingUp, Upcoming
  <1>4. Serves(p)' /\ SyncOK(p)' /\ OldSync(p)' /\ Kept(p)'
    BY <1>1 DEF Serves, SyncOK, OldSync, Kept, InService
  <1> QED
    BY <1>2, <1>3, <1>4 DEF ProviderOK

\* A closer that ends while a runtime serves is that of an earlier one.
LEMMA CloserStep ==
  ASSUME TypeOK, NEW p \in Provider, ProviderOK(p), NEW g \in Generation, CloserEnds(p, g)
  PROVE  ProviderOK(p)' /\ \A q \in Provider : q # p => Same(q)
  <1>1. RuntimeOK(p) /\ ComingUp(p) /\ Serves(p) /\ SyncOK(p) /\ OldSync(p) /\ Kept(p)
    BY DEF ProviderOK
  <1>2. TurnsAlone(p) /\ UNCHANGED <<version, pc[p], made[p], runtime[p], inits[p],
                                     configured[p], overlapped[p]>>
    BY DEF CloserEnds, TurnsAlone, Same, TypeOK
  <1>3. /\ closer[p][g] = "flushing" /\ closer'[p] = [closer[p] EXCEPT ![g] = "over"]
        /\ \A h \in Generation : h # g => outbox'[p][h] = outbox[p][h]
    BY DEF CloserEnds, TypeOK
  <1>4. closer[p] \in [Generation -> {"none", "flushing", "over"}]
    BY DEF TypeOK
  <1>5. RuntimeOK(p)'
    BY <1>1, <1>2, <1>3, <1>4 DEF RuntimeOK
  <1>6. made[p] \in Generation /\ closer[p][made[p]] = "none" =>
            outbox'[p][made[p]] = outbox[p][made[p]] /\ closer'[p][made[p]] = "none"
    BY <1>3, <1>4
  <1>7. made[p] # 0 => made[p] \in Generation
    BY DEF TypeOK
  <1>8. ComingUp(p)' /\ Serves(p)'
    BY <1>1, <1>2, <1>6, <1>7 DEF ComingUp, Serves, InService
  <1>9. SyncOK(p)' /\ OldSync(p)' /\ Kept(p)'
    BY <1>1, <1>2 DEF SyncOK, OldSync, Kept, InService, TurnsAlone
  <1> QED
    BY <1>1, <1>2, <1>5, <1>8, <1>9 DEF ProviderOK, TurnsAlone

\* What a step of a provider does that concerns its turns alone.
RuntimeAlone(p) ==
    /\ UNCHANGED <<version, pc[p], inits[p], overlapped[p], runtime[p], configured[p], made[p],
                   outbox[p], closer[p]>>
    /\ \A q \in Provider : q # p => Same(q)

LEMMA SyncSteps ==
  ASSUME TypeOK, NEW p \in Provider, SyncStep(p)
  PROVE  RuntimeAlone(p)
  <1>1. UNCHANGED <<database, pc, provider, overlapped, inits>>
    BY DEF SyncStep, CompleteTurn, BeginSync, Connect, SyncFails, CheckRequired, Backfill,
           ClearRequired, Capture
  <1>2. \A q \in Provider : q # p => UNCHANGED <<turns[q], captured[q], required[q], due[q]>>
    BY DEF SyncStep, CompleteTurn, BeginSync, Connect, SyncFails, CheckRequired, Backfill,
           ClearRequired, Capture, SyncTo, TypeOK
  <1>3. \A q \in Provider : q # p => UNCHANGED sync[q]
    BY DEF SyncStep, CompleteTurn, BeginSync, Connect, SyncFails, CheckRequired, Backfill,
           ClearRequired, Capture, SyncTo, TypeOK
  <1> QED
    BY <1>1, <1>2, <1>3 DEF RuntimeAlone, Same

LEMMA RuntimePartKept ==
  ASSUME NEW p \in Provider, ProviderOK(p), RuntimeAlone(p)
  PROVE  RuntimePart(p)'
  BY DEF ProviderOK, RuntimePart, RuntimeOK, ComingUp, Serves, InService, RuntimeAlone

LEMMA CompleteStep ==
  ASSUME TypeOK, NEW p \in Provider, ProviderOK(p), CompleteTurn(p)
  PROVE  TurnPart(p)'
  <1>1. RuntimeAlone(p)
    BY SyncSteps DEF SyncStep
  <1>2. /\ UNCHANGED <<captured[p], required[p], sync[p]>>
        /\ turns'[p] = turns[p] + 1
        /\ due'[p] = due[p] \cup {turns[p] + 1}
    BY DEF CompleteTurn, TypeOK
  <1>3. SyncOK(p) /\ OldSync(p) /\ Kept(p)
    BY DEF ProviderOK
  <1>4. \A n \in 1 .. turns'[p] : n \in 1 .. turns[p] \/ n = turns[p] + 1
    BY <1>2, Numbers
  <1>5. \A m \in due'[p] : m <= turns'[p] /\ \A n \in m .. turns'[p] : n \in due'[p]
    BY <1>2, <1>3, Numbers DEF SyncOK
  <1>6. SyncOK(p)'
    <2>1. \A n \in sync[p].turn + 1 .. turns'[p] :
             n \in sync[p].turn + 1 .. turns[p] \/ n = turns[p] + 1
      BY <1>2, Numbers
    <2>2. sync[p].turn \in 1 .. turns[p] => sync[p].turn \in 1 .. turns'[p]
      BY <1>2, Numbers
    <2> QED
      BY <1>1, <1>2, <1>3, <1>5, <2>1, <2>2 DEF SyncOK, RuntimeAlone
  <1>7. OldSync(p)' /\ Kept(p)'
    BY <1>1, <1>2, <1>3, <1>4 DEF OldSync, Kept, InService, RuntimeAlone
  <1> QED
    BY <1>6, <1>7 DEF TurnPart

\* The first turn that is due is taken, and only the runtime of a provider that
\* is not in service lets it fall.
LEMMA BeginStep ==
  ASSUME TypeOK, NEW p \in Provider, ProviderOK(p), BeginSync(p)
  PROVE  TurnPart(p)'
  <1>1. RuntimeAlone(p)
    BY SyncSteps DEF SyncStep
  <1>2. RuntimeOK(p) /\ Serves(p) /\ SyncOK(p) /\ Kept(p)
    BY DEF ProviderOK
  <1>3. PICK n \in due[p] :
           /\ \A m \in due[p] : n <= m
           /\ due'[p] = due[p] \ {n}
           /\ IF made[p] # 0
              THEN sync'[p] = [turn |-> n, of |-> made[p], step |-> "check",
                               connected |-> FALSE]
              ELSE sync'[p] = NoSync
    <2>1. PICK n \in due[p] :
             /\ \A m \in due[p] : n <= m
             /\ due' = [due EXCEPT ![p] = @ \ {n}]
             /\ IF runtime[p] # 0
                THEN sync' = [sync EXCEPT ![p] = [turn |-> n, of |-> runtime[p],
                                                  step |-> "check", connected |-> FALSE]]
                ELSE UNCHANGED sync
      BY DEF BeginSync
    <2>2. /\ sync[p] = NoSync /\ p \in DOMAIN sync /\ p \in DOMAIN due
          /\ runtime[p] = made[p]
      BY <1>2 DEF BeginSync, TypeOK, RuntimeOK
    <2>3. due'[p] = due[p] \ {n}
      BY <2>1, <2>2
    <2>4. CASE made[p] # 0
      <3>1. sync'[p] = [turn |-> n, of |-> made[p], step |-> "check", connected |-> FALSE]
        BY <2>1, <2>2, <2>4
      <3> QED
        BY <2>1, <2>3, <2>4, <3>1
    <2>5. CASE made[p] = 0
      BY <2>1, <2>2, <2>3, <2>5
    <2> QED
      BY <2>4, <2>5
  <1>4. UNCHANGED <<turns[p], captured[p], required[p]>> /\ sync[p] = NoSync
    BY DEF BeginSync
  <1>5. n \in 1 .. turns[p] /\ \A m \in n + 1 .. turns[p] : m \in due'[p]
    BY <1>2, <1>3, Numbers DEF SyncOK, TypeOK, Turn
  <1>6. \A m \in due'[p] : m <= turns[p] /\ \A k \in m .. turns[p] : k \in due'[p]
    BY <1>2, <1>3, Numbers DEF SyncOK
  <1>7. SyncOK(p)'
    <2>1. CASE made[p] # 0
      <3>1. sync'[p].turn = n /\ sync'[p].of = made[p] /\ sync'[p].step = "check"
        BY <1>3, <2>1
      <3> QED
        BY <1>1, <1>4, <1>5, <1>6, <2>1, <3>1, Numbers DEF SyncOK, RuntimeAlone
    <2>2. CASE sync'[p] = NoSync
      BY <1>4, <1>6, <2>2 DEF SyncOK
    <2> QED
      BY <1>3, <2>1, <2>2
  <1>8. OldSync(p)'
    BY <1>1, <1>3 DEF OldSync, RuntimeAlone
  <1>9. Kept(p)'
    BY <1>1, <1>2, <1>3, <1>4 DEF Kept, Serves, InService, RuntimeAlone, NoSync
  <1> QED
    BY <1>7, <1>8, <1>9 DEF TurnPart

LEMMA ConnectStep ==
  ASSUME TypeOK, NEW p \in Provider, ProviderOK(p), Connect(p) \/ CheckRequired(p)
  PROVE  TurnPart(p)'
  <1>1. RuntimeAlone(p)
    BY SyncSteps DEF SyncStep
  <1>2. SyncOK(p) /\ OldSync(p) /\ Kept(p)
    BY DEF ProviderOK
  <1>3. /\ UNCHANGED <<turns[p], captured[p], required[p], due[p]>>
        /\ sync[p] # NoSync
        /\ sync'[p].turn = sync[p].turn /\ sync'[p].of = sync[p].of
        /\ sync'[p].step \in {sync[p].step, "backfill", "capture"}
    <2>1. CASE Connect(p)
      BY <2>1 DEF Connect, TypeOK, Sync
    <2>2. CASE CheckRequired(p)
      <3>1. sync[p] # NoSync
        BY <2>2 DEF CheckRequired, NoSync
      <3> QED
        BY <2>2, <3>1, SyncGoesOn DEF CheckRequired
    <2> QED
      BY <2>1, <2>2
  <1> QED
    BY <1>1, <1>2, <1>3 DEF TurnPart, SyncOK, OldSync, Kept, InService, RuntimeAlone

LEMMA BackfillStep ==
  ASSUME TypeOK, NEW p \in Provider, ProviderOK(p), Backfill(p)
  PROVE  TurnPart(p)'
  <1>1. RuntimeAlone(p)
    BY SyncSteps DEF SyncStep
  <1>2. SyncOK(p) /\ OldSync(p) /\ Kept(p)
    BY DEF ProviderOK
  <1>3. /\ UNCHANGED <<turns[p], required[p], due[p]>>
        /\ captured[p] \subseteq captured'[p]
        /\ sync'[p].turn = sync[p].turn /\ sync'[p].of = sync[p].of
        /\ sync[p].step = "backfill"
        /\ \/ sync'[p].step = "backfill"
           \/ sync'[p].step = "clear" /\ Unindexed(p) = {}
    BY SyncGoesOn DEF Backfill, TypeOK
  <1>4. sync[p] # NoSync
    BY <1>3 DEF NoSync
  <1>5. Unindexed(p) = {} => \A n \in 1 .. sync[p].turn - 1 : n \in captured[p]
    BY DEF Unindexed
  <1>6. SyncOK(p)'
    BY <1>1, <1>2, <1>3, <1>4, <1>5 DEF SyncOK, RuntimeAlone
  <1>7. OldSync(p)' /\ Kept(p)'
    BY <1>1, <1>2, <1>3, <1>4 DEF OldSync, Kept, InService, RuntimeAlone
  <1> QED
    BY <1>6, <1>7 DEF TurnPart

\* When the mark is cleared, what was said before the turn of the sync has been
\* captured, and what was said after it is due.
LEMMA ClearStep ==
  ASSUME TypeOK, NEW p \in Provider, ProviderOK(p), ClearRequired(p)
  PROVE  TurnPart(p)'
  <1>1. RuntimeAlone(p)
    BY SyncSteps DEF SyncStep
  <1>2. SyncOK(p) /\ OldSync(p)
    BY DEF ProviderOK
  <1>3. /\ UNCHANGED <<turns[p], captured[p], due[p]>>
        /\ sync'[p].turn = sync[p].turn /\ sync'[p].of = sync[p].of
        /\ sync[p].step = "clear" /\ sync'[p].step = "capture"
    <2>1. SyncTo(p, "capture") /\ sync[p].step = "clear"
      BY DEF ClearRequired
    <2>2. /\ sync'[p].turn = sync[p].turn /\ sync'[p].of = sync[p].of
          /\ sync'[p].step = "capture"
      BY <2>1, SyncGoesOn
    <2> QED
      BY <2>1, <2>2 DEF ClearRequired
  <1>4. sync[p] # NoSync
    BY <1>3 DEF NoSync
  <1>5. SyncOK(p)' /\ OldSync(p)'
    BY <1>1, <1>2, <1>3, <1>4 DEF SyncOK, OldSync, InService, RuntimeAlone
  <1>6. ASSUME NEW n \in 1 .. turns[p]
        PROVE  n \in captured[p] \cup due[p] \cup {sync[p].turn}
    <2>1. \/ n \in 1 .. sync[p].turn - 1
          \/ n = sync[p].turn
          \/ n \in sync[p].turn + 1 .. turns[p]
      BY Numbers
    <2> QED
      BY <1>2, <1>3, <1>4, <2>1 DEF SyncOK
  <1>7. Kept(p)'
    BY <1>3, <1>6 DEF Kept
  <1> QED
    BY <1>5, <1>7 DEF TurnPart

LEMMA CaptureStep ==
  ASSUME TypeOK, NEW p \in Provider, ProviderOK(p), Capture(p)
  PROVE  TurnPart(p)'
  <1>1. RuntimeAlone(p)
    BY SyncSteps DEF SyncStep
  <1>2. SyncOK(p) /\ Kept(p)
    BY DEF ProviderOK
  <1>3. /\ UNCHANGED <<turns[p], required[p], due[p]>>
        /\ captured'[p] = captured[p] \cup {sync[p].turn}
        /\ sync'[p] = NoSync
    BY DEF Capture, TypeOK
  <1> QED
    BY <1>1, <1>2, <1>3 DEF TurnPart, SyncOK, OldSync, Kept, InService, RuntimeAlone

\* The runtime in service refuses no sync of its own; a turn whose sync is refused
\* by an earlier one is that which the last mark overlapped.
LEMMA FailsStep ==
  ASSUME TypeOK, NEW p \in Provider, ProviderOK(p), SyncFails(p)
  PROVE  TurnPart(p)'
  <1>1. RuntimeAlone(p)
    BY SyncSteps DEF SyncStep
  <1>2. Serves(p) /\ SyncOK(p) /\ OldSync(p) /\ Kept(p)
    BY DEF ProviderOK
  <1>3. /\ UNCHANGED <<turns[p], captured[p], required[p], due[p]>>
        /\ sync[p] # NoSync /\ sync'[p] = NoSync
        /\ ~SyncOpen(p)
    BY DEF SyncFails, TypeOK
  <1>4. sync[p].of # 0 /\ ~outbox[p][sync[p].of]
    BY <1>2, <1>3, Numbers DEF SyncOK, SyncOpen
  <1>5. InService(p) => sync[p].turn = overlapped[p]
    BY <1>2, <1>3, <1>4 DEF Serves, OldSync
  <1> QED
    BY <1>1, <1>2, <1>3, <1>5 DEF TurnPart, SyncOK, OldSync, Kept, InService, RuntimeAlone

LEMMA SyncStepKeeps ==
  ASSUME TypeOK, NEW p \in Provider, ProviderOK(p), SyncStep(p)
  PROVE  ProviderOK(p)' /\ \A q \in Provider : q # p => Same(q)
  <1>1. RuntimeAlone(p)
    BY SyncSteps
  <1>2. RuntimePart(p)'
    BY <1>1, RuntimePartKept
  <1>3. TurnPart(p)'
    BY CompleteStep, BeginStep, ConnectStep, BackfillStep, ClearStep, CaptureStep, FailsStep
    DEF SyncStep
  <1> QED
    BY <1>1, <1>2, <1>3 DEF ProviderOK, RuntimePart, TurnPart, RuntimeAlone

\* A provider that opens the database: it takes the new runtime when the version
\* is 2, moves on to the script, or gives up.
LEMMA ProviderOpens ==
  ASSUME TypeOK, NEW p \in Provider, ProviderOK(p), OpenStep(p), version = 2 => version' = 2
  PROVE  ProviderOK(p)' /\ \A q \in Provider : q # p => Same(q)
  <1>1. RuntimeOK(p) /\ ComingUp(p) /\ Serves(p) /\ SyncOK(p)
    BY DEF ProviderOK
  <1>2. /\ UNCHANGED <<inits, overlapped, configured, closer>>
        /\ UNCHANGED <<turns, captured, required, due, sync>>
    BY DEF OpenStep, ReadVersion, BeginScript, CommitScript, Fail, Opened
  <1>3. CASE Opened(p) /\ pc[p] \in {"opening", "creating"} /\ version' = 2
    <2>1. /\ made[p] + 1 \in Generation
          /\ made' = [made EXCEPT ![p] = made[p] + 1]
          /\ runtime' = [runtime EXCEPT ![p] = made[p] + 1]
          /\ outbox' = [outbox EXCEPT ![p] = [@ EXCEPT ![made[p] + 1] = TRUE]]
          /\ pc' = [pc EXCEPT ![p] = "marking"]
      BY <1>1, <1>3, OpenedFacts DEF Upcoming
    <2>2. /\ made'[p] = made[p] + 1 /\ runtime'[p] = made[p] + 1 /\ pc'[p] = "marking"
          /\ outbox'[p][made[p] + 1] = TRUE
          /\ closer[p][made[p] + 1] = "none"
      BY <1>1, <2>1, Numbers DEF TypeOK, Opener, RuntimeOK
    <2>3. \A g \in Generation : /\ g > made[p] + 1 => g > made[p]
                                /\ g < made[p] + 1 => g < made[p] \/ g = made[p]
      BY Numbers
    <2>4. made[p] + 1 <= inits[p] /\ made[p] + 1 # 0
      BY <1>1, <1>3, Numbers DEF RuntimeOK, Upcoming
    <2>5. RuntimeOK(p)'
      BY <1>1, <1>2, <1>3, <2>2, <2>3, <2>4 DEF RuntimeOK, Upcoming
    <2>6. ComingUp(p)' /\ ~InService(p)'
      <3>1. ~configured'[p]
        BY <1>1, <1>2, <1>3 DEF ComingUp, Upcoming
      <3> QED
        BY <1>2, <1>3, <2>2, <2>4, <3>1 DEF ComingUp, InService
    <2>7. SyncOK(p)'
      BY <1>1, <1>2, <2>2, Numbers DEF SyncOK
    <2>8. Serves(p)' /\ OldSync(p)' /\ Kept(p)'
      BY <2>6 DEF Serves, OldSync, Kept
    <2>9. \A q \in Provider : q # p => Same(q)
      BY <1>2, <2>1 DEF Same, TypeOK, Opener
    <2> QED
      BY <2>5, <2>6, <2>7, <2>8, <2>9 DEF ProviderOK
  <1>4. CASE /\ UNCHANGED provider
             /\ \/ pc[p] = "opening" /\ pc' = [pc EXCEPT ![p] = "locking"]
                \/ pc[p] = "locking" /\ pc' = [pc EXCEPT ![p] = "creating"]
                \/ pc[p] \notin {"idle", "joining", "exiting", "down"}
                   /\ pc' = [pc EXCEPT ![p] = "idle"]
    <2>1. /\ UNCHANGED <<runtime[p], made[p], outbox[p]>>
          /\ \/ pc[p] = "opening" /\ pc'[p] = "locking"
             \/ pc[p] = "locking" /\ pc'[p] = "creating"
             \/ pc[p] \notin {"idle", "joining", "exiting", "down"} /\ pc'[p] = "idle"
          /\ \A q \in Provider : q # p => Same(q)
      BY <1>2, <1>4 DEF Same, TypeOK, Opener
    <2>2. RuntimeOK(p)' /\ ComingUp(p)' /\ Serves(p)'
      BY <1>1, <1>2, <2>1 DEF RuntimeOK, ComingUp, Serves, InService, Upcoming
    <2>3. SyncOK(p)' /\ OldSync(p)' /\ Kept(p)'
      BY <1>2, <2>1 DEF ProviderOK, SyncOK, OldSync, Kept, InService
    <2> QED
      BY <2>1, <2>2, <2>3 DEF ProviderOK
  <1>5. CASE ReadVersion(p)
    BY <1>3, <1>4, <1>5 DEF ReadVersion, Goto, TypeOK
  <1>6. CASE BeginScript(p)
    BY <1>4, <1>6 DEF BeginScript, Goto
  <1>7. CASE CommitScript(p)
    BY <1>3, <1>7 DEF CommitScript
  <1>8. CASE Fail(p)
    BY <1>4, <1>8 DEF Fail, Goto
  <1> QED
    BY <1>5, <1>6, <1>7, <1>8 DEF OpenStep

\* The operator's command touches no provider.
LEMMA OperatorStep ==
  ASSUME TypeOK, NEW o \in Operator, Command(o) \/ CommandEnds(o) \/ OpenStep(o)
  PROVE  \A q \in Provider : Same(q)
  <1>1. UNCHANGED <<overlapped, provider, turns, captured, required, due, sync>>
    BY OperatorOpens
    DEF Command, CommandEnds, OpenStep, ReadVersion, BeginScript, CommitScript, Fail
  <1>2. \A q \in Provider : q # o
    BY Processes
  <1>3. \A q \in Provider : UNCHANGED <<pc[q], inits[q]>>
    <2>1. \E l : pc' = [pc EXCEPT ![o] = l]
      BY OperatorOpens
      DEF Command, CommandEnds, OpenStep, ReadVersion, BeginScript, CommitScript, Fail, Goto
    <2>2. inits' = inits \/ inits' = [inits EXCEPT ![o] = 1]
      BY DEF Command, CommandEnds, OpenStep, ReadVersion, BeginScript, CommitScript, Fail
    <2> QED
      BY <1>2, <2>1, <2>2 DEF TypeOK, Opener
  <1> QED
    BY <1>1, <1>3 DEF Same

LEMMA ProvidersStep ==
  ASSUME TypeOK, \A p \in Provider : ProviderOK(p), [Next]_vars, version = 2 => version' = 2
  PROVE  \A p \in Provider : ProviderOK(p)'
  <1>1. ASSUME NEW p \in Provider, ProviderOK(p)', \A q \in Provider : q # p => Same(q)
        PROVE  \A q \in Provider : ProviderOK(q)'
    BY <1>1, Frame
  <1>2. ASSUME NEW p \in Provider, ProviderStep(p) PROVE \A q \in Provider : ProviderOK(q)'
    BY <1>1, <1>2, ShutStep, JoinStep, MarkStep, DieStep, CloserStep DEF ProviderStep
  <1>3. ASSUME NEW p \in Provider, SyncStep(p) PROVE \A q \in Provider : ProviderOK(q)'
    BY <1>1, <1>3, SyncStepKeeps
  <1>4. ASSUME NEW p \in Provider, OpenStep(p) PROVE \A q \in Provider : ProviderOK(q)'
    BY <1>1, <1>4, ProviderOpens
  <1>5. ASSUME NEW o \in Operator, Command(o) \/ CommandEnds(o) \/ OpenStep(o)
        PROVE  \A q \in Provider : ProviderOK(q)'
    BY <1>5, OperatorStep, Frame
  <1>6. CASE UNCHANGED vars
    <2>1. \A q \in Provider : Same(q)
      BY <1>6 DEF Same
    <2> QED
      BY <2>1, Frame
  <1> QED
    BY <1>2, <1>3, <1>4, <1>5, <1>6 DEF Next, Opener

-----------------------------------------------------------------------------
(* The theorems. *)

\* However processes come, go and fail, the database and every provider stay in
\* the states LifecycleIInv describes (provider.py:160, outbox.py:304).
THEOREM LifecycleInductive == Spec => []LifecycleIInv
  <1>1. LifecycleIInv /\ [Next]_vars => LifecycleIInv'
    BY LifecycleTypeStep, SchemaStep, ProvidersStep DEF LifecycleIInv, ProviderOK
  <1> QED
    BY LifecycleInit, <1>1, PTL DEF Spec

\* Every variable keeps its type; in particular no provider makes more runtimes
\* than it was initialized.
THEOREM LifecycleTypes == Spec => []TypeOK
  BY LifecycleInductive, PTL DEF LifecycleIInv

\* The next process can open the database: its tables are those of its version,
\* whoever raced for it or died over it (outbox.py:318-325).
THEOREM OpenableHolds == Spec => []Openable
  <1>1. LifecycleIInv => Openable
    BY DEF LifecycleIInv, SchemaOK, Openable
  <1> QED
    BY LifecycleInductive, <1>1, PTL

\* Who says it is configured has a runtime whose outbox is open and whose
\* database is up to date (provider.py:181-188).
THEOREM ConfiguredHolds == Spec => []ConfiguredServes
  <1>1. LifecycleIInv => ConfiguredServes
    BY DEF LifecycleIInv, ProviderOK, RuntimeOK, Serves, InService, ConfiguredServes
  <1> QED
    BY LifecycleInductive, <1>1, PTL

\* No completed turn of a provider in service is forgotten, whatever its earlier
\* runtimes and their closers still do, but the one whose sync was under way when
\* the session was last marked (provider.py:186, runtime.py:141, outbox.py:291).
THEOREM NoTurnLost == Spec => []NoTurnForgotten
  <1>1. ASSUME LifecycleIInv, NEW p \in Provider, InService(p)
        PROVE  Forgotten(p) \subseteq {overlapped[p]}
    BY <1>1 DEF LifecycleIInv, ProviderOK, Kept, Forgotten
  <1>2. LifecycleIInv => NoTurnForgotten
    BY <1>1 DEF NoTurnForgotten
  <1> QED
    BY LifecycleInductive, <1>2, PTL

=============================================================================
