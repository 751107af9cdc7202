--------------------------- MODULE OperatorProofs ---------------------------
(***************************************************************************)
(* Theorems about the operator's side, for any keys, projects, agents,     *)
(* terminals, sessions and bounds: nobody sends without an accepted key,   *)
(* and what is delivered was sent with a key that can write nowhere else.  *)
(***************************************************************************)
EXTENDS Operator, TLAPS

USE DEF outbox, operator, vars

-----------------------------------------------------------------------------
(* The least-privilege rules. *)

\* What the shared rules guarantee of a credential they find nothing to say of.
LEMMA SafeCredential ==
  ASSUME NEW cred, NEW req, CredentialFailures(cred, req) = {}
  PROVE  /\ cred.type = "api_key"
         /\ "api:write" \in cred.scopes
         /\ cred.projects = {req.project}
         /\ cred.spaces = {req.space}
         /\ req.agent # NoAgent => cred.agent = req.agent
         /\ cred.profile = "memory_provider"
  <1>1. DOMAIN Breaks(cred, req) = {"type", "scope", "project", "space", "agent", "profile"}
    BY DEF Breaks
  <1>2. \A r \in {"type", "scope", "project", "space", "agent", "profile"} : ~Breaks(cred, req)[r]
    BY <1>1 DEF CredentialFailures
  <1> QED
    BY <1>2 DEF Breaks

\* The converse, for an agent that is known.
LEMMA UnsafeCredential ==
  ASSUME NEW cred, NEW req, req.agent # NoAgent,
         cred.type = "api_key", "api:write" \in cred.scopes, cred.projects = {req.project},
         cred.spaces = {req.space}, cred.agent = req.agent, cred.profile = "memory_provider"
  PROVE  CredentialFailures(cred, req) = {}
  <1>1. DOMAIN Breaks(cred, req) = {"type", "scope", "project", "space", "agent", "profile"}
    BY DEF Breaks
  <1>2. /\ ~Breaks(cred, req)["type"]
        /\ ~Breaks(cred, req)["scope"]
        /\ ~Breaks(cred, req)["project"]
        /\ ~Breaks(cred, req)["space"]
        /\ ~Breaks(cred, req)["agent"]
        /\ ~Breaks(cred, req)["profile"]
    BY DEF Breaks
  <1> HIDE DEF Breaks
  <1> QED
    BY <1>1, <1>2 DEF CredentialFailures

\* doctor lists the rules of trust.py a second time (cli.py:215-282): its own
\* list and the shared one never disagree about a credential.
THEOREM DoctorAgrees ==
  ASSUME NEW cred, NEW req, req.agent # NoAgent
  PROVE  /\ DoctorFails(cred, req) = {} <=> CredentialFailures(cred, req) = {}
         /\ (\A c \in {"type", "scope", "project", "space", "agent", "profile"} :
                DoctorChecks(cred, req)[c]) <=> DoctorChecks(cred, req)["contract"]
  <1> DEFINE Own == {"type", "scope", "project", "space", "agent", "profile"}
  <1>1. DOMAIN DoctorChecks(cred, req) = Own \cup {"contract"}
    BY DEF DoctorChecks
  <1>2. (\A c \in Own : DoctorChecks(cred, req)[c]) <=>
            /\ cred.type = "api_key" /\ "api:write" \in cred.scopes
            /\ cred.projects = {req.project} /\ cred.spaces = {req.space}
            /\ cred.agent = req.agent /\ cred.profile = "memory_provider"
    <2>1. /\ DoctorChecks(cred, req)["type"] <=> cred.type = "api_key"
          /\ DoctorChecks(cred, req)["scope"] <=> "api:write" \in cred.scopes
          /\ DoctorChecks(cred, req)["project"] <=> cred.projects = {req.project}
          /\ DoctorChecks(cred, req)["space"] <=> cred.spaces = {req.space}
          /\ DoctorChecks(cred, req)["agent"] <=> cred.agent = req.agent
          /\ DoctorChecks(cred, req)["profile"] <=> cred.profile = "memory_provider"
      BY DEF DoctorChecks
    <2> QED
      BY <2>1
  <1>3. DoctorChecks(cred, req)["contract"] <=> CredentialFailures(cred, req) = {}
    BY DEF DoctorChecks
  <1>4. (\A c \in Own : DoctorChecks(cred, req)[c]) <=> CredentialFailures(cred, req) = {}
    BY <1>2, SafeCredential, UnsafeCredential
  <1>5. DoctorFails(cred, req) = {} <=>
            (\A c \in Own : DoctorChecks(cred, req)[c]) /\ DoctorChecks(cred, req)["contract"]
    BY <1>1 DEF DoctorFails
  <1> QED
    BY <1>3, <1>4, <1>5

-----------------------------------------------------------------------------
(* The inductive invariant. *)

LEMMA OperatorTypeInit == Init => OperatorTypeOK
  BY NamesAssumption, KeyAssumption, OperatorBounds
  DEF Init, OperatorTypeOK, Process, Context, Place, Report, Nothing, NoProbe, NoSetup

LEMMA LoadedKey ==
  ASSUME OperatorTypeOK, NEW p \in Process
  PROVE  LoadKey(p) \in Key \cup {NoKey} /\ OperatorAgent \in Agent
  BY NamesAssumption DEF OperatorTypeOK, LoadKey, OperatorAgent, Context

\* A process that ends lets go of everything, and of nothing of the others'.
LEMMA EndsFacts ==
  ASSUME OperatorTypeOK, NEW p \in Process, Ends(p)
  PROVE  /\ pc' \in [Process -> Place] /\ ctx' \in [Process -> Context]
         /\ todo' \in [Process -> SUBSET Op]
         /\ pc'[p] = "idle"
         /\ \A q \in Process : q # p => pc'[q] = pc[q] /\ ctx'[q] = ctx[q]
  BY DEF OperatorTypeOK, Place, Context, Ends, Goto, Has

LEMMA CommandEndsFacts ==
  ASSUME OperatorTypeOK, NEW t \in Terminal, CommandEnds(t)
  PROVE  /\ Ends(t)
         /\ command' \in [Terminal -> {"none", "setup", "flush", "doctor"}]
         /\ existing' \in [Terminal -> Key \cup {NoKey}]
  BY DEF OperatorTypeOK, CommandEnds

\* FlushEnds and Dies end a command of a terminal, or a flush or the whole of a
\* session.
LEMMA LeavingFacts ==
  ASSUME OperatorTypeOK, NEW p \in Process, FlushEnds(p) \/ Dies(p)
  PROVE  /\ pc' \in [Process -> Place] /\ ctx' \in [Process -> Context]
         /\ todo' \in [Process -> SUBSET Op]
         /\ command' \in [Terminal -> {"none", "setup", "flush", "doctor"}]
         /\ existing' \in [Terminal -> Key \cup {NoKey}]
         /\ \/ pc'[p] = "idle"
            \/ pc[p] = "draining" /\ pc'[p] = "safe" /\ ctx'[p] = ctx[p]
         /\ \A q \in Process : q # p => pc'[q] = pc[q] /\ ctx'[q] = ctx[q]
         /\ UNCHANGED <<probe, settled, setups>>
  <1>1. CASE p \in Terminal
    <2>1. CommandEnds(p) /\ UNCHANGED <<probe, settled, setups>>
      BY <1>1, ProcessAssumption DEF FlushEnds, Dies
    <2> QED
      BY <1>1, <2>1, CommandEndsFacts, EndsFacts
  <1>2. CASE p \in Session /\ Dies(p)
    <2>1. Ends(p) /\ UNCHANGED operator
      BY <1>2, ProcessAssumption DEF Dies
    <2> QED
      BY <2>1, EndsFacts DEF OperatorTypeOK
  <1>3. CASE p \in Session /\ FlushEnds(p)
    <2>1. /\ pc[p] = "draining" /\ pc' = [pc EXCEPT ![p] = "safe"]
          /\ todo' = [todo EXCEPT ![p] = {}]
          /\ UNCHANGED <<ctx, operator>>
      BY <1>3, ProcessAssumption DEF FlushEnds, Goto
    <2> QED
      BY <2>1 DEF OperatorTypeOK, Place
  <1> QED
    BY <1>1, <1>2, <1>3 DEF Process

LEMMA DoctorProbeFacts ==
  ASSUME OperatorTypeOK, NEW t \in Terminal, NEW write \in BOOLEAN, DoctorProbe(t, write)
  PROVE  /\ CredentialFailures(Credential[ctx[t].key], Needed(ctx[t])) = {}
         /\ pc[t] = "probing"
         /\ \/ CommandEnds(t) /\ probe' \in [Terminal -> Report] /\ UNCHANGED <<settled, setups>>
            \/ pc' = [pc EXCEPT ![t] = "writing"] /\ UNCHANGED <<ctx, todo, operator>>
  <1>1. CredentialFailures(Credential[ctx[t].key], Needed(ctx[t])) = {}
    <2>1. DoctorFails(Credential[ctx[t].key], Needed(ctx[t])) = {}
      BY DEF DoctorProbe, DoctorAccepts
    <2> HIDE DEF DoctorFails, Needed
    <2>2. DoctorChecks(Credential[ctx[t].key], Needed(ctx[t]))["contract"]
      BY <2>1 DEF DoctorFails, DoctorChecks
    <2> QED
      BY <2>2 DEF DoctorChecks
  <1>2. CASE write
    BY <1>1, <1>2 DEF DoctorProbe, Goto
  <1>3. CASE ~write
    <2>1. CommandEnds(t) /\ probe' = [probe EXCEPT ![t].verdict = "pass"] /\ UNCHANGED <<settled, setups>>
      BY <1>3 DEF DoctorProbe
    <2>2. probe' \in [Terminal -> Report]
      BY <2>1 DEF OperatorTypeOK, Report
    <2> QED
      BY <1>1, <2>1, <2>2 DEF DoctorProbe
  <1> QED
    BY <1>2, <1>3

\* What the steps of doctor write over a report is a report.
LEMMA ReportsWritten ==
  ASSUME NEW r \in Report, NEW m \in {"none", "active", "stale"}
  PROVE  /\ [r EXCEPT !.verdict = "fail"] \in Report
         /\ [r EXCEPT !.memory = "active", !.answered = TRUE] \in Report
         /\ [r EXCEPT !.memory = m, !.verdict = "fail"] \in Report
         /\ [r EXCEPT !.memory = "stale", !.verdict = "pass"] \in Report
         /\ [r EXCEPT !.memory = m, !.verdict = "fail", !.named = TRUE] \in Report
  BY DEF Report

LEMMA ReportOf ==
  ASSUME OperatorTypeOK, NEW t \in Terminal
  PROVE  probe[t] \in Report
  BY DEF OperatorTypeOK

\* A report on one terminal's probe leaves the others' as they are.
LEMMA ReportSet ==
  ASSUME OperatorTypeOK, NEW t \in Terminal, NEW r \in Report, probe' = [probe EXCEPT ![t] = r]
  PROVE  probe' \in [Terminal -> Report]
  BY DEF OperatorTypeOK

\* A command that ends with a report, and touches nothing else, keeps the types.
LEMMA EndsWithReport ==
  ASSUME OperatorTypeOK, NEW t \in Terminal, NEW r \in Report,
         CommandEnds(t), probe' = [probe EXCEPT ![t] = r] \/ probe' = probe,
         UNCHANGED <<file, env, revoked, outbox, settled, setups, deaths>>
  PROVE  OperatorTypeOK'
  <1>1. probe' \in [Terminal -> Report]
    BY ReportSet DEF OperatorTypeOK
  <1>2. t \in Process
    BY DEF Process
  <1>3. Ends(t)
    BY CommandEndsFacts
  <1>4. /\ pc' \in [Process -> Place] /\ ctx' \in [Process -> Context]
        /\ todo' \in [Process -> SUBSET Op]
        /\ command' \in [Terminal -> {"none", "setup", "flush", "doctor"}]
        /\ existing' \in [Terminal -> Key \cup {NoKey}]
    BY <1>2, <1>3, EndsFacts, CommandEndsFacts
  <1> QED
    BY <1>1, <1>4 DEF OperatorTypeOK

\* Every step keeps the types of files, processes, operations and reports.
LEMMA OperatorTypeStep == OperatorTypeOK /\ [Next]_vars => OperatorTypeOK'
  <1> SUFFICES ASSUME OperatorTypeOK, [Next]_vars PROVE OperatorTypeOK'
    OBVIOUS
  <1> USE DEF OperatorTypeOK, Place, Report, Context, Process, Goto, Has, Ends, CommandEnds,
              DoctorEnds, Nothing, NoProbe, NoSetup
  <1>1. ASSUME NEW t \in Terminal, SetupStep(t) \/ CommandStep(t) \/ DoctorStep(t)
        PROVE OperatorTypeOK'
    <2>1. CASE SetupStart(t)
      BY <2>1, LoadedKey, OperatorBounds DEF SetupStart
    <2>2. ASSUME NEW c \in Config \cup {NoConfig}, NEW k \in Key \cup {NoKey}, SetupAnswer(t, c, k)
          PROVE OperatorTypeOK'
      BY <2>2, LoadedKey DEF SetupAnswer
    <2>3. CASE SetupSaveConfig(t)
      BY <2>3 DEF SetupSaveConfig
    <2>4. CASE SetupSaveKey(t)
      BY <2>4 DEF SetupSaveKey, KeySaved
    <2>5. CASE SetupFails(t)
      BY <2>5 DEF SetupFails
    <2>6. ASSUME NEW cmd \in {"flush", "doctor"}, CommandStart(t, cmd) PROVE OperatorTypeOK'
      BY <2>6, LoadedKey DEF CommandStart
    <2>7. CASE CommandReadConfig(t)
      BY <2>7 DEF CommandReadConfig
    <2>8. CASE CommandReadKey(t)
      BY <2>8, LoadedKey DEF CommandReadKey
    <2>9. CASE CommandFails(t)
      <3> DEFINE r == [probe[t] EXCEPT !.verdict = "fail"]
      <3>1. r \in Report
        <4> HIDE DEF OperatorTypeOK, Report
        <4> QED
          BY ReportOf, ReportsWritten
      <3>2. /\ CommandEnds(t)
            /\ probe' = [probe EXCEPT ![t] = r] \/ probe' = probe
            /\ UNCHANGED <<file, env, revoked, outbox, settled, setups, deaths>>
        <4> HIDE DEF CommandEnds
        <4> QED
          BY <2>9 DEF CommandFails
      <3> HIDE DEF r, CommandEnds
      <3> QED
        BY <3>1, <3>2, EndsWithReport
    <2>10. CASE FlushProbe(t)
      BY <2>10 DEF FlushProbe
    <2>11. CASE FlushUnblocks(t)
      BY <2>11 DEF FlushUnblocks, Unblocked
    <2>12. ASSUME NEW write \in BOOLEAN, DoctorProbe(t, write) PROVE OperatorTypeOK'
      <3>1. UNCHANGED <<file, env, revoked, outbox, deaths>>
        BY <2>12 DEF DoctorProbe
      <3> HIDE DEF Ends, CommandEnds, Place, Report, Context
      <3>2. t \in Process /\ "writing" \in Place
        BY DEF Place
      <3> QED
        BY <2>12, <3>1, <3>2, DoctorProbeFacts, CommandEndsFacts, EndsFacts
    <2>13. CASE DoctorWrites(t)
      <3> DEFINE r == [probe[t] EXCEPT !.memory = "active", !.answered = TRUE]
      <3>1. r \in Report
        <4> HIDE DEF OperatorTypeOK, Report
        <4> QED
          BY ReportOf, ReportsWritten
      <3>2. /\ probe' = [probe EXCEPT ![t] = r] /\ pc' = [pc EXCEPT ![t] = "cleaning"]
            /\ UNCHANGED <<file, env, revoked, ctx, todo, outbox, command, existing, settled,
                           setups, deaths>>
        BY <2>13 DEF DoctorWrites
      <3>3. pc' \in [Process -> Place]
        BY <3>2 DEF Place
      <3> HIDE DEF r, Place, Report, Context
      <3>4. probe' \in [Terminal -> Report]
        BY <3>1, <3>2, ReportSet
      <3> QED
        BY <3>2, <3>3, <3>4
    <2>14. ASSUME NEW m \in {"none", "active"}, DoctorWriteFails(t, m) PROVE OperatorTypeOK'
      <3> DEFINE r == [NoProbe EXCEPT !.memory = m, !.verdict = "fail"]
      <3>1. r \in Report
        BY DEF Report, NoProbe
      <3>2. /\ CommandEnds(t) /\ probe' = [probe EXCEPT ![t] = r]
            /\ UNCHANGED <<file, env, revoked, outbox, settled, setups, deaths>>
        <4> HIDE DEF CommandEnds
        <4> QED
          BY <2>14 DEF DoctorWriteFails
      <3> HIDE DEF r, CommandEnds
      <3> QED
        BY <3>1, <3>2, EndsWithReport
    <2>15. CASE DoctorCleans(t)
      <3> DEFINE r == [probe[t] EXCEPT !.memory = "stale", !.verdict = "pass"]
      <3>1. r \in Report
        <4> HIDE DEF OperatorTypeOK, Report
        <4> QED
          BY ReportOf, ReportsWritten
      <3>2. /\ CommandEnds(t) /\ probe' = [probe EXCEPT ![t] = r]
            /\ UNCHANGED <<file, env, revoked, outbox, settled, setups, deaths>>
        <4> HIDE DEF CommandEnds
        <4> QED
          BY <2>15 DEF DoctorCleans
      <3> HIDE DEF r, CommandEnds
      <3> QED
        BY <3>1, <3>2, EndsWithReport
    <2>16. ASSUME NEW m \in {"active", "stale"}, DoctorCleanupFails(t, m) PROVE OperatorTypeOK'
      <3> DEFINE r == CleanupReport(t, m)
      <3>1. r \in Report
        <4> HIDE DEF OperatorTypeOK, Report
        <4> QED
          BY ReportOf, ReportsWritten DEF CleanupReport
      <3>2. /\ CommandEnds(t) /\ probe' = [probe EXCEPT ![t] = r]
            /\ UNCHANGED <<file, env, revoked, outbox, settled, setups, deaths>>
        <4> HIDE DEF CommandEnds
        <4> QED
          BY <2>16 DEF DoctorCleanupFails
      <3> HIDE DEF r, CommandEnds
      <3> QED
        BY <3>1, <3>2, EndsWithReport
    <2> HIDE DEF OperatorTypeOK, Place, Report, Context, Process, Goto, Has, Ends, CommandEnds, DoctorEnds
    <2>17. SetupStep(t) => OperatorTypeOK'
      BY <2>1, <2>2, <2>3, <2>4, <2>5 DEF SetupStep
    <2>18. CommandStep(t) => OperatorTypeOK'
      BY <2>6, <2>7, <2>8, <2>9, <2>10, <2>11 DEF CommandStep
    <2>19. DoctorStep(t) => OperatorTypeOK'
      BY <2>12, <2>13, <2>14, <2>15, <2>16 DEF DoctorStep
    <2> QED
      BY <1>1, <2>17, <2>18, <2>19
  <1>2. ASSUME NEW s \in Session, SessionStep(s) PROVE OperatorTypeOK'
    <2>1. ASSUME NEW a \in Agent, SessionReadConfig(s, a) PROVE OperatorTypeOK'
      BY <2>1 DEF SessionReadConfig
    <2>2. CASE SessionOpens(s)
      BY <2>2, LoadedKey DEF SessionOpens
    <2>3. CASE SessionRefuses(s)
      BY <2>3 DEF SessionRefuses
    <2>4. CASE SessionProbe(s)
      BY <2>4 DEF SessionProbe
    <2>5. ASSUME NEW o \in Op, Capture(s, o) PROVE OperatorTypeOK'
      BY <2>5 DEF Capture
    <2>6. CASE SessionFlush(s)
      BY <2>6 DEF SessionFlush
    <2>7. CASE SessionEnds(s)
      BY <2>7 DEF SessionEnds
    <2> QED
      BY <1>2, <2>1, <2>2, <2>3, <2>4, <2>5, <2>6, <2>7 DEF SessionStep
  <1>3. ASSUME NEW p \in Process, DrainStep(p) \/ Dies(p) PROVE OperatorTypeOK'
    <2>1. ASSUME NEW o \in Op, Take(p, o) PROVE OperatorTypeOK'
      BY <2>1 DEF Take
    <2>2. ASSUME NEW o \in Op, Delivers(p, o) PROVE OperatorTypeOK'
      BY <2>2 DEF Delivers
    <2>3. ASSUME NEW o \in Op, IsDenied(p, o) PROVE OperatorTypeOK'
      BY <2>3 DEF IsDenied
    <2>4. ASSUME NEW o \in Op, GoesUnanswered(p, o) PROVE OperatorTypeOK'
      BY <2>4 DEF GoesUnanswered
    <2>5. CASE FlushEnds(p)
      <3>1. UNCHANGED <<file, env, revoked, outbox, deaths>>
        BY <2>5 DEF FlushEnds
      <3> HIDE DEF Place, Report, Context
      <3> QED
        BY <2>5, <3>1, LeavingFacts
    <2>6. CASE Dies(p)
      <3>1. /\ holder' \in [Op -> Process \cup {"nobody", "dead"}] /\ deaths' \in 0 .. MaxDeaths
            /\ UNCHANGED <<file, env, revoked, state, origin, sentWith>>
        BY <2>6, OperatorBounds DEF Dies
      <3> HIDE DEF Place, Report, Context
      <3> QED
        BY <2>6, <3>1, LeavingFacts
    <2> QED
      BY <1>3, <2>1, <2>2, <2>3, <2>4, <2>5, <2>6 DEF DrainStep, Answered
  <1>4. ASSUME NEW o \in Op, LeaseExpires(o) PROVE OperatorTypeOK'
    BY <1>4 DEF LeaseExpires
  <1>5. ASSUME NEW k \in Revocable, Revoke(k) PROVE OperatorTypeOK'
    BY <1>5, KeyAssumption DEF Revoke
  <1>6. CASE UNCHANGED vars
    BY <1>6
  <1> QED
    BY <1>1, <1>2, <1>3, <1>4, <1>5, <1>6 DEF Next

\* A process that ends, or ends its flush, passes no gate.
LEMMA GateKeptByLeaving ==
  ASSUME OperatorTypeOK, GateHolds, NEW p \in Process, FlushEnds(p) \/ Dies(p)
  PROVE  GateHolds'
  <1>1. /\ \/ pc'[p] = "idle"
           \/ pc[p] = "draining" /\ pc'[p] = "safe" /\ ctx'[p] = ctx[p]
        /\ \A q \in Process : q # p => pc'[q] = pc[q] /\ ctx'[q] = ctx[q]
    BY LeavingFacts
  <1> QED
    BY <1>1 DEF GateHolds, Gated, Needed

\* Whoever passed the gate keeps the key, the configuration and the agent that
\* were accepted until it ends.
LEMMA GateStep == OperatorTypeOK /\ GateHolds /\ [Next]_vars => GateHolds'
  <1> SUFFICES ASSUME OperatorTypeOK, GateHolds, [Next]_vars PROVE GateHolds'
    OBVIOUS
  <1> USE NamesAssumption DEF OperatorTypeOK, Context, Process, GateHolds, Gated, Needed, Goto, Has, Ends,
          CommandEnds, DoctorEnds, Nothing
  <1>1. ASSUME NEW t \in Terminal, SetupStep(t) \/ CommandStep(t) \/ DoctorStep(t)
        PROVE GateHolds'
    <2>1. CASE SetupStart(t)
      BY <2>1 DEF SetupStart
    <2>2. ASSUME NEW c \in Config \cup {NoConfig}, NEW k \in Key \cup {NoKey}, SetupAnswer(t, c, k)
          PROVE GateHolds'
      BY <2>2 DEF SetupAnswer, Accepted, Needed
    <2>3. CASE SetupSaveConfig(t)
      BY <2>3 DEF SetupSaveConfig
    <2>4. CASE SetupSaveKey(t)
      BY <2>4 DEF SetupSaveKey
    <2>5. CASE SetupFails(t)
      BY <2>5 DEF SetupFails
    <2>6. ASSUME NEW cmd \in {"flush", "doctor"}, CommandStart(t, cmd) PROVE GateHolds'
      BY <2>6 DEF CommandStart
    <2>7. CASE CommandReadConfig(t)
      BY <2>7 DEF CommandReadConfig
    <2>8. CASE CommandReadKey(t)
      BY <2>8, LoadedKey DEF CommandReadKey
    <2>9. CASE CommandFails(t)
      BY <2>9 DEF CommandFails
    <2>10. CASE FlushProbe(t)
      BY <2>10 DEF FlushProbe, Accepted
    <2>11. CASE FlushUnblocks(t)
      BY <2>11 DEF FlushUnblocks
    <2>12. ASSUME NEW write \in BOOLEAN, DoctorProbe(t, write) PROVE GateHolds'
      <3>1. t \in Process /\ revoked' = revoked
        BY <2>12 DEF DoctorProbe
      <3>2. /\ \A q \in Process : q # t => pc'[q] = pc[q] /\ ctx'[q] = ctx[q]
            /\ \/ pc'[t] = "idle"
               \/ pc'[t] = "writing" /\ ctx'[t] = ctx[t]
        <4> HIDE DEF Ends, CommandEnds
        <4>1. CASE CommandEnds(t)
          <5> HIDE DEF OperatorTypeOK, Context, Process, GateHolds, Gated
          <5>1. Ends(t)
            BY <4>1, CommandEndsFacts
          <5> QED
            BY <3>1, <5>1, EndsFacts
        <4>2. CASE pc' = [pc EXCEPT ![t] = "writing"] /\ UNCHANGED <<ctx, todo, operator>>
          BY <3>1, <4>2
        <4> QED
          BY <2>12, <4>1, <4>2, DoctorProbeFacts
      <3>3. pc[t] = "probing" /\ CredentialFailures(Credential[ctx[t].key], Needed(ctx[t])) = {}
        <4> HIDE DEF OperatorTypeOK, Context, Process, GateHolds, Gated, Needed, Goto, Ends, CommandEnds
        <4> QED
          BY <2>12, DoctorProbeFacts
      <3>4. GateHolds
        OBVIOUS
      <3> HIDE DEF OperatorTypeOK, Context, Ends, CommandEnds, DoctorEnds, Nothing, Goto, Has
      <3> QED
        BY <3>1, <3>2, <3>3, <3>4
    <2>13. CASE DoctorWrites(t)
      BY <2>13 DEF DoctorWrites
    <2>14. ASSUME NEW m \in {"none", "active"}, DoctorWriteFails(t, m) PROVE GateHolds'
      BY <2>14 DEF DoctorWriteFails
    <2>15. CASE DoctorCleans(t)
      BY <2>15 DEF DoctorCleans
    <2>16. ASSUME NEW m \in {"active", "stale"}, DoctorCleanupFails(t, m) PROVE GateHolds'
      BY <2>16 DEF DoctorCleanupFails
    <2> HIDE DEF OperatorTypeOK, Context, Process, GateHolds, Gated, Needed, Goto, Has, Ends, CommandEnds
    <2>17. SetupStep(t) => GateHolds'
      BY <2>1, <2>2, <2>3, <2>4, <2>5 DEF SetupStep
    <2>18. CommandStep(t) => GateHolds'
      BY <2>6, <2>7, <2>8, <2>9, <2>10, <2>11 DEF CommandStep
    <2>19. DoctorStep(t) => GateHolds'
      BY <2>12, <2>13, <2>14, <2>15, <2>16 DEF DoctorStep
    <2> QED
      BY <1>1, <2>17, <2>18, <2>19
  <1>2. ASSUME NEW s \in Session, SessionStep(s) PROVE GateHolds'
    <2>1. ASSUME NEW a \in Agent, SessionReadConfig(s, a) PROVE GateHolds'
      BY <2>1 DEF SessionReadConfig
    <2>2. CASE SessionOpens(s)
      BY <2>2, LoadedKey DEF SessionOpens
    <2>3. CASE SessionRefuses(s)
      BY <2>3 DEF SessionRefuses
    <2>4. CASE SessionProbe(s)
      BY <2>4 DEF SessionProbe, Accepted
    <2>5. ASSUME NEW o \in Op, Capture(s, o) PROVE GateHolds'
      BY <2>5 DEF Capture
    <2>6. CASE SessionFlush(s)
      BY <2>6 DEF SessionFlush
    <2>7. CASE SessionEnds(s)
      BY <2>7 DEF SessionEnds
    <2> QED
      BY <1>2, <2>1, <2>2, <2>3, <2>4, <2>5, <2>6, <2>7 DEF SessionStep
  <1>3. ASSUME NEW p \in Process, DrainStep(p) \/ Dies(p) PROVE GateHolds'
    <2>1. ASSUME NEW o \in Op, Take(p, o) PROVE GateHolds'
      BY <2>1 DEF Take
    <2>2. ASSUME NEW o \in Op, Delivers(p, o) PROVE GateHolds'
      BY <2>2 DEF Delivers
    <2>3. ASSUME NEW o \in Op, IsDenied(p, o) PROVE GateHolds'
      BY <2>3 DEF IsDenied
    <2>4. ASSUME NEW o \in Op, GoesUnanswered(p, o) PROVE GateHolds'
      BY <2>4 DEF GoesUnanswered
    <2>5. CASE FlushEnds(p)
      BY <2>5, GateKeptByLeaving
    <2>6. CASE Dies(p)
      BY <2>6, GateKeptByLeaving
    <2> QED
      BY <1>3, <2>1, <2>2, <2>3, <2>4, <2>5, <2>6 DEF DrainStep, Answered
  <1>4. ASSUME NEW o \in Op, LeaseExpires(o) PROVE GateHolds'
    BY <1>4 DEF LeaseExpires
  <1>5. ASSUME NEW k \in Revocable, Revoke(k) PROVE GateHolds'
    BY <1>5 DEF Revoke
  <1>6. CASE UNCHANGED vars
    BY <1>6
  <1> QED
    BY <1>1, <1>2, <1>3, <1>4, <1>5, <1>6 DEF Next

\* A claim ends before its holder stops draining.
LEMMA HoldersStep == OperatorTypeOK /\ HoldersDrain /\ [Next]_vars => HoldersDrain'
  <1> SUFFICES ASSUME OperatorTypeOK, HoldersDrain, [Next]_vars PROVE HoldersDrain'
    OBVIOUS
  <1> USE ProcessAssumption DEF OperatorTypeOK, Process, HoldersDrain, Goto, Has, Ends, CommandEnds, DoctorEnds
  <1>1. ASSUME NEW t \in Terminal, SetupStep(t) \/ CommandStep(t) \/ DoctorStep(t)
        PROVE HoldersDrain'
    <2>1. CASE SetupStart(t)
      BY <2>1 DEF SetupStart
    <2>2. ASSUME NEW c \in Config \cup {NoConfig}, NEW k \in Key \cup {NoKey}, SetupAnswer(t, c, k)
          PROVE HoldersDrain'
      BY <2>2 DEF SetupAnswer
    <2>3. CASE SetupSaveConfig(t)
      BY <2>3 DEF SetupSaveConfig
    <2>4. CASE SetupSaveKey(t)
      BY <2>4 DEF SetupSaveKey
    <2>5. CASE SetupFails(t)
      BY <2>5 DEF SetupFails
    <2>6. ASSUME NEW cmd \in {"flush", "doctor"}, CommandStart(t, cmd) PROVE HoldersDrain'
      BY <2>6 DEF CommandStart
    <2>7. CASE CommandReadConfig(t)
      BY <2>7 DEF CommandReadConfig
    <2>8. CASE CommandReadKey(t)
      BY <2>8 DEF CommandReadKey
    <2>9. CASE CommandFails(t)
      BY <2>9 DEF CommandFails
    <2>10. CASE FlushProbe(t)
      BY <2>10 DEF FlushProbe
    <2>11. CASE FlushUnblocks(t)
      BY <2>11 DEF FlushUnblocks
    <2>12. ASSUME NEW write \in BOOLEAN, DoctorProbe(t, write) PROVE HoldersDrain'
      BY <2>12 DEF DoctorProbe
    <2>13. CASE DoctorWrites(t)
      BY <2>13 DEF DoctorWrites
    <2>14. ASSUME NEW m \in {"none", "active"}, DoctorWriteFails(t, m) PROVE HoldersDrain'
      BY <2>14 DEF DoctorWriteFails
    <2>15. CASE DoctorCleans(t)
      BY <2>15 DEF DoctorCleans
    <2>16. ASSUME NEW m \in {"active", "stale"}, DoctorCleanupFails(t, m) PROVE HoldersDrain'
      BY <2>16 DEF DoctorCleanupFails
    <2> HIDE DEF OperatorTypeOK, Process, HoldersDrain, Goto, Has, Ends, CommandEnds, DoctorEnds
    <2>17. SetupStep(t) => HoldersDrain'
      BY <2>1, <2>2, <2>3, <2>4, <2>5 DEF SetupStep
    <2>18. CommandStep(t) => HoldersDrain'
      BY <2>6, <2>7, <2>8, <2>9, <2>10, <2>11 DEF CommandStep
    <2>19. DoctorStep(t) => HoldersDrain'
      BY <2>12, <2>13, <2>14, <2>15, <2>16 DEF DoctorStep
    <2> QED
      BY <1>1, <2>17, <2>18, <2>19
  <1>2. ASSUME NEW s \in Session, SessionStep(s) PROVE HoldersDrain'
    <2>1. ASSUME NEW a \in Agent, SessionReadConfig(s, a) PROVE HoldersDrain'
      BY <2>1 DEF SessionReadConfig
    <2>2. CASE SessionOpens(s)
      BY <2>2 DEF SessionOpens
    <2>3. CASE SessionRefuses(s)
      BY <2>3 DEF SessionRefuses
    <2>4. CASE SessionProbe(s)
      BY <2>4 DEF SessionProbe
    <2>5. ASSUME NEW o \in Op, Capture(s, o) PROVE HoldersDrain'
      BY <2>5 DEF Capture
    <2>6. CASE SessionFlush(s)
      BY <2>6 DEF SessionFlush
    <2>7. CASE SessionEnds(s)
      BY <2>7 DEF SessionEnds
    <2> QED
      BY <1>2, <2>1, <2>2, <2>3, <2>4, <2>5, <2>6, <2>7 DEF SessionStep
  <1>3. ASSUME NEW p \in Process, DrainStep(p) \/ Dies(p) PROVE HoldersDrain'
    <2>1. ASSUME NEW o \in Op, Take(p, o) PROVE HoldersDrain'
      BY <2>1 DEF Take
    <2>2. ASSUME NEW o \in Op, Delivers(p, o) PROVE HoldersDrain'
      BY <2>2 DEF Delivers
    <2>3. ASSUME NEW o \in Op, IsDenied(p, o) PROVE HoldersDrain'
      BY <2>3 DEF IsDenied
    <2>4. ASSUME NEW o \in Op, GoesUnanswered(p, o) PROVE HoldersDrain'
      BY <2>4 DEF GoesUnanswered
    <2>5. CASE FlushEnds(p)
      <3>1. CASE p \in Terminal
        BY <2>5, <3>1, ProcessAssumption DEF FlushEnds
      <3>2. CASE p \in Session
        BY <2>5, <3>2, ProcessAssumption DEF FlushEnds
      <3> QED
        BY <3>1, <3>2
    <2>6. CASE Dies(p)
      <3>1. CASE p \in Terminal
        BY <2>6, <3>1, ProcessAssumption DEF Dies
      <3>2. CASE p \in Session
        BY <2>6, <3>2, ProcessAssumption DEF Dies
      <3> QED
        BY <3>1, <3>2
    <2> QED
      BY <1>3, <2>1, <2>2, <2>3, <2>4, <2>5, <2>6 DEF DrainStep, Answered
  <1>4. ASSUME NEW o \in Op, LeaseExpires(o) PROVE HoldersDrain'
    BY <1>4 DEF LeaseExpires
  <1>5. ASSUME NEW k \in Revocable, Revoke(k) PROVE HoldersDrain'
    BY <1>5 DEF Revoke
  <1>6. CASE UNCHANGED vars
    BY <1>6
  <1> QED
    BY <1>1, <1>2, <1>3, <1>4, <1>5, <1>6 DEF Next

LEMMA OperatorInit == Init => OperatorIInv
  <1>1. Init => GateHolds /\ HoldersDrain
    BY ProcessAssumption DEF Init, GateHolds, Gated, HoldersDrain, Process
  <1> QED
    BY <1>1, OperatorTypeInit DEF OperatorIInv

LEMMA OperatorStep == OperatorIInv /\ [Next]_vars => OperatorIInv'
  BY OperatorTypeStep, GateStep, HoldersStep DEF OperatorIInv

\* In every behaviour of the operator's side nobody sends, unblocks or writes a
\* probe without a key that was accepted for the configuration and the agent it
\* has in hand, and no claim outlives the flush that made it (runtime.py:303,
\* cli.py:516).
THEOREM OperatorInductive == Spec => []OperatorIInv
  BY OperatorInit, OperatorStep, PTL DEF Spec

-----------------------------------------------------------------------------
(* What is delivered. *)

\* The only step that delivers is taken with an accepted key, and Sibyl takes
\* the operation only if the key's one project and one space are its own.
LEMMA DeliveredWithin ==
  ASSUME OperatorIInv, NEW p \in Process, NEW o \in Op, Delivers(p, o)
  PROVE  LET cred == Credential[ctx[p].key]
         IN  /\ cred.type = "api_key" /\ cred.profile = "memory_provider"
             /\ cred.projects = {origin[o].project}
             /\ cred.spaces = {origin[o].space}
  <1> DEFINE cred == Credential[ctx[p].key]
  <1>1. holder[o] = p /\ Permits(ctx[p].key, origin[o])
    BY DEF Delivers
  <1>2. pc[p] = "draining"
    BY <1>1 DEF OperatorIInv, HoldersDrain
  <1>3. CredentialFailures(cred, Needed(ctx[p])) = {}
    BY <1>2 DEF OperatorIInv, GateHolds, Gated
  <1>4. /\ cred.type = "api_key" /\ cred.profile = "memory_provider"
        /\ cred.projects = {Needed(ctx[p]).project}
        /\ cred.spaces = {Needed(ctx[p]).space}
    BY <1>3, SafeCredential
  <1>5. origin[o].project \in cred.projects /\ origin[o].space \in cred.spaces
    BY <1>1 DEF Permits
  <1> QED
    BY <1>4, <1>5

LEMMA LeastPrivilegeStep ==
  OperatorIInv /\ LeastPrivilege /\ [Next]_vars => LeastPrivilege'
  <1> SUFFICES ASSUME OperatorIInv, LeastPrivilege, [Next]_vars PROVE LeastPrivilege'
    OBVIOUS
  <1>1. OperatorTypeOK
    BY DEF OperatorIInv
  <1>2. ASSUME NEW p \in Process, NEW o \in Op, Delivers(p, o) PROVE LeastPrivilege'
    <2>1. /\ state' = [state EXCEPT ![o] = "delivered"] /\ origin' = origin
          /\ sentWith' = [sentWith EXCEPT ![o] = ctx[p].key]
      BY <1>2 DEF Delivers
    <2> QED
      BY <1>1, <1>2, <2>1, DeliveredWithin DEF LeastPrivilege, OperatorTypeOK
  <1>3. ASSUME NEW s \in Session, NEW o \in Op, Capture(s, o) PROVE LeastPrivilege'
    BY <1>1, <1>3 DEF Capture, LeastPrivilege, OperatorTypeOK
  <1>4. ASSUME NEW t \in Terminal, FlushUnblocks(t) PROVE LeastPrivilege'
    BY <1>1, <1>4 DEF FlushUnblocks, Unblocked, LeastPrivilege, OperatorTypeOK
  <1>5. ASSUME NEW p \in Process, NEW o \in Op, IsDenied(p, o) PROVE LeastPrivilege'
    BY <1>1, <1>5 DEF IsDenied, LeastPrivilege, OperatorTypeOK
  <1>6. CASE UNCHANGED <<state, origin, sentWith>>
    BY <1>6 DEF LeastPrivilege
  <1>7. ASSUME NEW t \in Terminal, SetupStep(t) \/ CommandStep(t) \/ DoctorStep(t)
        PROVE UNCHANGED <<state, origin, sentWith>> \/ FlushUnblocks(t)
    BY <1>7 DEF SetupStep, SetupStart, SetupAnswer, SetupSaveConfig, SetupSaveKey, SetupFails,
      CommandStep, CommandStart, CommandReadConfig, CommandReadKey, CommandFails, FlushProbe,
      DoctorStep, DoctorProbe, DoctorWrites, DoctorWriteFails, DoctorCleans, DoctorCleanupFails
  <1>8. ASSUME NEW s \in Session, SessionStep(s)
        PROVE UNCHANGED <<state, origin, sentWith>> \/ \E o \in Op : Capture(s, o)
    BY <1>8 DEF SessionStep, SessionReadConfig, SessionOpens, SessionRefuses, SessionProbe,
      SessionFlush, SessionEnds
  <1>9. ASSUME NEW p \in Process, DrainStep(p) \/ Dies(p)
        PROVE UNCHANGED <<state, origin, sentWith>>
              \/ \E o \in Op : Delivers(p, o) \/ IsDenied(p, o)
    BY <1>9 DEF DrainStep, Answered, Take, GoesUnanswered, FlushEnds, Dies
  <1>10. ASSUME NEW o \in Op, LeaseExpires(o) PROVE UNCHANGED <<state, origin, sentWith>>
    BY <1>10 DEF LeaseExpires
  <1>11. ASSUME NEW k \in Revocable, Revoke(k) PROVE UNCHANGED <<state, origin, sentWith>>
    BY <1>11 DEF Revoke
  <1>12. CASE Next
    BY <1>12, <1>2, <1>3, <1>4, <1>5, <1>6, <1>7, <1>8, <1>9, <1>10, <1>11 DEF Next
  <1> QED
    BY <1>6, <1>12

\* Whichever process delivers an operation, with whatever configuration and
\* after whatever setups, the key it is sent with can write to the project and
\* the space it was captured for and to no other (trust.py:37).
THEOREM LeastPrivilegeHolds == Spec => []LeastPrivilege
  <1>1. Init => LeastPrivilege
    BY DEF Init, LeastPrivilege
  <1> QED
    BY <1>1, OperatorInductive, LeastPrivilegeStep, PTL DEF Spec

-----------------------------------------------------------------------------
(* One terminal's commands, seen from its own state. *)

\* Where a terminal stands, and what it has in hand, changes by its commands
\* alone; a step that ends one writes no report.
LEMMA TerminalFrame ==
  ASSUME OperatorTypeOK, [Next]_vars, NEW t \in Terminal
  PROVE  \/ SetupStep(t) \/ CommandStep(t) \/ DoctorStep(t)
         \/ pc'[t] = "idle" /\ probe'[t] = probe[t]
         \/ /\ pc'[t] = pc[t] /\ ctx'[t] = ctx[t]
            /\ probe'[t] = probe[t] /\ existing'[t] = existing[t]
  <1> DEFINE Same == /\ pc'[t] = pc[t] /\ ctx'[t] = ctx[t]
                     /\ probe'[t] = probe[t] /\ existing'[t] = existing[t]
  <1>0. t \in Process /\ t \notin Session
    BY ProcessAssumption DEF Process
  <1>1. ASSUME NEW u \in Terminal, u # t, SetupStep(u) PROVE Same
    <2>1. CASE SetupStart(u)
      BY <1>0, <1>1, <2>1 DEF SetupStart, OperatorTypeOK, Goto, Has
    <2>2. ASSUME NEW c, NEW k, SetupAnswer(u, c, k) PROVE Same
      BY <1>0, <1>1, <2>2 DEF SetupAnswer, OperatorTypeOK, operator, Goto, Has
    <2>3. CASE SetupSaveConfig(u)
      BY <1>0, <1>1, <2>3 DEF SetupSaveConfig, OperatorTypeOK, Goto
    <2>4. CASE SetupSaveKey(u) \/ SetupFails(u)
      BY <1>0, <1>1, <2>4 DEF SetupSaveKey, SetupFails, OperatorTypeOK, Goto, Has, Ends, CommandEnds
    <2> QED
      BY <1>1, <2>1, <2>2, <2>3, <2>4 DEF SetupStep
  <1>2. ASSUME NEW u \in Terminal, u # t, CommandStep(u) PROVE Same
    BY <1>0, <1>2 DEF CommandStep, CommandStart, CommandReadConfig, CommandReadKey, CommandFails,
      FlushProbe, FlushUnblocks, OperatorTypeOK, operator, Goto, Has, Ends, CommandEnds
  <1>3. ASSUME NEW u \in Terminal, u # t, DoctorStep(u) PROVE Same
    BY <1>0, <1>3 DEF DoctorStep, DoctorProbe, DoctorWrites, DoctorWriteFails, DoctorCleans,
      DoctorCleanupFails, DoctorEnds, OperatorTypeOK, operator, Goto, Has, Ends, CommandEnds
  <1>4. ASSUME NEW s \in Session, SessionStep(s) PROVE Same
    BY <1>0, <1>4 DEF SessionStep, SessionReadConfig, SessionOpens, SessionRefuses, SessionProbe,
      Capture, SessionFlush, SessionEnds, OperatorTypeOK, operator, Goto, Has, Ends
  <1>5. ASSUME NEW p \in Process, FlushEnds(p) \/ Dies(p)
        PROVE  Same \/ (pc'[t] = "idle" /\ probe'[t] = probe[t])
    <2>1. probe' = probe
      BY <1>5, LeavingFacts
    <2>2. CASE p # t
      <3>1. pc'[t] = pc[t] /\ ctx'[t] = ctx[t]
        BY <1>0, <1>5, <2>2, LeavingFacts
      <3>2. existing'[t] = existing[t]
        BY <1>5, <2>2 DEF FlushEnds, Dies, CommandEnds, operator, OperatorTypeOK
      <3> QED
        BY <2>1, <3>1, <3>2
    <2>3. CASE p = t
      BY <1>0, <1>5, <2>1, <2>3 DEF FlushEnds, Dies, CommandEnds, Ends, Goto, OperatorTypeOK
    <2> QED
      BY <2>2, <2>3
  <1>6. ASSUME NEW p \in Process, DrainStep(p), ~FlushEnds(p) PROVE Same
    BY <1>6 DEF DrainStep, Answered, Take, Delivers, IsDenied, GoesUnanswered, operator
  <1>7. ASSUME NEW o \in Op, LeaseExpires(o) PROVE Same
    BY <1>7 DEF LeaseExpires, operator
  <1>8. ASSUME NEW k \in Revocable, Revoke(k) PROVE Same
    BY <1>8 DEF Revoke, operator
  <1>9. UNCHANGED vars => Same
    BY DEF vars, operator
  <1> HIDE DEF Same
  <1>10. ASSUME Same
         PROVE  /\ pc'[t] = pc[t] /\ ctx'[t] = ctx[t]
                /\ probe'[t] = probe[t] /\ existing'[t] = existing[t]
    BY <1>10 DEF Same
  <1> QED
    BY <1>1, <1>2, <1>3, <1>4, <1>5, <1>6, <1>7, <1>8, <1>9, <1>10 DEF Next

\* The report of a write probe is begun anew with every command, and says
\* nothing of its success before the memory it wrote has been corrected.
ProbeStages ==
    \A t \in Terminal :
        /\ pc[t] \in {"reading_config", "reading_key", "probing", "writing"} => probe[t] = NoProbe
        /\ pc[t] = "cleaning" => probe[t].verdict = "none"

\* Every command of doctor keeps what its write probe left behind on record.
LEMMA ProbeStep ==
  OperatorTypeOK /\ ProbeStages /\ ProbeAccounted /\ [Next]_vars
    => ProbeStages' /\ ProbeAccounted'
  <1> SUFFICES ASSUME OperatorTypeOK, ProbeStages, ProbeAccounted, [Next]_vars, NEW t \in Terminal
               PROVE  /\ pc'[t] \in {"reading_config", "reading_key", "probing", "writing"}
                            => probe'[t] = NoProbe
                      /\ pc'[t] = "cleaning" => probe'[t].verdict = "none"
                      /\ probe'[t].memory = "active" =>
                            /\ probe'[t].verdict # "pass"
                            /\ probe'[t].verdict = "fail" /\ probe'[t].answered => probe'[t].named
    BY DEF ProbeStages, ProbeAccounted
  <1> DEFINE Stages == /\ pc'[t] \in {"reading_config", "reading_key", "probing", "writing"}
                            => probe'[t] = NoProbe
                       /\ pc'[t] = "cleaning" => probe'[t].verdict = "none"
                       /\ probe'[t].memory = "active" =>
                            /\ probe'[t].verdict # "pass"
                            /\ probe'[t].verdict = "fail" /\ probe'[t].answered => probe'[t].named
  <1>0. t \in Process /\ probe[t] \in Report
    BY DEF Process, OperatorTypeOK
  <1> USE DEF ProbeStages, ProbeAccounted, OperatorTypeOK, Goto
  <1>1. CASE SetupStep(t)
    <2>1. CASE SetupStart(t)
      BY <1>0, <2>1 DEF SetupStart, NoProbe
    <2>2. ASSUME NEW c \in Config \cup {NoConfig}, NEW k \in Key \cup {NoKey}, SetupAnswer(t, c, k)
          PROVE  Stages
      BY <1>0, <2>2 DEF SetupAnswer, operator
    <2>3. CASE SetupSaveConfig(t)
      BY <1>0, <2>3 DEF SetupSaveConfig
    <2>4. CASE SetupSaveKey(t) \/ SetupFails(t)
      BY <1>0, <2>4 DEF SetupSaveKey, SetupFails, CommandEnds, Ends
    <2> QED
      BY <1>1, <2>1, <2>2, <2>3, <2>4 DEF SetupStep
  <1>2. CASE CommandStep(t)
    <2>1. ASSUME NEW cmd \in {"flush", "doctor"}, CommandStart(t, cmd) PROVE Stages
      BY <1>0, <2>1 DEF CommandStart, NoProbe
    <2>2. CASE CommandReadConfig(t) \/ CommandReadKey(t)
      BY <1>0, <2>2 DEF CommandReadConfig, CommandReadKey, operator
    <2>3. CASE CommandFails(t)
      <3>1. probe[t] = NoProbe /\ pc'[t] = "idle"
        BY <1>0, <2>3 DEF CommandFails, CommandEnds, Ends
      <3>2. probe'[t] \in {probe[t], [probe[t] EXCEPT !.verdict = "fail"]}
        BY <2>3 DEF CommandFails
      <3>3. probe'[t].memory = "none"
        BY <3>1, <3>2 DEF NoProbe
      <3> QED
        BY <3>1, <3>3
    <2>4. CASE FlushProbe(t) \/ FlushUnblocks(t)
      BY <1>0, <2>4 DEF FlushProbe, FlushUnblocks, operator
    <2> QED
      BY <1>2, <2>1, <2>2, <2>3, <2>4 DEF CommandStep
  <1>3. CASE DoctorStep(t)
    <2>1. ASSUME NEW write \in BOOLEAN, DoctorProbe(t, write) PROVE Stages
      <3>1. CASE write
        BY <1>0, <2>1, <3>1 DEF DoctorProbe, operator
      <3>2. CASE ~write
        <4>1. probe[t] = NoProbe /\ pc'[t] = "idle"
          BY <1>0, <2>1, <3>2 DEF DoctorProbe, CommandEnds, Ends
        <4>2. probe'[t] = [probe[t] EXCEPT !.verdict = "pass"]
          BY <2>1, <3>2 DEF DoctorProbe
        <4> QED
          BY <4>1, <4>2 DEF NoProbe
      <3> QED
        BY <3>1, <3>2
    <2>2. CASE DoctorWrites(t)
      <3>1. /\ pc'[t] = "cleaning" /\ probe[t] = NoProbe
            /\ probe'[t] = [probe[t] EXCEPT !.memory = "active", !.answered = TRUE]
        BY <1>0, <2>2 DEF DoctorWrites
      <3> QED
        BY <3>1 DEF NoProbe
    <2>3. ASSUME NEW memory \in {"none", "active"}, DoctorWriteFails(t, memory) PROVE Stages
      <3>1. /\ pc'[t] = "idle"
            /\ probe'[t] = [NoProbe EXCEPT !.memory = memory, !.verdict = "fail"]
        BY <1>0, <2>3 DEF DoctorWriteFails, DoctorEnds, CommandEnds, Ends
      <3> QED
        BY <3>1 DEF NoProbe
    <2>4. CASE DoctorCleans(t)
      <3>1. /\ pc'[t] = "idle"
            /\ probe'[t] = [probe[t] EXCEPT !.memory = "stale", !.verdict = "pass"]
        BY <1>0, <2>4 DEF DoctorCleans, DoctorEnds, CommandEnds, Ends
      <3> QED
        BY <1>0, <3>1 DEF Report
    <2>5. ASSUME NEW memory \in {"active", "stale"}, DoctorCleanupFails(t, memory) PROVE Stages
      <3>1. /\ pc'[t] = "idle"
            /\ probe'[t] = [probe[t] EXCEPT !.memory = memory, !.verdict = "fail", !.named = TRUE]
        BY <1>0, <2>5 DEF DoctorCleanupFails, CleanupReport, DoctorEnds, CommandEnds, Ends
      <3> QED
        BY <1>0, <3>1 DEF Report
    <2> QED
      BY <1>3, <2>1, <2>2, <2>3, <2>4, <2>5 DEF DoctorStep
  <1>4. CASE pc'[t] = "idle" /\ probe'[t] = probe[t]
    BY <1>4
  <1>5. CASE pc'[t] = pc[t] /\ probe'[t] = probe[t]
    BY <1>5
  <1> QED
    BY <1>1, <1>2, <1>3, <1>4, <1>5, TerminalFrame

\* doctor never leaves its diagnostic memory in use without saying so: a pass
\* means it was marked stale, and after an answered write a failure names it
\* (cli.py:309, _WriteProbeCleanupError).
THEOREM ProbeAccountedHolds == Spec => []ProbeAccounted
  <1>1. Init => ProbeStages /\ ProbeAccounted
    BY DEF Init, ProbeStages, ProbeAccounted, NoProbe, Process
  <1>2. OperatorIInv /\ ProbeStages /\ ProbeAccounted /\ [Next]_vars
          => (ProbeStages /\ ProbeAccounted)'
    BY ProbeStep DEF OperatorIInv
  <1> QED
    BY <1>1, <1>2, OperatorInductive, PTL DEF Spec

-----------------------------------------------------------------------------
(* What a setup leaves behind. *)

\* The operator runs one command at a time.
OneTerminal == \A t, u \in Terminal : t = u

\* What a setup has validated is still what it found and what it will save.
SetupHolds ==
    /\ \A t \in Terminal :
          /\ pc[t] \in {"answering", "saving_config", "saving_key"} => existing[t] = LoadKey(t)
          /\ pc[t] = "saving_key" => file.config = ctx[t].config
    /\ settled # NoSetup =>
          /\ settled.key \in Key
          /\ settled.config = file.config
          /\ CredentialFailures(Credential[settled.key],
                                Requirement(settled.config, settled.agent)) = {}
          /\ ~settled.inherited => file.key = settled.key

\* The files and the record of the last setup are written by these steps only,
\* and nobody's environment changes.
LEMMA FilesFrame ==
  ASSUME OperatorTypeOK, [Next]_vars
  PROVE  /\ env' = env
         /\ \/ \E t \in Terminal : SetupSaveConfig(t) \/ SetupSaveKey(t)
            \/ /\ settled' = settled
               /\ file'.key = file.key /\ file'.config = file.config
  <1> DEFINE Kept == /\ env' = env /\ settled' = settled
                     /\ file'.key = file.key /\ file'.config = file.config
  <1>1. ASSUME NEW t \in Terminal, SetupStep(t)
        PROVE  Kept \/ (env' = env /\ (SetupSaveConfig(t) \/ SetupSaveKey(t)))
    BY <1>1 DEF SetupStep, SetupStart, SetupAnswer, SetupSaveConfig, SetupSaveKey, SetupFails,
      operator
  <1>2. ASSUME NEW t \in Terminal, CommandStep(t) PROVE Kept
    BY <1>2 DEF CommandStep, CommandStart, CommandReadConfig, CommandReadKey, CommandFails,
      FlushProbe, FlushUnblocks, operator
  <1>3. ASSUME NEW t \in Terminal, DoctorStep(t) PROVE Kept
    BY <1>3 DEF DoctorStep, DoctorProbe, DoctorWrites, DoctorWriteFails, DoctorCleans,
      DoctorCleanupFails, operator
  <1>4. ASSUME NEW s \in Session, SessionStep(s) PROVE Kept
    BY <1>4 DEF SessionStep, SessionReadConfig, SessionOpens, SessionRefuses, SessionProbe,
      Capture, SessionFlush, SessionEnds, operator, OperatorTypeOK, Context
  <1>5. ASSUME NEW p \in Process, FlushEnds(p) \/ Dies(p) PROVE Kept
    <2>1. settled' = settled
      BY <1>5, LeavingFacts
    <2> QED
      BY <1>5, <2>1 DEF FlushEnds, Dies
  <1>6. ASSUME NEW p \in Process, DrainStep(p), ~FlushEnds(p) PROVE Kept
    BY <1>6 DEF DrainStep, Answered, Take, Delivers, IsDenied, GoesUnanswered, operator
  <1>7. ASSUME NEW o \in Op, LeaseExpires(o) PROVE Kept
    BY <1>7 DEF LeaseExpires, operator
  <1>8. ASSUME NEW k \in Revocable, Revoke(k) PROVE Kept
    BY <1>8 DEF Revoke, operator
  <1>9. UNCHANGED vars => Kept
    BY DEF vars, operator
  <1> QED
    BY <1>1, <1>2, <1>3, <1>4, <1>5, <1>6, <1>7, <1>8, <1>9 DEF Next

LEMMA SetupHoldsStep ==
  ASSUME OneTerminal
  PROVE  OperatorTypeOK /\ GateHolds /\ SetupHolds /\ [Next]_vars => SetupHolds'
  <1> SUFFICES ASSUME OperatorTypeOK, GateHolds, SetupHolds, [Next]_vars PROVE SetupHolds'
    OBVIOUS
  <1> USE DEF OneTerminal
  <1>1. ASSUME NEW t \in Terminal, SetupSaveConfig(t) PROVE SetupHolds'
    <2>1. /\ pc[t] = "saving_config" /\ pc'[t] = "saving_key" /\ settled' = NoSetup
          /\ file'.config = ctx[t].config /\ file'.key = file.key
          /\ ctx' = ctx /\ env' = env /\ existing' = existing
      BY <1>1 DEF SetupSaveConfig, OperatorTypeOK, Context, Goto, Process
    <2> QED
      BY <2>1 DEF SetupHolds, LoadKey
  <1>2. ASSUME NEW t \in Terminal, SetupSaveKey(t) PROVE SetupHolds'
    <2>0. t \in Process
      BY DEF Process
    <2>1. /\ pc[t] = "saving_key" /\ pc'[t] = "idle"
          /\ file'.key = KeySaved(t) /\ file'.config = file.config
          /\ settled' = [config |-> ctx[t].config, key |-> ctx[t].key, agent |-> ctx[t].agent,
                         inherited |-> ctx[t].key = env[t]]
      BY <1>2, <2>0 DEF SetupSaveKey, CommandEnds, Ends, Goto, OperatorTypeOK, Context
    <2>2. /\ ctx[t].key \in Key
          /\ CredentialFailures(Credential[ctx[t].key], Needed(ctx[t])) = {}
      BY <2>0, <2>1 DEF GateHolds, Gated
    <2>3. file.config = ctx[t].config /\ existing[t] = LoadKey(t)
      BY <2>1 DEF SetupHolds
    <2>4. ctx[t].key # env[t] => file'.key = ctx[t].key
      BY <2>1, <2>3 DEF KeySaved, LoadKey
    <2>5. /\ settled'.key = ctx[t].key /\ settled'.config = ctx[t].config
          /\ settled'.agent = ctx[t].agent /\ settled'.inherited = (ctx[t].key = env[t])
      BY <2>1
    <2>6. CredentialFailures(Credential[settled'.key],
                             Requirement(settled'.config, settled'.agent)) = {}
      BY <2>2, <2>5 DEF Needed
    <2> QED
      BY <2>1, <2>2, <2>3, <2>4, <2>5, <2>6 DEF SetupHolds
  <1>3. CASE env' = env /\ settled' = settled /\ file'.key = file.key /\ file'.config = file.config
    <2>1. ASSUME NEW t \in Terminal
          PROVE  /\ pc'[t] \in {"answering", "saving_config", "saving_key"}
                        => existing'[t] = LoadKey(t)'
                 /\ pc'[t] = "saving_key" => file'.config = ctx'[t].config
      <3>0. LoadKey(t)' = LoadKey(t) /\ t \in Process
        BY <1>3 DEF LoadKey, Process
      <3>1. CASE SetupStep(t)
        <4>1. CASE SetupStart(t)
          BY <3>0, <4>1 DEF SetupStart, Goto, OperatorTypeOK
        <4>2. ASSUME NEW c \in Config \cup {NoConfig}, NEW k \in Key \cup {NoKey}, SetupAnswer(t, c, k)
              PROVE  pc'[t] = "saving_config" /\ pc[t] = "answering" /\ existing'[t] = existing[t]
          BY <3>0, <4>2 DEF SetupAnswer, Goto, operator, OperatorTypeOK
        <4>3. CASE SetupSaveConfig(t)
          BY <1>1, <4>3 DEF SetupHolds
        <4>4. CASE SetupSaveKey(t) \/ SetupFails(t)
          BY <3>0, <4>4 DEF SetupSaveKey, SetupFails, CommandEnds, Ends, Goto, OperatorTypeOK
        <4> QED
          BY <3>0, <3>1, <4>1, <4>2, <4>3, <4>4 DEF SetupStep, SetupHolds
      <3>2. CASE CommandStep(t) \/ DoctorStep(t)
        <4>1. pc'[t] \notin {"answering", "saving_config", "saving_key"}
          BY <3>0, <3>2 DEF CommandStep, CommandStart, CommandReadConfig, CommandReadKey,
            CommandFails, FlushProbe, FlushUnblocks, DoctorStep, DoctorProbe, DoctorWrites,
            DoctorWriteFails, DoctorCleans, DoctorCleanupFails, DoctorEnds, CommandEnds, Ends,
            Goto, OperatorTypeOK
        <4> QED
          BY <4>1
      <3>3. CASE pc'[t] = "idle"
        BY <3>3
      <3>4. CASE pc'[t] = pc[t] /\ ctx'[t] = ctx[t] /\ existing'[t] = existing[t]
        BY <1>3, <3>0, <3>4 DEF SetupHolds
      <3> QED
        BY <3>1, <3>2, <3>3, <3>4, TerminalFrame
    <2> QED
      BY <1>3, <2>1 DEF SetupHolds
  <1> QED
    BY <1>1, <1>2, <1>3, FilesFrame

\* Of an operator who runs one command at a time: a setup that ended well
\* leaves a key and a configuration that suit each other for the next session,
\* however sessions, revocations and failed setups come in between
\* (config.py:345 saves two files, config.py:346 not always the key).
THEOREM SetupEffectiveHolds == OneTerminal => (Spec => []SetupEffective)
  <1> SUFFICES ASSUME OneTerminal PROVE Spec => []SetupEffective
    OBVIOUS
  <1>1. Init => SetupHolds
    BY DEF Init, SetupHolds, Process
  <1>2. OperatorIInv /\ SetupHolds /\ [Next]_vars => SetupHolds'
    BY SetupHoldsStep DEF OperatorIInv
  <1>3. SetupHolds => SetupEffective
    BY NamesAssumption DEF SetupHolds, SetupEffective, LoadKey
  <1> QED
    BY <1>1, <1>2, <1>3, OperatorInductive, PTL DEF Spec
=============================================================================
