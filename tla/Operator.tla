------------------------------ MODULE Operator ------------------------------
(***************************************************************************)
(* The operator's side of hermes-sibyl-memory: setup (src/config.py), the  *)
(* commands doctor and flush (src/cli.py), and the Hermes sessions that    *)
(* load what setup saved (src/provider.py), around three files and one     *)
(* outbox.  Every file is replaced atomically, but no two of them at once: *)
(* a process reads them one by one and keeps what it read until it ends,   *)
(* while setup, a new session or a revoked key overtake it.                *)
(*                                                                         *)
(* The outbox is reduced to what authentication does to an operation; its  *)
(* claims, fences and retries are those of Outbox.                         *)
(*                                                                         *)
(* Definitions marked "Fault" are not the code: each is what a neighbour   *)
(* would be with a plausible bug, kept to show that a property notices.    *)
(***************************************************************************)
EXTENDS Naturals, FiniteSets

CONSTANTS
    Terminal,     \* shells of the operator: one command at a time in each
    Session,      \* Hermes processes: one session at a time in each
    Op,           \* captured operations
    Project, Space, NoName,   \* what a configuration names, and ""
    Agent, NoAgent,           \* hermes:<workspace>:<identity>, and None
    Canonical,    \* the well-formed ones
    Profile,      \* the agent of the active Hermes profile
    Key, NoKey,   \* API keys, and ""
    Credential,   \* what Sibyl answers about each key on /auth/me
    EnvKey,       \* the key that SIBYL_API_KEY may hold
    Revocable,    \* keys that may be revoked
    MaxSetups,    \* BOUND: how often setup is run
    MaxDeaths     \* BOUND: how often a process dies

Process == Terminal \cup Session
Config == [project : Project, space : Space]
NoConfig == [project |-> NoName, space |-> NoName]
Complete(c) == c.project # NoName /\ c.space # NoName

CredentialShape ==
    [type : {"api_key", "session"}, scopes : SUBSET {"api:write", "api:read"},
     projects : SUBSET Project, spaces : SUBSET Space,
     agent : Agent \cup {NoAgent}, profile : {"memory_provider", "other"}]

ASSUME NamesAssumption ==
    /\ NoName \notin Project \cup Space
    /\ NoAgent \notin Agent
    /\ NoKey \notin Key
    /\ Canonical \subseteq Agent
    /\ Profile \in Canonical
ASSUME ProcessAssumption ==
    Terminal \cap Session = {} /\ "nobody" \notin Process /\ "dead" \notin Process
ASSUME KeyAssumption ==
    /\ Credential \in [Key -> CredentialShape]
    /\ EnvKey \in Key
    /\ Revocable \subseteq Key
ASSUME OperatorBounds == MaxSetups \in Nat /\ MaxDeaths \in Nat

VARIABLES
    file,      \* sibyl.json, SIBYL_API_KEY of .env, the runtime identity
    env,       \* SIBYL_API_KEY in the environment of each process
    revoked,   \* keys Sibyl answers with 401
    pc,        \* where each process stands
    command,   \* what a terminal runs
    ctx,       \* the configuration, key and agent each process has in hand
    existing,  \* the key a setup found before it asked
    todo,      \* operations a flush of the process has still to attempt
    state,     \* of each operation: none, pending, blocked_auth, delivered
    holder,    \* who has claimed it
    origin,    \* the configuration it was captured under
    sentWith,  \* history: the key it was delivered with
    probe,     \* what became of the write probe of a terminal's last command
    settled,   \* history: what the last setup that ended well had validated
    setups, deaths

outbox == <<state, holder, origin, sentWith>>
operator == <<command, existing, probe, settled, setups>>
vars == <<file, env, revoked, pc, ctx, todo, outbox, operator, deaths>>

-----------------------------------------------------------------------------
(* The least-privilege rules. *)

\* Fault: a key that may write the project will do.
BreaksLoosely(cred, req) ==
    [type |-> cred.type # "api_key",
     scope |-> "api:write" \notin cred.scopes,
     project |-> req.project \notin cred.projects,
     space |-> req.space \notin cred.spaces,
     agent |-> cred.agent # req.agent,
     profile |-> cred.profile # "memory_provider"]
\* credential_failures, by name.  req.agent is NoAgent for None.
Breaks(cred, req) ==
    [type |-> cred.type # "api_key",
     scope |-> "api:write" \notin cred.scopes,
     project |-> cred.projects # {req.project},
     space |-> cred.spaces # {req.space},
     agent |-> IF req.agent = NoAgent THEN cred.agent \notin Canonical
                                      ELSE cred.agent # req.agent,
     profile |-> cred.profile # "memory_provider"]
CredentialFailures(cred, req) == {r \in DOMAIN Breaks(cred, req) : Breaks(cred, req)[r]}

\* _credential_checks of doctor: its own list, and the shared one as the last.
DoctorChecks(cred, req) ==
    [type |-> cred.type = "api_key",
     scope |-> "api:write" \in cred.scopes,
     project |-> cred.projects = {req.project},
     space |-> cred.spaces = {req.space},
     agent |-> cred.agent = req.agent,
     profile |-> cred.profile = "memory_provider",
     contract |-> CredentialFailures(cred, req) = {}]
DoctorFails(cred, req) == {c \in DOMAIN DoctorChecks(cred, req) : ~DoctorChecks(cred, req)[c]}

Requirement(config, agent) ==
    [project |-> config.project, space |-> config.space, agent |-> agent]
Needed(c) == Requirement(c.config, c.agent)

\* auth_me answers and the credential is safe for what the process has in hand.
Accepted(c) == c.key \notin revoked /\ CredentialFailures(Credential[c.key], Needed(c)) = {}
DoctorAccepts(c) == c.key \notin revoked /\ DoctorFails(Credential[c.key], Needed(c)) = {}

\* External: Sibyl lets a key write where its restrictions say.
Permits(k, config) ==
    /\ k \notin revoked
    /\ "api:write" \in Credential[k].scopes
    /\ config.project \in Credential[k].projects
    /\ config.space \in Credential[k].spaces

-----------------------------------------------------------------------------
(* The files. *)

\* load_api_key: the environment before the file.
LoadKey(p) == IF env[p] # NoKey THEN env[p] ELSE file.key
\* load_runtime_agent_id(home) or the active profile's.
OperatorAgent == IF file.agent # NoAgent THEN file.agent ELSE Profile

Nothing == [config |-> NoConfig, key |-> NoKey, agent |-> NoAgent]
NoProbe == [memory |-> "none", answered |-> FALSE, named |-> FALSE, verdict |-> "none"]
NoSetup == [config |-> NoConfig, key |-> NoKey, agent |-> NoAgent, inherited |-> FALSE]

Context == [config : Config \cup {NoConfig}, key : Key \cup {NoKey},
            agent : Agent \cup {NoAgent}]

Place == {"idle", "answering", "saving_config", "saving_key", "reading_config", "reading_key",
          "probing", "unblocking", "draining", "writing", "cleaning", "open", "safe", "refused"}
Report == [memory : {"none", "active", "stale"}, answered : BOOLEAN, named : BOOLEAN,
           verdict : {"none", "pass", "fail"}]

OperatorTypeOK ==
    /\ file \in Context
    /\ env \in [Process -> Key \cup {NoKey}]
    /\ revoked \subseteq Key
    /\ pc \in [Process -> Place]
    /\ command \in [Terminal -> {"none", "setup", "flush", "doctor"}]
    /\ ctx \in [Process -> Context]
    /\ existing \in [Terminal -> Key \cup {NoKey}]
    /\ todo \in [Process -> SUBSET Op]
    /\ state \in [Op -> {"none", "pending", "blocked_auth", "delivered"}]
    /\ holder \in [Op -> Process \cup {"nobody", "dead"}]
    /\ origin \in [Op -> Config \cup {NoConfig}]
    /\ sentWith \in [Op -> Key \cup {NoKey}]
    /\ probe \in [Terminal -> Report]
    /\ settled \in [config : Config \cup {NoConfig}, key : Key \cup {NoKey},
                    agent : Agent \cup {NoAgent}, inherited : BOOLEAN]
    /\ setups \in 0 .. MaxSetups
    /\ deaths \in 0 .. MaxDeaths

\* A fresh home, and any environments.
Init ==
    /\ file = Nothing
    /\ env \in [Process -> {NoKey, EnvKey}]
    /\ revoked = {}
    /\ pc = [p \in Process |-> "idle"]
    /\ command = [t \in Terminal |-> "none"]
    /\ ctx = [p \in Process |-> Nothing]
    /\ existing = [t \in Terminal |-> NoKey]
    /\ todo = [p \in Process |-> {}]
    /\ state = [o \in Op |-> "none"]
    /\ holder = [o \in Op |-> "nobody"]
    /\ origin = [o \in Op |-> NoConfig]
    /\ sentWith = [o \in Op |-> NoKey]
    /\ probe = [t \in Terminal |-> NoProbe]
    /\ settled = NoSetup
    /\ setups = 0
    /\ deaths = 0

-----------------------------------------------------------------------------
(* Pieces the steps share. *)

Goto(p, next) == pc' = [pc EXCEPT ![p] = next]
Has(p, config, key, agent) ==
    ctx' = [ctx EXCEPT ![p] = [config |-> config, key |-> key, agent |-> agent]]
\* The process ends, or stands before its next command.
Ends(p) ==
    /\ Goto(p, "idle")
    /\ Has(p, NoConfig, NoKey, NoAgent)
    /\ todo' = [todo EXCEPT ![p] = {}]
CommandEnds(t) ==
    /\ Ends(t)
    /\ command' = [command EXCEPT ![t] = "none"]
    /\ existing' = [existing EXCEPT ![t] = NoKey]

-----------------------------------------------------------------------------
(* run_setup: "hermes memory setup sibyl". *)

\* The configuration and the key it starts from.  Nothing keeps a setup in
\* another terminal from running meanwhile.
SetupStart(t) ==
    /\ pc[t] = "idle"
    /\ setups < MaxSetups
    /\ setups' = setups + 1
    /\ command' = [command EXCEPT ![t] = "setup"]
    /\ existing' = [existing EXCEPT ![t] = LoadKey(t)]
    /\ Has(t, file.config, LoadKey(t), NoAgent)
    /\ Goto(t, "answering")
    /\ probe' = [probe EXCEPT ![t] = NoProbe]
    /\ UNCHANGED <<file, env, revoked, todo, outbox, settled, deaths>>

\* The operator types a value or keeps the present one, and _validate_setup_
\* credential finds the answers good.
SetupAnswer(t, c, k) ==
    LET chosen == [config |-> c, key |-> k, agent |-> OperatorAgent]
    IN  /\ pc[t] = "answering"
        /\ c \in Config \cup {ctx[t].config}
        /\ k \in Key \cup {ctx[t].key}
        /\ Complete(c) /\ k # NoKey
        /\ Accepted(chosen)
        /\ Has(t, c, k, OperatorAgent)
        /\ Goto(t, "saving_config")
        /\ UNCHANGED <<file, env, revoked, todo, outbox, operator, deaths>>

SetupSaveConfig(t) ==
    /\ pc[t] = "saving_config"
    /\ file' = [file EXCEPT !.config = ctx[t].config]
    /\ settled' = NoSetup
    /\ Goto(t, "saving_key")
    /\ UNCHANGED <<env, revoked, ctx, todo, outbox, command, existing, probe, setups, deaths>>

\* Fault: a key once saved is kept.
SaveKeyOnce(t) == IF file.key = NoKey THEN ctx[t].key ELSE file.key
\* The key is saved unless it is the one setup found.
KeySaved(t) == IF ctx[t].key # existing[t] THEN ctx[t].key ELSE file.key

SetupSaveKey(t) ==
    /\ pc[t] = "saving_key"
    /\ file' = [file EXCEPT !.key = KeySaved(t)]
    /\ settled' = [config |-> ctx[t].config, key |-> ctx[t].key, agent |-> ctx[t].agent,
                    inherited |-> ctx[t].key = env[t]]
    /\ CommandEnds(t)
    /\ UNCHANGED <<env, revoked, outbox, probe, setups, deaths>>

\* An answer is missing or refused, Sibyl is out of reach, a file cannot be
\* written, or the operator gives up.
SetupFails(t) ==
    /\ pc[t] \in {"answering", "saving_config", "saving_key"}
    /\ CommandEnds(t)
    /\ UNCHANGED <<file, env, revoked, outbox, probe, settled, setups, deaths>>

-----------------------------------------------------------------------------
(* A session: SibylMemoryProvider.initialize and its runtime. *)

SessionReadConfig(s, a) ==
    /\ pc[s] = "idle"
    /\ Has(s, file.config, NoKey, a)
    /\ Goto(s, "reading_key")
    /\ UNCHANGED <<file, env, revoked, todo, outbox, operator, deaths>>

\* Complete, it leaves its agent for the operator's commands to find.
SessionOpens(s) ==
    /\ pc[s] = "reading_key"
    /\ Complete(ctx[s].config) /\ LoadKey(s) # NoKey
    /\ Has(s, ctx[s].config, LoadKey(s), ctx[s].agent)
    /\ file' = [file EXCEPT !.agent = ctx[s].agent]
    /\ Goto(s, "open")
    /\ UNCHANGED <<env, revoked, todo, outbox, operator, deaths>>

SessionRefuses(s) ==
    /\ pc[s] = "reading_key"
    /\ ~Complete(ctx[s].config) \/ LoadKey(s) = NoKey
    /\ Ends(s)
    /\ UNCHANGED <<file, env, revoked, outbox, operator, deaths>>

\* _ensure_credential_safe; while auth_me is not answered there is no verdict.
SessionProbe(s) ==
    /\ pc[s] = "open"
    /\ ctx[s].key \notin revoked
    /\ Goto(s, IF Accepted(ctx[s]) THEN "safe" ELSE "refused")
    /\ UNCHANGED <<file, env, revoked, ctx, todo, outbox, operator, deaths>>

\* Completed turns are queued whatever the verdict.
Capture(s, o) ==
    /\ pc[s] \in {"open", "safe", "refused", "draining"}
    /\ state[o] = "none"
    /\ state' = [state EXCEPT ![o] = "pending"]
    /\ origin' = [origin EXCEPT ![o] = ctx[s].config]
    /\ UNCHANGED <<file, env, revoked, pc, ctx, todo, holder, sentWith, operator, deaths>>

SessionFlush(s) ==
    /\ pc[s] = "safe"
    /\ Goto(s, "draining")
    /\ todo' = [todo EXCEPT ![s] = {o \in Op : state[o] = "pending"}]
    /\ UNCHANGED <<file, env, revoked, ctx, outbox, operator, deaths>>

SessionEnds(s) ==
    /\ pc[s] \in {"open", "safe", "refused"}
    /\ Ends(s)
    /\ UNCHANGED <<file, env, revoked, outbox, operator, deaths>>

-----------------------------------------------------------------------------
(* The commands: _operator_context reads identity, configuration and key. *)

CommandStart(t, cmd) ==
    /\ pc[t] = "idle"
    /\ command' = [command EXCEPT ![t] = cmd]
    /\ Has(t, NoConfig, NoKey, OperatorAgent)
    /\ probe' = [probe EXCEPT ![t] = NoProbe]
    /\ Goto(t, "reading_config")
    /\ UNCHANGED <<file, env, revoked, todo, outbox, existing, settled, setups, deaths>>

CommandReadConfig(t) ==
    /\ pc[t] = "reading_config"
    /\ Has(t, file.config, NoKey, ctx[t].agent)
    /\ Goto(t, "reading_key")
    /\ UNCHANGED <<file, env, revoked, todo, outbox, operator, deaths>>

CommandReadKey(t) ==
    /\ pc[t] = "reading_key"
    /\ Complete(ctx[t].config) /\ LoadKey(t) # NoKey
    /\ Has(t, ctx[t].config, LoadKey(t), ctx[t].agent)
    /\ Goto(t, "probing")
    /\ UNCHANGED <<file, env, revoked, todo, outbox, operator, deaths>>

\* Incomplete, unreachable, unsafe, or doctor found something else to complain.
CommandFails(t) ==
    /\ \/ pc[t] = "probing"
       \/ pc[t] = "reading_key" /\ (~Complete(ctx[t].config) \/ LoadKey(t) = NoKey)
    /\ CommandEnds(t)
    /\ probe' = IF command[t] = "doctor" THEN [probe EXCEPT ![t].verdict = "fail"] ELSE probe
    /\ UNCHANGED <<file, env, revoked, outbox, settled, setups, deaths>>

\* Fault: that auth_me answers is enough.
FlushProbeAnswered(t) ==
    /\ pc[t] = "probing"
    /\ command[t] = "flush"
    /\ ctx[t].key \notin revoked
    /\ Goto(t, "unblocking")
    /\ UNCHANGED <<file, env, revoked, ctx, todo, outbox, operator, deaths>>
\* _RuntimeFlushRunner.run: the credential, unblock_auth, one flush.
FlushProbe(t) ==
    /\ pc[t] = "probing"
    /\ command[t] = "flush"
    /\ Accepted(ctx[t])
    /\ Goto(t, "unblocking")
    /\ UNCHANGED <<file, env, revoked, ctx, todo, outbox, operator, deaths>>

\* Fault: the flush takes the rows that are pending, and unblocks none.
UnblockNothing == state
Unblocked == [o \in Op |-> IF state[o] = "blocked_auth" THEN "pending" ELSE state[o]]

FlushUnblocks(t) ==
    /\ pc[t] = "unblocking"
    /\ state' = Unblocked
    /\ todo' = [todo EXCEPT ![t] = {o \in Op : Unblocked[o] = "pending"}]
    /\ Goto(t, "draining")
    /\ UNCHANGED <<file, env, revoked, ctx, holder, origin, sentWith, operator, deaths>>

-----------------------------------------------------------------------------
(* A flush, of a session or of the operator, with the key it began with. *)

Free(o) == state[o] = "pending" /\ holder[o] = "nobody"

Take(p, o) ==
    /\ pc[p] = "draining"
    /\ o \in todo[p] /\ Free(o)
    /\ \A q \in Op : holder[q] # p
    /\ holder' = [holder EXCEPT ![o] = p]
    /\ todo' = [todo EXCEPT ![p] = @ \ {o}]
    /\ UNCHANGED <<file, env, revoked, pc, ctx, state, origin, sentWith, operator, deaths>>

Delivers(p, o) ==
    /\ holder[o] = p
    /\ Permits(ctx[p].key, origin[o])
    /\ state' = [state EXCEPT ![o] = "delivered"]
    /\ holder' = [holder EXCEPT ![o] = "nobody"]
    /\ sentWith' = [sentWith EXCEPT ![o] = ctx[p].key]
    /\ UNCHANGED <<file, env, revoked, pc, ctx, todo, origin, operator, deaths>>

\* 401 or 403: BLOCK_AUTH.
IsDenied(p, o) ==
    /\ holder[o] = p
    /\ ~Permits(ctx[p].key, origin[o])
    /\ state' = [state EXCEPT ![o] = "blocked_auth"]
    /\ holder' = [holder EXCEPT ![o] = "nobody"]
    /\ UNCHANGED <<file, env, revoked, pc, ctx, todo, origin, sentWith, operator, deaths>>

\* No answer: RETRY, by a later flush.
GoesUnanswered(p, o) ==
    /\ holder[o] = p
    /\ holder' = [holder EXCEPT ![o] = "nobody"]
    /\ UNCHANGED <<file, env, revoked, pc, ctx, todo, state, origin, sentWith, operator, deaths>>

FlushEnds(p) ==
    /\ pc[p] = "draining"
    /\ \A o \in Op : holder[o] # p /\ ~(o \in todo[p] /\ Free(o))
    /\ \/ p \in Terminal /\ CommandEnds(p) /\ UNCHANGED <<probe, settled, setups>>
       \/ /\ p \in Session
          /\ Goto(p, "safe")
          /\ todo' = [todo EXCEPT ![p] = {}]
          /\ UNCHANGED <<ctx, operator>>
    /\ UNCHANGED <<file, env, revoked, outbox, deaths>>

-----------------------------------------------------------------------------
(* The write probe of "hermes sibyl doctor --write-probe". *)

\* Every check passed and the context was read: the probe follows, if asked for.
DoctorProbe(t, write) ==
    /\ pc[t] = "probing"
    /\ command[t] = "doctor"
    /\ DoctorAccepts(ctx[t])
    /\ \/ write /\ Goto(t, "writing") /\ UNCHANGED <<ctx, todo, operator>>
       \/ /\ ~write
          /\ CommandEnds(t)
          /\ probe' = [probe EXCEPT ![t].verdict = "pass"]
          /\ UNCHANGED <<settled, setups>>
    /\ UNCHANGED <<file, env, revoked, outbox, deaths>>

DoctorEnds(t, report) ==
    /\ CommandEnds(t)
    /\ probe' = [probe EXCEPT ![t] = report]

\* remember_raw is answered with a revision ...
DoctorWrites(t) ==
    /\ pc[t] = "writing"
    /\ Permits(ctx[t].key, ctx[t].config)
    /\ probe' = [probe EXCEPT ![t] = [@ EXCEPT !.memory = "active", !.answered = TRUE]]
    /\ Goto(t, "cleaning")
    /\ UNCHANGED <<file, env, revoked, ctx, todo, outbox, command, existing, settled, setups,
                   deaths>>
\* ... or is not, or has no revision, and may or may not have taken effect.
DoctorWriteFails(t, memory) ==
    /\ pc[t] = "writing"
    /\ memory = "active" => Permits(ctx[t].key, ctx[t].config)
    /\ DoctorEnds(t, [NoProbe EXCEPT !.memory = memory, !.verdict = "fail"])
    /\ UNCHANGED <<file, env, revoked, outbox, settled, setups, deaths>>

\* apply_correction marks the memory stale ...
DoctorCleans(t) ==
    /\ pc[t] = "cleaning"
    /\ Permits(ctx[t].key, ctx[t].config)
    /\ DoctorEnds(t, [probe[t] EXCEPT !.memory = "stale", !.verdict = "pass"])
    /\ UNCHANGED <<file, env, revoked, outbox, settled, setups, deaths>>
\* Fault: a failed correction is one more failed probe.
CleanupUnnamed(t, memory) == [probe[t] EXCEPT !.memory = memory, !.verdict = "fail"]
\* ... or _WriteProbeCleanupError names it for the operator to mark.
CleanupReport(t, memory) ==
    [probe[t] EXCEPT !.memory = memory, !.verdict = "fail", !.named = TRUE]
DoctorCleanupFails(t, memory) ==
    /\ pc[t] = "cleaning"
    /\ memory = "stale" => Permits(ctx[t].key, ctx[t].config)
    /\ DoctorEnds(t, CleanupReport(t, memory))
    /\ UNCHANGED <<file, env, revoked, outbox, settled, setups, deaths>>

-----------------------------------------------------------------------------
(* What happens to processes and keys. *)

Dies(p) ==
    /\ pc[p] # "idle"
    /\ deaths < MaxDeaths
    /\ deaths' = deaths + 1
    /\ holder' = [o \in Op |-> IF holder[o] = p THEN "dead" ELSE holder[o]]
    /\ \/ p \in Terminal /\ CommandEnds(p) /\ UNCHANGED <<probe, settled, setups>>
       \/ p \in Session /\ Ends(p) /\ UNCHANGED operator
    /\ UNCHANGED <<file, env, revoked, state, origin, sentWith>>

LeaseExpires(o) ==
    /\ holder[o] = "dead"
    /\ holder' = [holder EXCEPT ![o] = "nobody"]
    /\ UNCHANGED <<file, env, revoked, pc, ctx, todo, state, origin, sentWith, operator, deaths>>

Revoke(k) ==
    /\ k \notin revoked
    /\ revoked' = revoked \cup {k}
    /\ UNCHANGED <<file, env, pc, ctx, todo, outbox, operator, deaths>>

-----------------------------------------------------------------------------
SetupStep(t) ==
    \/ SetupStart(t)
    \/ \E c \in Config \cup {NoConfig}, k \in Key \cup {NoKey} : SetupAnswer(t, c, k)
    \/ SetupSaveConfig(t)
    \/ SetupSaveKey(t)
    \/ SetupFails(t)

DoctorStep(t) ==
    \/ \E write \in BOOLEAN : DoctorProbe(t, write)
    \/ DoctorWrites(t)
    \/ \E memory \in {"none", "active"} : DoctorWriteFails(t, memory)
    \/ DoctorCleans(t)
    \/ \E memory \in {"active", "stale"} : DoctorCleanupFails(t, memory)

CommandStep(t) ==
    \/ \E cmd \in {"flush", "doctor"} : CommandStart(t, cmd)
    \/ CommandReadConfig(t)
    \/ CommandReadKey(t)
    \/ CommandFails(t)
    \/ FlushProbe(t)
    \/ FlushUnblocks(t)

SessionStep(s) ==
    \/ \E a \in Agent : SessionReadConfig(s, a)
    \/ SessionOpens(s)
    \/ SessionRefuses(s)
    \/ SessionProbe(s)
    \/ \E o \in Op : Capture(s, o)
    \/ SessionFlush(s)
    \/ SessionEnds(s)

Answered(p, o) == Delivers(p, o) \/ IsDenied(p, o)
DrainStep(p) ==
    \/ \E o \in Op : Take(p, o) \/ Answered(p, o) \/ GoesUnanswered(p, o)
    \/ FlushEnds(p)

Next ==
    \/ \E t \in Terminal : SetupStep(t) \/ CommandStep(t) \/ DoctorStep(t)
    \/ \E s \in Session : SessionStep(s)
    \/ \E p \in Process : DrainStep(p) \/ Dies(p)
    \/ \E o \in Op : LeaseExpires(o)
    \/ \E k \in Revocable : Revoke(k)

Spec == Init /\ [][Next]_vars

CommandProgress(t) ==
    \/ SetupSaveConfig(t) \/ SetupSaveKey(t) \/ SetupFails(t)
    \/ CommandReadConfig(t) \/ CommandReadKey(t) \/ CommandFails(t)
    \/ FlushProbe(t) \/ FlushUnblocks(t)
    \/ DoctorStep(t)

(* Scheduling: a command runs on, the clock advances, Sibyl answers now and    *)
(* then, and the operator goes on calling flush until the backlog is gone.     *)
Fairness ==
    /\ \A t \in Terminal :
          /\ WF_vars(CommandProgress(t))
          /\ SF_vars(CommandStart(t, "flush"))
          /\ SF_vars(FlushProbe(t))
    /\ \A p \in Process :
          /\ WF_vars(DrainStep(p))
          /\ \A o \in Op : SF_vars(Answered(p, o))
    /\ \A o \in Op : WF_vars(LeaseExpires(o))

FairSpec == Spec /\ Fairness

-----------------------------------------------------------------------------
(* Properties. *)

\* Whoever sends operations, unblocks them or writes a probe has seen the key
\* it holds accepted, for the configuration and the agent it holds, however
\* the files were torn when it read them (runtime.py:303, cli.py:516).
Gated == {"safe", "draining", "unblocking", "writing", "cleaning", "saving_config", "saving_key"}
GateHolds ==
    \A p \in Process :
        /\ pc[p] \in Gated \cup {"probing", "open", "refused"} => ctx[p].key \in Key
        /\ pc[p] \in Gated => CredentialFailures(Credential[ctx[p].key], Needed(ctx[p])) = {}

\* A claim is held by a process that is draining, and its operation is queued.
HoldersDrain ==
    \A o \in Op : holder[o] \in Process => pc[holder[o]] = "draining"

\* An operation is delivered only with a key that can write nowhere but where
\* the operation was captured for, whichever process delivers it, with whatever
\* configuration, after whatever setups (trust.py:37).
LeastPrivilege ==
    \A o \in Op :
        state[o] = "delivered" =>
            LET cred == Credential[sentWith[o]]
            IN  /\ cred.type = "api_key" /\ cred.profile = "memory_provider"
                /\ cred.projects = {origin[o].project}
                /\ cred.spaces = {origin[o].space}

\* The inductive invariant: nobody acts on a key that was not accepted, and
\* no claim outlives the flush that made it.
OperatorIInv == OperatorTypeOK /\ GateHolds /\ HoldersDrain

\* With one terminal, so that no two setups overlap:
\* after a setup that ended well, a new session of the agent it was made for
\* finds a key that is safe, unless the key comes from an environment: from its
\* own, or from setup's, which saves no key it was given that way
\* (config.py:357 "start a new session to activate").
SetupEffective ==
    \A s \in Session :
        (settled # NoSetup /\ ~settled.inherited /\ env[s] = NoKey) =>
            /\ LoadKey(s) # NoKey
            /\ CredentialFailures(Credential[LoadKey(s)],
                                  Requirement(file.config, settled.agent)) = {}

\* When doctor has ended, the diagnostic memory of its write probe is not in
\* use any more: a pass says so, and a failure names it, unless the answer to
\* the write itself was lost or had no revision (cli.py:450 "immediately marked stale").
ProbeAccounted ==
    \A t \in Terminal :
        probe[t].memory = "active" =>
            /\ probe[t].verdict # "pass"
            /\ probe[t].verdict = "fail" /\ probe[t].answered => probe[t].named

\* What an operator's flush and every session still running can deliver.
Serviceable(o) ==
    /\ \A t \in Terminal :
          LET c == [config |-> file.config, key |-> LoadKey(t), agent |-> OperatorAgent]
          IN  c.key # NoKey /\ Complete(c.config) /\ Accepted(c) /\ Permits(c.key, origin[o])
    /\ \A s \in Session : ctx[s].key = NoKey \/ Permits(ctx[s].key, origin[o])

\* Once setup has replaced a revoked key and no session works with the old one
\* any more, flush drains what was blocked (under FairSpec;
\* release_gates.py, "replacement_key_drains_backlog").
BacklogDrains ==
    \A o \in Op :
        <>[](state[o] # "none" /\ Serviceable(o)) => <>(state[o] = "delivered")
=============================================================================
