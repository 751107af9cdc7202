------------------------------ MODULE Release ------------------------------
(***************************************************************************)
(* The release gates (src/scripts/release_gates.py): one driver process    *)
(* (src/scripts/real_stack_driver.py) per scenario the caller selected and *)
(* consented to, each measuring a stack that others may restart, upgrade   *)
(* or reconfigure meanwhile, and the receipt that is made of what the      *)
(* drivers report.  A driver answers, fails or is killed by its timeout.   *)
(*                                                                         *)
(* Definitions marked "Fault" are not the code: each is what a neighbour   *)
(* would be with a plausible bug, kept to show that a property notices.    *)
(***************************************************************************)
EXTENDS Naturals, FiniteSets

CONSTANTS
    Scenario,      \* the numbers of SCENARIOS
    Stranger,      \* names of no scenario
    Gate, Check,
    GatesOf,       \* ScenarioDefinition.gates
    Required,      \* ScenarioDefinition.required_checks
    GateRequired,  \* GATE_REQUIRED_CHECKS
    Mutating,      \* the scenarios with mutates_stack
    Endpoint,      \* what a confined key may not reach
    Pinned,        \* PINNED_HERMES_VERSION
    Version,       \* what a Hermes may report
    NoName,        \* no HERMES_SIBYL_E2E_MUTATION_SCENARIO
    MaxChanges     \* BOUND: how often the stack changes

Profiled == "memory_provider_profile_enforced_server_side"
Forbidden == "all_disallowed_endpoints_return_403"

ASSUME NamesAssumption ==
    Scenario \subseteq Nat /\ Stranger \cap Scenario = {} /\ NoName \notin Scenario
ASSUME TablesAssumption ==
    /\ GatesOf \in [Scenario -> SUBSET Gate]
    /\ Required \in [Scenario -> SUBSET Check]
    /\ GateRequired \in [Gate -> SUBSET Check]
    /\ Mutating \subseteq Scenario
    /\ {Profiled, Forbidden} \subseteq Check
ASSUME VersionAssumption == Pinned \in Version /\ "none" \notin Version /\ "unknown" \notin Version
ASSUME ReleaseBounds == MaxChanges \in Nat

VARIABLES
    stack,        \* what Hermes and Sibyl are at the moment
    changes,
    missing,      \* scenarios with MISSING_HOOKS, in this build of the driver
    selected, consents,
    phase, left,  \* run_real_stack: where it is, and what it has still to run
    driver,       \* the driver process that runs
    seen,         \* what the driver of each scenario has read
    observation,  \* what it reported
    errors,       \* scenarios whose driver failed
    receipt, exit,
    touched       \* history: scenarios whose driver went to the stack

request == <<selected, consents>>
vars == <<stack, changes, missing, request, phase, left, driver, seen, observation, errors,
          receipt, exit, touched>>

-----------------------------------------------------------------------------
Name == Scenario \cup Stranger
Stack == [version : Version, active : BOOLEAN, profiled : BOOLEAN, open : SUBSET Endpoint]
Reading == [version : Version \cup {"none"}, active : BOOLEAN, profiled : BOOLEAN,
            probed : SUBSET Endpoint, open : SUBSET Endpoint]
Unread == [version |-> "none", active |-> FALSE, profiled |-> FALSE, probed |-> {}, open |-> {}]
Driver == [at : {"starting", "status", "memory", "calling", "auth", "probing"},
           scenario : Scenario, consent : Scenario \cup {NoName}]
NoDriver == [at |-> "none"]
Observation == [version : Version, claimed : BOOLEAN, reported : SUBSET Check, true : SUBSET Check]
NoObservation == [version |-> "none"]
Receipt == [passed : BOOLEAN, eligible : BOOLEAN, gates : [Gate -> BOOLEAN],
            status : [Scenario -> {"passed", "failed", "not_run"}]]
NoReceipt == [passed |-> FALSE]

ReleaseTypeOK ==
    /\ stack \in Stack /\ changes \in 0 .. MaxChanges
    /\ missing \subseteq Scenario
    /\ selected \subseteq Name /\ consents \subseteq Name
    /\ phase \in {"ready", "running", "done"}
    /\ left \subseteq Scenario
    /\ driver \in Driver \cup {NoDriver}
    /\ seen \in [Scenario -> Reading]
    /\ observation \in [Scenario -> Observation \cup {NoObservation}]
    /\ errors \subseteq Scenario
    /\ receipt \in Receipt \cup {NoReceipt}
    /\ exit \in {"none", "passed", "failed", "refused"}
    /\ touched \subseteq Scenario

\* A stack that could be released, before anything changes it.
FitStack == [version |-> Pinned, active |-> TRUE, profiled |-> TRUE, open |-> {}]

Init ==
    /\ stack = FitStack /\ changes = 0
    /\ missing \in SUBSET Scenario
    /\ selected = {} /\ consents = {}
    /\ phase = "ready"
    /\ left = {}
    /\ driver = NoDriver
    /\ seen = [s \in Scenario |-> Unread]
    /\ observation = [s \in Scenario |-> NoObservation]
    /\ errors = {}
    /\ receipt = NoReceipt
    /\ exit = "none"
    /\ touched = {}

-----------------------------------------------------------------------------
(* External: the stack, which the harness neither starts nor stops. *)

StackChanges ==
    /\ changes < MaxChanges
    /\ changes' = changes + 1
    /\ \/ \E v \in Version : stack' = [stack EXCEPT !.version = v]
       \/ stack' = [stack EXCEPT !.active = ~@]
       \/ stack' = [stack EXCEPT !.profiled = ~@]
       \/ \E e \in Endpoint : stack' = [stack EXCEPT !.open = (@ \cup {e}) \ (@ \cap {e})]
    /\ UNCHANGED <<missing, request, phase, left, driver, seen, observation, errors, receipt,
                   exit, touched>>

-----------------------------------------------------------------------------
(* run_real_stack. *)

\* Fault: who consents to one scenario consents to all.
ConsentInGeneral(sel, con) == IF con = {} THEN sel \cap Mutating ELSE {}
MissingConsent(sel, con) == (sel \cap Mutating) \ con

\* settings: StackSettings.from_environment found every value.
Acceptable(sel, con, settings) ==
    /\ settings
    /\ sel \cup con \subseteq Scenario
    /\ sel # {}
    /\ MissingConsent(sel, con) = {}

Begins(sel, con, settings) ==
    /\ phase = "ready"
    /\ selected' = sel /\ consents' = con
    /\ \/ /\ Acceptable(sel, con, settings)
          /\ phase' = "running" /\ left' = sel /\ UNCHANGED exit
       \/ /\ ~Acceptable(sel, con, settings)
          /\ phase' = "done" /\ exit' = "refused" /\ UNCHANGED left
    /\ UNCHANGED <<stack, changes, missing, driver, seen, observation, errors, receipt, touched>>

\* run_driver, for one scenario after the other, in the caller's order.
DriverStarts(s) ==
    /\ phase = "running" /\ driver = NoDriver
    /\ s \in left
    /\ left' = left \ {s}
    /\ driver' = [at |-> "starting", scenario |-> s,
                  consent |-> IF s \in Mutating THEN s ELSE NoName]
    /\ UNCHANGED <<stack, changes, missing, request, phase, seen, observation, errors, receipt,
                   exit, touched>>

\* A timeout kills it, a request fails or is redirected, it exits with 2, or
\* what it prints is no observation of its scenario.
DriverFails ==
    /\ driver # NoDriver
    /\ errors' = errors \cup {driver.scenario}
    /\ driver' = NoDriver
    /\ UNCHANGED <<stack, changes, missing, request, phase, left, seen, observation, receipt,
                   exit, touched>>

-----------------------------------------------------------------------------
(* The driver: main and PublicStackDriver.run.  Where a condition does not   *)
(* hold it raises DriverError, and DriverFails is all that can follow.       *)

At(place) == driver # NoDriver /\ driver.at = place
Reads(place, next, reading) ==
    /\ At(place)
    /\ driver' = [driver EXCEPT !.at = next]
    /\ seen' = [seen EXCEPT ![driver.scenario] = reading]
    /\ UNCHANGED <<stack, changes, missing, request, phase, left, observation, errors, receipt, exit>>
Read == seen[driver.scenario]

DriverConsents ==
    /\ driver # NoDriver => (driver.scenario \in Mutating => driver.consent = driver.scenario)
    /\ Reads("starting", "status", Unread)
    /\ touched' = touched \cup {driver.scenario}

DriverReadsStatus ==
    /\ stack.version = Pinned
    /\ Reads("status", "memory", [Read EXCEPT !.version = stack.version])
    /\ UNCHANGED touched

DriverReadsMemory ==
    /\ stack.active
    /\ Reads("memory", "calling", [Read EXCEPT !.active = TRUE])
    /\ UNCHANGED touched

\* An RPC is answered, past frames that are not for it; the answer is dropped.
DriverCalls ==
    /\ Reads("calling", "auth", Read)
    /\ UNCHANGED touched

DriverReadsAuth ==
    /\ Reads("auth", "probing", [Read EXCEPT !.profiled = stack.profiled])
    /\ UNCHANGED touched

\* One disallowed request after the other, whatever the claims say.
DriverProbes(e) ==
    /\ driver # NoDriver => driver.scenario \notin missing /\ e \notin Read.probed
    /\ Reads("probing", "probing",
             [Read EXCEPT !.probed = @ \cup {e}, !.open = @ \cup (stack.open \cap {e})])
    /\ UNCHANGED touched

\* _capability_confinement: the checks that are true.
Confinement(r) == (IF r.profiled THEN {Profiled} ELSE {})
                  \cup (IF r.open = {} THEN {Forbidden} ELSE {})

Reports(obs) ==
    /\ observation' = [observation EXCEPT ![driver.scenario] = obs]
    /\ driver' = NoDriver
    /\ UNCHANGED <<stack, changes, missing, request, phase, left, seen, errors, receipt, exit,
                   touched>>

\* _blocked_receipt: every check is false, and the version is the expected one.
DriverIsBlocked ==
    /\ At("probing")
    /\ driver.scenario \in missing
    /\ Reports([version |-> Pinned, claimed |-> FALSE, reported |-> Required[driver.scenario],
                true |-> {}])

DriverReports ==
    /\ At("probing")
    /\ driver.scenario \notin missing
    /\ Read.probed = Endpoint
    /\ Required[driver.scenario] = {Profiled, Forbidden}
    /\ Reports([version |-> Read.version, claimed |-> Confinement(Read) = {Profiled, Forbidden},
                reported |-> {Profiled, Forbidden}, true |-> Confinement(Read)])

-----------------------------------------------------------------------------
(* aggregate_receipt. *)

Observed == {s \in Scenario : observation[s] # NoObservation}
ObservedVersion ==
    LET versions == {observation[s].version : s \in Observed}
    IN  IF \E v \in versions : versions = {v} THEN CHOOSE v \in versions : TRUE ELSE "unknown"

MissingChecks(s) == Required[s] \ observation[s].reported
FailedChecks(s) == Required[s] \cap (observation[s].reported \ observation[s].true)

\* Fault: a scenario passes when everything it must report is reported.
ReportedIsPassed(s) == s \in Observed /\ MissingChecks(s) = {} /\ s \notin errors
\* _scenario_receipt.
ScenarioPassed(s) ==
    /\ s \in Observed
    /\ observation[s].claimed
    /\ MissingChecks(s) = {} /\ FailedChecks(s) = {}
    /\ s \notin errors
ScenarioStatus(s) ==
    IF ScenarioPassed(s) THEN "passed" ELSE IF s \in Observed \cup errors THEN "failed" ELSE "not_run"

Members(g) == {s \in Scenario : g \in GatesOf[s]}
\* The value the first member that requires the check has for it.
CheckHolds(g, c) ==
    LET asked == {s \in Members(g) : c \in Required[s]}
    IN  \E s \in asked \cap Observed :
            c \in observation[s].true /\ \A t \in asked : s <= t
GatePassed(g) ==
    /\ \A s \in Members(g) : ScenarioPassed(s)
    /\ \A c \in GateRequired[g] : CheckHolds(g, c)

Eligible == ObservedVersion = Pinned
ReceiptPassed ==
    /\ Eligible
    /\ \A s \in Scenario : ScenarioPassed(s)
    /\ \A g \in Gate : GatePassed(g)

\* The receipt is written and main returns 0 or 1.
Ends ==
    /\ phase = "running" /\ left = {} /\ driver = NoDriver
    /\ phase' = "done"
    /\ receipt' = [passed |-> ReceiptPassed, eligible |-> Eligible,
                   gates |-> [g \in Gate |-> GatePassed(g)],
                   status |-> [s \in Scenario |-> ScenarioStatus(s)]]
    /\ exit' = IF ReceiptPassed THEN "passed" ELSE "failed"
    /\ UNCHANGED <<stack, changes, missing, request, left, driver, seen, observation, errors,
                   touched>>

-----------------------------------------------------------------------------
Runs ==
    \/ \E s \in Scenario : DriverStarts(s)
    \/ DriverFails
    \/ DriverConsents
    \/ DriverReadsStatus
    \/ DriverReadsMemory
    \/ DriverCalls
    \/ DriverReadsAuth
    \/ \E e \in Endpoint : DriverProbes(e)
    \/ DriverIsBlocked
    \/ DriverReports
    \/ Ends

Next ==
    \/ StackChanges
    \/ \E sel \in SUBSET Name, con \in SUBSET Name, settings \in BOOLEAN :
          Begins(sel, con, settings)
    \/ Runs

Spec == Init /\ [][Next]_vars

-----------------------------------------------------------------------------
(* Properties. *)

\* The consent is for what is selected and mutates, before anything runs.
ConsentGiven ==
    /\ phase = "ready" => touched = {}
    /\ exit # "none" => phase = "done"
    /\ phase = "running" => MissingConsent(selected, consents) = {} /\ left \subseteq selected
    /\ driver # NoDriver => phase = "running" /\ driver.scenario \in selected
    /\ driver = NoDriver \/ driver.at = "starting" \/ driver.scenario \in touched

\* No driver goes to the stack for a scenario that was not selected, or that
\* mutates it without the caller's consent to that very scenario; a request
\* that is refused reaches no driver at all (tests/e2e/README.md:44).
NoConsentNoTouch ==
    /\ touched \subseteq selected
    /\ touched \cap Mutating \subseteq consents
    /\ exit = "refused" => touched = {}

\* What the driver has read by the place it is at, and what it reported of it.
Measured(s) ==
    {c \in {Profiled, Forbidden} :
        \/ c = Profiled /\ seen[s].profiled
        \/ c = Forbidden /\ seen[s].probed = Endpoint /\ seen[s].open = {}}
Sound(s) == seen[s].version = Pinned /\ seen[s].active
ReportsAreReadings ==
    /\ driver # NoDriver =>
          /\ driver.scenario \notin left /\ observation[driver.scenario] = NoObservation
          /\ driver.at \in {"memory", "calling", "auth", "probing"} => Read.version = Pinned
          /\ driver.at \in {"calling", "auth", "probing"} => Read.active
    /\ \A s \in Scenario :
          /\ s \in left \/ phase = "ready" => observation[s] = NoObservation
          /\ observation[s] # NoObservation =>
                /\ Sound(s) /\ s \in touched
                /\ observation[s].true \subseteq Measured(s)

\* The inductive invariant: consent before contact, and reports from readings.
ReleaseIInv == ReleaseTypeOK /\ ConsentGiven /\ NoConsentNoTouch /\ ReportsAreReadings

\* The command ends with 0 only after the driver of every scenario, each with
\* consent where it mutates, found the pinned Hermes with Sibyl active and read
\* from the stack, endpoint by endpoint, that each of its required checks
\* holds, and only if every check a gate requires is among those of a scenario
\* of that gate (tests/e2e/README.md:33).
PassedIsProven ==
    exit = "passed" =>
        /\ Scenario \subseteq touched /\ Mutating \subseteq consents
        /\ \A s \in Scenario : Sound(s) /\ Required[s] \subseteq Measured(s)
        /\ \A g \in Gate : \A c \in GateRequired[g] : \E s \in Members(g) : c \in Required[s]
=============================================================================
