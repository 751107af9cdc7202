---------------------------- MODULE ReleaseProofs ----------------------------
(***************************************************************************)
(* Theorems about the release gates, for any scenarios, gates, checks,     *)
(* endpoints, versions and changes of the stack: nothing is touched        *)
(* without consent, and a release that passes was measured.                *)
(***************************************************************************)
EXTENDS Release, TLAPS

USE DEF request, vars

-----------------------------------------------------------------------------
(* What is common to the steps of the driver. *)

LEMMA NoDriverFacts ==
  ASSUME ReleaseTypeOK, driver # NoDriver
  PROVE  driver \in Driver /\ driver.scenario \in Scenario
  BY DEF ReleaseTypeOK, Driver

\* A read moves the driver on and leaves what it read; nothing else changes.
LEMMA ReadsFacts ==
  ASSUME ReleaseTypeOK, NEW place, NEW next \in {"status", "memory", "calling", "auth", "probing"},
         NEW reading \in Reading, Reads(place, next, reading)
  PROVE  /\ driver # NoDriver /\ driver.at = place /\ driver.scenario \in Scenario
         /\ driver' \in Driver /\ driver' # NoDriver
         /\ driver'.at = next /\ driver'.scenario = driver.scenario
         /\ seen' \in [Scenario -> Reading] /\ seen'[driver.scenario] = reading
         /\ \A s \in Scenario : s # driver.scenario => seen'[s] = seen[s]
         /\ UNCHANGED <<stack, changes, missing, selected, consents, phase, left, observation,
                        errors, receipt, exit>>
  <1>1. driver \in Driver /\ driver.scenario \in Scenario /\ driver.at = place
    BY NoDriverFacts DEF Reads, At
  <1>2. driver' = [driver EXCEPT !.at = next] /\ seen' = [seen EXCEPT ![driver.scenario] = reading]
    BY DEF Reads
  <1>3. driver' \in Driver /\ driver'.at = next /\ driver'.scenario = driver.scenario
    BY <1>1, <1>2 DEF Driver
  <1>4. driver' # NoDriver
    BY <1>3 DEF NoDriver
  <1> QED
    BY <1>1, <1>2, <1>3, <1>4 DEF Reads, At, ReleaseTypeOK

LEMMA ReadingFacts ==
  ASSUME ReleaseTypeOK, driver # NoDriver
  PROVE  /\ Read \in Reading /\ Unread \in Reading
         /\ [Read EXCEPT !.version = stack.version] \in Reading
         /\ [Read EXCEPT !.active = TRUE] \in Reading
         /\ [Read EXCEPT !.profiled = stack.profiled] \in Reading
         /\ \A e \in Endpoint :
               [Read EXCEPT !.probed = @ \cup {e}, !.open = @ \cup (stack.open \cap {e})] \in Reading
  <1>1. Read \in Reading
    BY NoDriverFacts DEF Read, ReleaseTypeOK
  <1> QED
    BY <1>1 DEF ReleaseTypeOK, Stack, Reading, Unread

LEMMA ReportsFacts ==
  ASSUME ReleaseTypeOK, NEW obs \in Observation, driver # NoDriver, Reports(obs)
  PROVE  /\ driver' = NoDriver
         /\ observation' \in [Scenario -> Observation \cup {NoObservation}]
         /\ observation'[driver.scenario] = obs
         /\ \A s \in Scenario : s # driver.scenario => observation'[s] = observation[s]
         /\ UNCHANGED <<stack, changes, missing, selected, consents, phase, left, seen, errors,
                        receipt, exit, touched>>
  BY NoDriverFacts DEF Reports, ReleaseTypeOK

\* The steps of the driver that read.
DriverReads ==
    \/ DriverConsents \/ DriverReadsStatus \/ DriverReadsMemory \/ DriverCalls \/ DriverReadsAuth
    \/ \E e \in Endpoint : DriverProbes(e)

\* What the two steps of the driver that report have in common.
LEMMA DriverReportsFacts ==
  ASSUME ReleaseTypeOK, DriverIsBlocked \/ DriverReports, Read.version = Pinned
  PROVE  /\ driver # NoDriver /\ driver.at = "probing"
         /\ \E obs \in Observation :
               /\ Reports(obs)
               /\ obs.true # {} => Read.probed = Endpoint /\ obs.true = Confinement(Read)
  <1>1. driver # NoDriver /\ driver.at = "probing" /\ driver.scenario \in Scenario
    BY NoDriverFacts DEF DriverIsBlocked, DriverReports, At
  <1>2. CASE DriverIsBlocked
    <2> DEFINE obs == [version |-> Pinned, claimed |-> FALSE,
                       reported |-> Required[driver.scenario], true |-> {}]
    <2>1. obs \in Observation
      BY <1>1, TablesAssumption, VersionAssumption DEF Observation
    <2> QED
      BY <1>1, <1>2, <2>1 DEF DriverIsBlocked
  <1>3. CASE DriverReports
    <2> DEFINE obs == [version |-> Read.version, claimed |-> Confinement(Read) = {Profiled, Forbidden},
                       reported |-> {Profiled, Forbidden}, true |-> Confinement(Read)]
    <2>1. Confinement(Read) \subseteq Check
      BY TablesAssumption DEF Confinement
    <2>2. (Confinement(Read) = {Profiled, Forbidden}) \in BOOLEAN
      OBVIOUS
    <2>3. obs \in Observation
      BY <2>1, <2>2, TablesAssumption, VersionAssumption DEF Observation
    <2>4. Reports(obs) /\ Read.probed = Endpoint
      BY <1>3 DEF DriverReports
    <2> QED
      BY <1>1, <2>3, <2>4
  <1> QED
    BY <1>2, <1>3

-----------------------------------------------------------------------------
(* The inductive invariant. *)

LEMMA ReleaseTypeInit == Init => ReleaseTypeOK
  BY VersionAssumption, ReleaseBounds
  DEF Init, ReleaseTypeOK, FitStack, Stack, Reading, Unread, NoReceipt

LEMMA ReleaseInit == Init => ReleaseIInv
  <1>1. Init => ConsentGiven /\ NoConsentNoTouch /\ ReportsAreReadings
    BY DEF Init, ConsentGiven, NoConsentNoTouch, ReportsAreReadings, NoDriver
  <1> QED
    BY <1>1, ReleaseTypeInit DEF ReleaseIInv

LEMMA BeginsStep ==
  ASSUME ReleaseIInv, NEW sel \in SUBSET Name, NEW con \in SUBSET Name,
         NEW settings \in BOOLEAN, Begins(sel, con, settings)
  PROVE  ReleaseIInv'
  <1>1. /\ phase = "ready" /\ touched = {} /\ driver = NoDriver
        /\ \A s \in Scenario : observation[s] = NoObservation
    BY DEF ReleaseIInv, ConsentGiven, ReportsAreReadings, Begins
  <1>2. /\ selected' = sel /\ consents' = con
        /\ UNCHANGED <<stack, changes, missing, driver, seen, observation, errors, receipt, touched>>
    BY DEF Begins
  <1>3. \/ Acceptable(sel, con, settings) /\ phase' = "running" /\ left' = sel /\ exit' = exit
        \/ phase' = "done" /\ exit' = "refused" /\ left' = left
    BY DEF Begins
  <1>4. Acceptable(sel, con, settings) => sel \subseteq Scenario /\ MissingConsent(sel, con) = {}
    BY DEF Acceptable
  <1>5. ReleaseTypeOK'
    BY <1>2, <1>3, <1>4 DEF ReleaseIInv, ReleaseTypeOK
  <1>6. ConsentGiven'
    BY <1>1, <1>2, <1>3, <1>4 DEF ReleaseIInv, ConsentGiven, MissingConsent
  <1>7. NoConsentNoTouch'
    BY <1>1, <1>2 DEF NoConsentNoTouch
  <1>8. ReportsAreReadings'
    BY <1>1, <1>2 DEF ReportsAreReadings
  <1> QED
    BY <1>5, <1>6, <1>7, <1>8 DEF ReleaseIInv

LEMMA DriverStartsStep ==
  ASSUME ReleaseIInv, NEW s \in Scenario, DriverStarts(s)
  PROVE  ReleaseIInv'
  <1>1. /\ phase = "running" /\ driver = NoDriver /\ s \in left /\ left' = left \ {s}
        /\ driver' = [at |-> "starting", scenario |-> s,
                      consent |-> IF s \in Mutating THEN s ELSE NoName]
        /\ UNCHANGED <<stack, changes, missing, selected, consents, phase, seen, observation,
                       errors, receipt, exit, touched>>
    BY DEF DriverStarts
  <1>2. driver' \in Driver /\ driver'.at = "starting" /\ driver'.scenario = s
    BY <1>1 DEF Driver
  <1>3. ReleaseTypeOK'
    BY <1>1, <1>2 DEF ReleaseIInv, ReleaseTypeOK
  <1>4. ConsentGiven'
    BY <1>1, <1>2 DEF ReleaseIInv, ConsentGiven, MissingConsent
  <1>5. NoConsentNoTouch'
    BY <1>1 DEF ReleaseIInv, NoConsentNoTouch
  <1>6. ReportsAreReadings'
    <2> USE DEF ReleaseIInv, ReportsAreReadings, Sound, Measured
    <2>1. (driver # NoDriver =>
              /\ driver.scenario \notin left /\ observation[driver.scenario] = NoObservation
              /\ driver.at \in {"memory", "calling", "auth", "probing"} => Read.version = Pinned
              /\ driver.at \in {"calling", "auth", "probing"} => Read.active)'
      BY <1>1, <1>2
    <2> QED
      BY <1>1, <2>1
  <1> QED
    BY <1>3, <1>4, <1>5, <1>6 DEF ReleaseIInv

LEMMA DriverFailsStep ==
  ASSUME ReleaseIInv, DriverFails
  PROVE  ReleaseIInv'
  <1>1. /\ driver # NoDriver /\ errors' = errors \cup {driver.scenario} /\ driver' = NoDriver
        /\ UNCHANGED <<stack, changes, missing, selected, consents, phase, left, seen,
                       observation, receipt, exit, touched>>
    BY DEF DriverFails
  <1>2. ReleaseTypeOK'
    BY <1>1, NoDriverFacts DEF ReleaseIInv, ReleaseTypeOK
  <1> QED
    BY <1>1, <1>2 DEF ReleaseIInv, ConsentGiven, NoConsentNoTouch, ReportsAreReadings, Sound,
      Measured, MissingConsent

\* A read by the driver keeps the invariant when what it read fits the place
\* it moves on to, and when the driver was allowed to touch the stack.
LEMMA ReadsStep ==
  ASSUME ReleaseIInv, NEW place, NEW next \in {"status", "memory", "calling", "auth", "probing"},
         NEW reading \in Reading, Reads(place, next, reading),
         next \in {"memory", "calling", "auth", "probing"} => reading.version = Pinned,
         next \in {"calling", "auth", "probing"} => reading.active,
         \/ touched' = touched /\ place # "starting"
         \/ /\ touched' = touched \cup {driver.scenario}
            /\ driver.scenario \in Mutating => driver.scenario \in consents
  PROVE  ReleaseIInv'
  <1> DEFINE d == driver.scenario
  <1>1. /\ driver # NoDriver /\ driver.at = place /\ d \in Scenario
        /\ driver' \in Driver /\ driver' # NoDriver
        /\ driver'.at = next /\ driver'.scenario = d
        /\ seen' \in [Scenario -> Reading] /\ seen'[d] = reading
        /\ \A s \in Scenario : s # d => seen'[s] = seen[s]
        /\ UNCHANGED <<stack, changes, missing, selected, consents, phase, left, observation,
                       errors, receipt, exit>>
    BY ReadsFacts DEF ReleaseIInv
  <1>2. /\ phase = "running" /\ d \in selected /\ d \notin left
        /\ place = "starting" \/ d \in touched
    BY <1>1 DEF ReleaseIInv, ConsentGiven, ReportsAreReadings
  <1>3. ReleaseTypeOK'
    BY <1>1 DEF ReleaseIInv, ReleaseTypeOK
  <1>4. ConsentGiven'
    BY <1>1, <1>2 DEF ReleaseIInv, ConsentGiven, MissingConsent
  <1>5. NoConsentNoTouch'
    BY <1>1, <1>2 DEF ReleaseIInv, NoConsentNoTouch, ConsentGiven, ReleaseTypeOK
  <1>6. ReportsAreReadings'
    <2>1. observation[d] = NoObservation /\ Read' = reading
      BY <1>1 DEF ReleaseIInv, ReportsAreReadings, Read
    <2>2. (driver # NoDriver =>
              /\ driver.scenario \notin left /\ observation[driver.scenario] = NoObservation
              /\ driver.at \in {"memory", "calling", "auth", "probing"} => Read.version = Pinned
              /\ driver.at \in {"calling", "auth", "probing"} => Read.active)'
      BY <1>1, <1>2, <2>1
    <2>3. ASSUME NEW s \in Scenario PROVE
              /\ s \in left' \/ phase' = "ready" => observation'[s] = NoObservation
              /\ observation'[s] # NoObservation =>
                    Sound(s)' /\ s \in touched' /\ observation'[s].true \subseteq Measured(s)'
      <3>1. CASE s = d
        BY <1>1, <2>1, <3>1
      <3>2. CASE s # d
        BY <1>1, <3>2 DEF ReleaseIInv, ReportsAreReadings, Sound, Measured
      <3> QED
        BY <3>1, <3>2
    <2> QED
      BY <2>2, <2>3 DEF ReportsAreReadings
  <1> QED
    BY <1>3, <1>4, <1>5, <1>6 DEF ReleaseIInv

LEMMA DriverReadsStep ==
  ASSUME ReleaseIInv, DriverReads
  PROVE  ReleaseIInv'
  <1>0. /\ ReleaseTypeOK /\ driver # NoDriver
    BY DEF ReleaseIInv, DriverReads, DriverConsents, DriverReadsStatus, DriverReadsMemory,
      DriverCalls, DriverReadsAuth, DriverProbes, Reads, At
  <1>1. CASE DriverConsents
    <2>1. driver.scenario \in Mutating => driver.scenario \in consents
      BY <1>0 DEF ReleaseIInv, ConsentGiven, MissingConsent
    <2>2. Reads("starting", "status", Unread) /\ touched' = touched \cup {driver.scenario}
      BY <1>1 DEF DriverConsents
    <2> QED
      BY <1>0, <2>1, <2>2, ReadsStep, ReadingFacts
  <1>2. CASE DriverReadsStatus
    <2> DEFINE r == [Read EXCEPT !.version = stack.version]
    <2>1. Reads("status", "memory", r) /\ touched' = touched /\ stack.version = Pinned
      BY <1>2 DEF DriverReadsStatus
    <2>2. r \in Reading /\ r.version = Pinned
      BY <1>0, <2>1, ReadingFacts DEF Reading
    <2> HIDE DEF r
    <2> QED
      BY <2>1, <2>2, ReadsStep
  <1>3. CASE DriverReadsMemory
    <2> DEFINE r == [Read EXCEPT !.active = TRUE]
    <2>1. Reads("memory", "calling", r) /\ touched' = touched
      BY <1>3 DEF DriverReadsMemory
    <2>2. Read.version = Pinned
      BY <1>0, <2>1 DEF ReleaseIInv, ReportsAreReadings, Reads, At
    <2>3. r \in Reading /\ r.version = Pinned /\ r.active
      BY <1>0, <2>2, ReadingFacts DEF Reading
    <2> HIDE DEF r
    <2> QED
      BY <2>1, <2>3, ReadsStep
  <1>4. CASE DriverReadsAuth
    <2> DEFINE r == [Read EXCEPT !.profiled = stack.profiled]
    <2>1. Reads("auth", "probing", r) /\ touched' = touched
      BY <1>4 DEF DriverReadsAuth
    <2>2. Read.version = Pinned /\ Read.active
      BY <1>0, <2>1 DEF ReleaseIInv, ReportsAreReadings, Reads, At
    <2>3. r \in Reading /\ r.version = Pinned /\ r.active
      BY <1>0, <2>2, ReadingFacts DEF Reading
    <2> HIDE DEF r
    <2> QED
      BY <2>1, <2>3, ReadsStep
  <1>5. CASE DriverCalls
    <2>1. Reads("calling", "auth", Read) /\ touched' = touched
      BY <1>5 DEF DriverCalls
    <2>2. Read \in Reading /\ Read.version = Pinned /\ Read.active
      BY <1>0, <2>1, ReadingFacts DEF ReleaseIInv, ReportsAreReadings, Reads, At
    <2> HIDE DEF Read
    <2> QED
      BY <2>1, <2>2, ReadsStep
  <1>6. ASSUME NEW e \in Endpoint, DriverProbes(e) PROVE ReleaseIInv'
    <2> DEFINE r == [Read EXCEPT !.probed = @ \cup {e}, !.open = @ \cup (stack.open \cap {e})]
    <2>1. Reads("probing", "probing", r) /\ touched' = touched
      BY <1>6 DEF DriverProbes
    <2>2. Read.version = Pinned /\ Read.active
      BY <1>0, <2>1 DEF ReleaseIInv, ReportsAreReadings, Reads, At
    <2>3. r \in Reading
      BY <1>0, ReadingFacts
    <2>4. r.version = Pinned /\ r.active
      BY <1>0, <2>2, ReadingFacts DEF Reading
    <2> HIDE DEF r
    <2> QED
      BY <2>1, <2>3, <2>4, ReadsStep
  <1> QED
    BY <1>1, <1>2, <1>3, <1>4, <1>5, <1>6 DEF DriverReads

LEMMA DriverReportsStep ==
  ASSUME ReleaseIInv, DriverIsBlocked \/ DriverReports
  PROVE  ReleaseIInv'
  <1> DEFINE d == driver.scenario
  <1>1. ReleaseTypeOK /\ driver # NoDriver /\ driver.at = "probing" /\ d \in Scenario
    BY NoDriverFacts DEF ReleaseIInv, DriverIsBlocked, DriverReports, At
  <1>2. /\ Read.version = Pinned /\ Read.active /\ phase = "running" /\ d \in touched
        /\ d \notin left
    BY <1>1 DEF ReleaseIInv, ConsentGiven, ReportsAreReadings
  <1>3. PICK obs \in Observation :
               /\ Reports(obs)
               /\ obs.true # {} => Read.probed = Endpoint /\ obs.true = Confinement(Read)
    BY <1>1, <1>2, DriverReportsFacts
  <1>4. /\ driver' = NoDriver
        /\ observation' \in [Scenario -> Observation \cup {NoObservation}]
        /\ observation'[d] = obs
        /\ \A s \in Scenario : s # d => observation'[s] = observation[s]
        /\ UNCHANGED <<stack, changes, missing, selected, consents, phase, left, seen, errors,
                       receipt, exit, touched>>
    BY <1>1, <1>3, ReportsFacts
  <1>5. ReleaseTypeOK'
    BY <1>1, <1>4 DEF ReleaseTypeOK
  <1>6. ConsentGiven' /\ NoConsentNoTouch'
    BY <1>4 DEF ReleaseIInv, ConsentGiven, NoConsentNoTouch, MissingConsent
  <1>7. obs.true \subseteq Measured(d) /\ Sound(d)
    BY <1>2, <1>3 DEF Measured, Sound, Confinement, Read
  <1>8. ASSUME NEW s \in Scenario PROVE
            /\ s \in left' \/ phase' = "ready" => observation'[s] = NoObservation
            /\ observation'[s] # NoObservation =>
                  Sound(s)' /\ s \in touched' /\ observation'[s].true \subseteq Measured(s)'
    <2>1. CASE s = d
      BY <1>2, <1>4, <1>7, <2>1 DEF Sound, Measured
    <2>2. CASE s # d
      BY <1>4, <2>2 DEF ReleaseIInv, ReportsAreReadings, Sound, Measured
    <2> QED
      BY <2>1, <2>2
  <1>9. ReportsAreReadings'
    BY <1>4, <1>8 DEF ReportsAreReadings
  <1> QED
    BY <1>5, <1>6, <1>9 DEF ReleaseIInv

LEMMA EndsStep ==
  ASSUME ReleaseIInv, Ends
  PROVE  ReleaseIInv'
  <1>1. /\ phase = "running" /\ left = {} /\ driver = NoDriver /\ phase' = "done"
        /\ receipt' = [passed |-> ReceiptPassed, eligible |-> Eligible,
                       gates |-> [g \in Gate |-> GatePassed(g)],
                       status |-> [s \in Scenario |-> ScenarioStatus(s)]]
        /\ exit' \in {"passed", "failed"}
        /\ UNCHANGED <<stack, changes, missing, selected, consents, left, driver, seen,
                       observation, errors, touched>>
    BY DEF Ends
  <1>2. receipt' \in Receipt
    <2>1. \A g \in Gate : GatePassed(g) \in BOOLEAN
      BY DEF GatePassed
    <2>2. \A s \in Scenario : ScenarioStatus(s) \in {"passed", "failed", "not_run"}
      BY DEF ScenarioStatus
    <2>3. ReceiptPassed \in BOOLEAN /\ Eligible \in BOOLEAN
      BY DEF ReceiptPassed, Eligible
    <2> QED
      BY <1>1, <2>1, <2>2, <2>3 DEF Receipt
  <1>3. ReleaseTypeOK'
    BY <1>1, <1>2 DEF ReleaseIInv, ReleaseTypeOK
  <1> QED
    BY <1>1, <1>3 DEF ReleaseIInv, ConsentGiven, NoConsentNoTouch, ReportsAreReadings, Sound,
      Measured

LEMMA StackChangesStep ==
  ASSUME ReleaseIInv, StackChanges
  PROVE  ReleaseIInv'
  <1>1. stack' \in Stack
    <2>1. stack \in Stack
      BY DEF ReleaseIInv, ReleaseTypeOK
    <2>2. \A e \in Endpoint :
             [stack EXCEPT !.open = (@ \cup {e}) \ (@ \cap {e})] \in Stack
      BY <2>1 DEF Stack
    <2>3. /\ \A v \in Version : [stack EXCEPT !.version = v] \in Stack
          /\ [stack EXCEPT !.active = ~@] \in Stack /\ [stack EXCEPT !.profiled = ~@] \in Stack
      BY <2>1 DEF Stack
    <2> QED
      BY <2>2, <2>3 DEF StackChanges
  <1>2. /\ changes' \in 0 .. MaxChanges
        /\ UNCHANGED <<missing, selected, consents, phase, left, driver, seen, observation, errors,
                       receipt, exit, touched>>
    BY ReleaseBounds DEF StackChanges, ReleaseIInv, ReleaseTypeOK
  <1> QED
    BY <1>1, <1>2 DEF ReleaseIInv, ReleaseTypeOK, ConsentGiven, NoConsentNoTouch,
      ReportsAreReadings, Sound, Measured, Read, MissingConsent

LEMMA ReleaseStep == ReleaseIInv /\ [Next]_vars => ReleaseIInv'
  <1> SUFFICES ASSUME ReleaseIInv, [Next]_vars PROVE ReleaseIInv'
    OBVIOUS
  <1>1. CASE Runs
    BY <1>1, DriverStartsStep, DriverFailsStep, DriverReadsStep, DriverReportsStep, EndsStep
    DEF Runs, DriverReads
  <1>2. CASE UNCHANGED vars
    BY <1>2 DEF ReleaseIInv, ReleaseTypeOK, ConsentGiven, NoConsentNoTouch, ReportsAreReadings,
      Sound, Measured, Read, MissingConsent
  <1> QED
    BY <1>1, <1>2, StackChangesStep, BeginsStep DEF Next

\* In every run of the release gates no driver goes to the stack for a scenario
\* that was not selected or that mutates it without consent, and a report says
\* only what its driver read (release_gates.py:528-550).
THEOREM ReleaseInductive == Spec => []ReleaseIInv
  BY ReleaseInit, ReleaseStep, PTL DEF Spec

-----------------------------------------------------------------------------
(* What a pass means. *)

\* A receipt that passes rests on readings of every scenario.
LEMMA PassedReceipt ==
  ASSUME ReleaseIInv, ReceiptPassed, MissingConsent(selected, consents) = {}
  PROVE  /\ Scenario \subseteq touched /\ Mutating \subseteq consents
         /\ \A s \in Scenario : Sound(s) /\ Required[s] \subseteq Measured(s)
         /\ \A g \in Gate : \A c \in GateRequired[g] : \E s \in Members(g) : c \in Required[s]
  <1>1. \A s \in Scenario : ScenarioPassed(s)
    BY DEF ReceiptPassed
  <1>2. ASSUME NEW s \in Scenario
        PROVE  s \in touched /\ Sound(s) /\ Required[s] \subseteq Measured(s)
    <2>1. /\ observation[s] # NoObservation
          /\ Required[s] \subseteq observation[s].reported
          /\ Required[s] \cap (observation[s].reported \ observation[s].true) = {}
      BY <1>1 DEF ScenarioPassed, Observed, MissingChecks, FailedChecks
    <2>2. Required[s] \subseteq observation[s].true
      BY <2>1
    <2> QED
      BY <2>1, <2>2 DEF ReleaseIInv, ReportsAreReadings
  <1>3. Mutating \subseteq consents
    BY <1>2, TablesAssumption DEF ReleaseIInv, NoConsentNoTouch
  <1>4. ASSUME NEW g \in Gate, NEW c \in GateRequired[g]
        PROVE  \E s \in Members(g) : c \in Required[s]
    BY DEF ReceiptPassed, GatePassed, CheckHolds
  <1> QED
    BY <1>2, <1>3, <1>4

LEMMA PassedStep == ReleaseIInv /\ PassedIsProven /\ [Next]_vars => PassedIsProven'
  <1> SUFFICES ASSUME ReleaseIInv, PassedIsProven, [Next]_vars, exit' = "passed"
               PROVE  PassedIsProven'
    BY DEF PassedIsProven
  <1>1. CASE Ends
    <2>1. ReceiptPassed /\ UNCHANGED <<touched, consents, seen>>
      BY <1>1 DEF Ends
    <2>2. MissingConsent(selected, consents) = {}
      BY <1>1 DEF Ends, ReleaseIInv, ConsentGiven
    <2> QED
      BY <2>1, <2>2, PassedReceipt DEF PassedIsProven, Sound, Measured
  <1>2. CASE ~Ends
    <2>1. exit' = exit
      BY <1>2 DEF Next, Runs, StackChanges, Begins, DriverStarts, DriverFails, DriverConsents,
        DriverReadsStatus, DriverReadsMemory, DriverCalls, DriverReadsAuth, DriverProbes, DriverIsBlocked,
        DriverReports, Reads, Reports
    <2>2. phase = "done" /\ driver = NoDriver
      BY <2>1 DEF ReleaseIInv, ConsentGiven
    <2>3. UNCHANGED <<touched, consents, seen>>
      BY <1>2, <2>2 DEF Next, Runs, StackChanges, Begins, DriverStarts, DriverFails,
        DriverConsents, DriverReadsStatus, DriverReadsMemory, DriverCalls, DriverReadsAuth, DriverProbes,
        DriverIsBlocked, DriverReports, Reads, Reports, At
    <2> QED
      BY <2>1, <2>3 DEF PassedIsProven, Sound, Measured
  <1> QED
    BY <1>1, <1>2

\* A release passes only if the driver of every scenario found the pinned
\* Hermes with Sibyl active, had consent where it mutates, and read from the
\* stack that each of its required checks holds (tests/e2e/README.md:33).
THEOREM PassedHolds == Spec => []PassedIsProven
  <1>1. Init => PassedIsProven
    BY DEF Init, PassedIsProven
  <1> QED
    BY <1>1, ReleaseInductive, PassedStep, PTL DEF Spec
=============================================================================
