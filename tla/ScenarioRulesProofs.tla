------------------------ MODULE ScenarioRulesProofs ------------------------
(***************************************************************************)
(* Theorems about ScenarioRules, for whatever numbers a scenario may give  *)
(* and whatever the limits of timers and floats are.  The inductive        *)
(* invariant says of each section that has been read what was checked of   *)
(* it, and that it has been kept.                                          *)
(***************************************************************************)
EXTENDS ScenarioRules, TLAPS

Stages ==
    {"system", "experiment", "fault", "watchdog", "expect", "expectFault", "expectWatchdog",
     "expectRecovery", "expectRobot", "compare", "accepted", "rejected"}

IsTime(v) == IsPositive(v) /\ v \in Int

\* Of the sections before the expectations.
SystemKept ==
    IsPositive(scenario.system.period) /\ IsNumber(scenario.system.velocity)

ExperimentKept ==
    /\ IsNonnegative(scenario.experiment.seed)
    /\ IsTime(scenario.experiment.readiness) /\ IsTime(scenario.experiment.baseline)
    /\ IsTime(scenario.experiment.observation)

FaultKept ==
    /\ scenario.fault.type \in FaultTypes
    /\ ValidParameters(scenario.fault.type, scenario.fault.parameters)
    /\ IF scenario.fault.type = "none"
       THEN scenario.fault.duration = 0
       ELSE IsTime(scenario.fault.duration)

WatchdogKept ==
    /\ IsPositive(scenario.watchdog.maxAge) /\ IsPositive(scenario.watchdog.period)
    /\ IsPositive(scenario.watchdog.window) /\ IsProbability(scenario.watchdog.maxLoss)
    /\ IsPositive(scenario.watchdog.checkPeriod)

\* Of the expectations of a fault scenario, read in this order.
FaultExpected ==
    /\ stage \in {"expectWatchdog", "expectRecovery", "expectRobot", "compare", "accepted"}
    /\ ~IsHealthyControl
    => scenario.expectFault # Absent /\ IsTime(scenario.expectFault["within"])
WatchdogExpected ==
    /\ stage \in {"expectRecovery", "expectRobot", "compare", "accepted"}
    /\ ~IsHealthyControl
    => scenario.expectWatchdog # Absent /\ IsTime(scenario.expectWatchdog["within"])
RecoveryExpected ==
    /\ stage \in {"expectRobot", "compare", "accepted"}
    /\ ~IsHealthyControl
    => scenario.expectRecovery # Absent

\* Of the expectation a healthy control may have too.
RobotKept ==
    scenario.expectRobot # Absent =>
        IsTime(scenario.expectRobot["within"]) /\ IsTime(scenario.expectRobot["hold"])

IInv ==
    /\ stage \in Stages
    /\ scenario = [s \in Sections |-> scenario[s]]
    /\ stage # "rejected" =>
        /\ stage # "system" => SystemKept
        /\ stage \notin {"system", "experiment"} => ExperimentKept
        /\ stage \notin {"system", "experiment", "fault"} => FaultKept
        /\ stage \notin {"system", "experiment", "fault", "watchdog"} =>
                WatchdogKept
        /\ FaultExpected /\ WatchdogExpected /\ RecoveryExpected /\ RobotKept
    /\ stage = "accepted" => \A d \in Deadlines : d <= scenario.experiment.observation

LEMMA InitEstablishes == Init => IInv
BY DEF Init, IInv, Stages, Blank, Sections, FaultExpected, WatchdogExpected,
       RecoveryExpected, RobotKept

\* Keeping one section leaves the others as they were.
LEMMA KeepKeeps ==
    ASSUME IInv, NEW valid, NEW section \in Sections, NEW value, NEW following,
           Keep(valid, section, value, following)
    PROVE  \/ stage' = "rejected" /\ scenario' = [s \in Sections |-> scenario'[s]]
           \/ /\ valid /\ stage' = following
              /\ scenario' = [s \in Sections |-> scenario'[s]]
              /\ scenario'[section] = value
              /\ \A s \in Sections \ {section} : scenario'[s] = scenario[s]
<1>1. scenario = [s \in Sections |-> scenario[s]]
  BY DEF IInv
<1>2. CASE valid
  <2>1. stage' = following /\ scenario' = [scenario EXCEPT ![section] = value]
    BY <1>2 DEF Keep
  <2> QED
    BY <1>1, <1>2, <2>1
<1>3. CASE ~valid
  BY <1>3 DEF Keep, Reject, Blank
<1> QED
  BY <1>2, <1>3

LEMMA RejectedKeeps ==
    ASSUME stage' = "rejected", scenario' = [s \in Sections |-> scenario'[s]]
    PROVE  IInv'
BY DEF IInv, Stages

LEMMA PositiveIsTime ==
    ASSUME NEW numbers, numbers \subseteq Int, NEW v \in Raw(numbers), IsPositive(v)
    PROVE  IsTime(v)
BY DEF Raw, IsPositive, IsNumber, IsTime

LEMMA RobotStays ==
    ASSUME RobotKept, scenario'["expectRobot"] = scenario["expectRobot"]
    PROVE  RobotKept'
BY DEF RobotKept, IsTime

LEMMA ParseSystemKeeps == ASSUME IInv, ParseSystem PROVE IInv'
<1>1. PICK s : Keep(s.wellFormed /\ IsPositive(s.period) /\ IsNumber(s.velocity),
                    "system", s, "experiment")
  BY DEF ParseSystem
<1> DEFINE valid == s.wellFormed /\ IsPositive(s.period) /\ IsNumber(s.velocity)
<1>2. \/ stage' = "rejected" /\ scenario' = [x \in Sections |-> scenario'[x]]
      \/ /\ valid /\ stage' = "experiment"
         /\ scenario' = [x \in Sections |-> scenario'[x]]
         /\ scenario'["system"] = s
         /\ \A x \in Sections \ {"system"} : scenario'[x] = scenario[x]
  <2> HIDE DEF valid
  <2>1. Keep(valid, "system", s, "experiment") /\ "system" \in Sections
    BY <1>1 DEF valid, Sections
  <2> QED
    BY <2>1, KeepKeeps
<1>3. CASE stage' = "experiment"
  <2>1. SystemKept'
    BY <1>2, <1>3 DEF SystemKept, IsPositive, IsNumber
  <2>2. RobotKept'
    BY <1>2, <1>3, RobotStays DEF Sections, IInv, ParseSystem
  <2> QED
    BY <1>2, <1>3, <2>1, <2>2
       DEF IInv, Stages, FaultExpected, WatchdogExpected, RecoveryExpected
<1> QED
  BY <1>2, <1>3, RejectedKeeps

LEMMA ParseExperimentKeeps == ASSUME IInv, ParseExperiment PROVE IInv'
<1>1. PICK s \in [wellFormed : BOOLEAN, seed : Raw({-1, 0}), readiness : Raw(Amounts),
                  baseline : Raw(Amounts), observation : Raw(Seconds)] :
        Keep(/\ s.wellFormed /\ IsNonnegative(s.seed)
             /\ IsPositive(s.readiness) /\ IsPositive(s.baseline)
             /\ IsPositive(s.observation),
             "experiment", s, "fault")
  BY DEF ParseExperiment
<1> DEFINE valid == /\ s.wellFormed /\ IsNonnegative(s.seed)
                    /\ IsPositive(s.readiness) /\ IsPositive(s.baseline)
                    /\ IsPositive(s.observation)
<1>2. \/ stage' = "rejected" /\ scenario' = [x \in Sections |-> scenario'[x]]
      \/ /\ valid /\ stage' = "fault"
         /\ scenario' = [x \in Sections |-> scenario'[x]]
         /\ scenario'["experiment"] = s
         /\ \A x \in Sections \ {"experiment"} : scenario'[x] = scenario[x]
  <2> HIDE DEF valid
  <2>1. Keep(valid, "experiment", s, "fault") /\ "experiment" \in Sections
    BY <1>1 DEF valid, Sections
  <2> QED
    BY <2>1, KeepKeeps
<1>3. CASE stage' = "fault"
  <2>1. ExperimentKept'
    <3>1. IsTime(s.readiness) /\ IsTime(s.baseline) /\ IsTime(s.observation)
      BY <1>2, <1>3, PositiveIsTime, NumbersAssumption
    <3> QED
      BY <1>2, <1>3, <3>1 DEF ExperimentKept
  <2>2. SystemKept'
    <3>1. scenario'["system"] = scenario["system"]
      BY <1>2, <1>3 DEF Sections
    <3>2. SystemKept
      BY DEF IInv, ParseExperiment
    <3> QED
      BY <3>1, <3>2 DEF SystemKept, IsPositive, IsNumber
  <2>3. RobotKept'
    BY <1>2, <1>3, RobotStays DEF Sections, IInv, ParseExperiment
  <2> QED
    BY <1>2, <1>3, <2>1, <2>2, <2>3
       DEF IInv, Stages, FaultExpected, WatchdogExpected, RecoveryExpected
<1> QED
  BY <1>2, <1>3, RejectedKeeps

\* What is known of the sections before the expectations, and stays known while
\* the section that is read is another one.
LEMMA EarlierKept ==
    ASSUME NEW section, section \notin {"system", "experiment", "fault", "watchdog"},
           \A s \in Sections \ {section} : scenario'[s] = scenario[s]
    PROVE  /\ SystemKept => SystemKept'
           /\ ExperimentKept => ExperimentKept'
           /\ FaultKept => FaultKept'
           /\ WatchdogKept => WatchdogKept'
           /\ IsHealthyControl' = IsHealthyControl
<1>1. /\ scenario'["system"] = scenario["system"]
      /\ scenario'["experiment"] = scenario["experiment"]
      /\ scenario'["fault"] = scenario["fault"]
      /\ scenario'["watchdog"] = scenario["watchdog"]
  BY DEF Sections
<1> QED
  BY <1>1 DEF SystemKept, ExperimentKept, FaultKept, WatchdogKept, IsHealthyControl

LEMMA ParseFaultKeeps == ASSUME IInv, ParseFault PROVE IInv'
<1>1. PICK wellFormed, type, parameters, duration :
        /\ type \in FaultTypes \union {Unfit} /\ duration \in Raw(Seconds)
        /\ Keep(/\ wellFormed /\ type # Unfit
                /\ ValidParameters(type, parameters) /\ ValidDuration(type, duration),
                "fault",
                [type |-> type, parameters |-> parameters,
                 duration |-> IF type = "none" THEN 0 ELSE duration],
                "watchdog")
  BY DEF ParseFault
<1> DEFINE valid == /\ wellFormed /\ type # Unfit
                    /\ ValidParameters(type, parameters) /\ ValidDuration(type, duration)
           value == [type |-> type, parameters |-> parameters,
                     duration |-> IF type = "none" THEN 0 ELSE duration]
<1>2. \/ stage' = "rejected" /\ scenario' = [x \in Sections |-> scenario'[x]]
      \/ /\ valid /\ stage' = "watchdog"
         /\ scenario' = [x \in Sections |-> scenario'[x]]
         /\ scenario'["fault"] = value
         /\ \A x \in Sections \ {"fault"} : scenario'[x] = scenario[x]
  <2>1. Keep(valid, "fault", value, "watchdog") /\ "fault" \in Sections
    BY <1>1 DEF Sections
  <2> HIDE DEF valid, value
  <2> QED
    BY <2>1, KeepKeeps
<1>3. CASE stage' = "watchdog"
  <2>1. FaultKept'
    <3>1. type \in FaultTypes \union {Unfit}
      BY <1>1
    <3>2. ASSUME type # "none" PROVE IsTime(duration)
      BY <1>1, <1>2, <1>3, <3>2, PositiveIsTime, NumbersAssumption DEF ValidDuration
    <3> QED
      BY <1>2, <1>3, <3>1, <3>2 DEF FaultKept, ValidParameters
  <2>2. SystemKept' /\ ExperimentKept'
    <3>1. /\ scenario'["system"] = scenario["system"]
          /\ scenario'["experiment"] = scenario["experiment"]
      BY <1>2, <1>3 DEF Sections
    <3>2. SystemKept /\ ExperimentKept
      BY DEF IInv, ParseFault
    <3> QED
      BY <3>1, <3>2 DEF SystemKept, ExperimentKept
  <2>3. RobotKept'
    BY <1>2, <1>3, RobotStays DEF Sections, IInv, ParseFault
  <2> QED
    BY <1>2, <1>3, <2>1, <2>2, <2>3
       DEF IInv, Stages, FaultExpected, WatchdogExpected, RecoveryExpected
<1> QED
  BY <1>2, <1>3, RejectedKeeps

LEMMA ParseWatchdogKeeps == ASSUME IInv, ParseWatchdog PROVE IInv'
<1>1. PICK s : Keep(/\ s.wellFormed /\ IsPositive(s.maxAge) /\ IsPositive(s.period)
                    /\ IsPositive(s.window) /\ IsProbability(s.maxLoss)
                    /\ IsPositive(s.checkPeriod),
                    "watchdog", s, "expect")
  BY DEF ParseWatchdog
<1> DEFINE valid == /\ s.wellFormed /\ IsPositive(s.maxAge) /\ IsPositive(s.period)
                    /\ IsPositive(s.window) /\ IsProbability(s.maxLoss)
                    /\ IsPositive(s.checkPeriod)
<1>2. \/ stage' = "rejected" /\ scenario' = [x \in Sections |-> scenario'[x]]
      \/ /\ valid /\ stage' = "expect"
         /\ scenario' = [x \in Sections |-> scenario'[x]]
         /\ scenario'["watchdog"] = s
         /\ \A x \in Sections \ {"watchdog"} : scenario'[x] = scenario[x]
  <2> HIDE DEF valid
  <2>1. Keep(valid, "watchdog", s, "expect") /\ "watchdog" \in Sections
    BY <1>1 DEF valid, Sections
  <2> QED
    BY <2>1, KeepKeeps
<1>3. CASE stage' = "expect"
  <2>1. WatchdogKept'
    BY <1>2, <1>3 DEF WatchdogKept
  <2>2. SystemKept' /\ ExperimentKept' /\ FaultKept'
    <3>1. /\ scenario'["system"] = scenario["system"]
          /\ scenario'["experiment"] = scenario["experiment"]
          /\ scenario'["fault"] = scenario["fault"]
      BY <1>2, <1>3 DEF Sections
    <3>2. SystemKept /\ ExperimentKept /\ FaultKept
      BY DEF IInv, ParseWatchdog
    <3> QED
      BY <3>1, <3>2 DEF SystemKept, ExperimentKept, FaultKept
  <2>3. RobotKept'
    BY <1>2, <1>3, RobotStays DEF Sections, IInv, ParseWatchdog
  <2> QED
    BY <1>2, <1>3, <2>1, <2>2, <2>3
       DEF IInv, Stages, FaultExpected, WatchdogExpected, RecoveryExpected
<1> QED
  BY <1>2, <1>3, RejectedKeeps

LEMMA ParseExpectKeeps == ASSUME IInv, ParseExpect PROVE IInv'
<1>1. CASE Reject
  BY <1>1, RejectedKeeps DEF Reject, Blank
<1>2. CASE /\ stage' = IF IsHealthyControl THEN "expectRobot" ELSE "expectFault"
           /\ UNCHANGED scenario
  <2>1. SystemKept' /\ ExperimentKept' /\ FaultKept' /\ WatchdogKept'
    BY <1>2 DEF IInv, ParseExpect, SystemKept, ExperimentKept, FaultKept, WatchdogKept
  <2>2. FaultExpected' /\ WatchdogExpected' /\ RecoveryExpected'
    BY <1>2 DEF FaultExpected, WatchdogExpected, RecoveryExpected, IsHealthyControl
  <2>3. RobotKept'
    BY <1>2, RobotStays DEF IInv, ParseExpect
  <2> QED
    BY <1>2, <2>1, <2>2, <2>3 DEF IInv, Stages
<1> QED
  BY <1>1, <1>2 DEF ParseExpect

\* One expectation that is read: rejected, or kept and not missing, with all else
\* as it was.
LEMMA ExpectationKept ==
    ASSUME IInv, NEW section \in Sections, NEW deadlines, NEW following,
           ParseExpectation(section, deadlines, following),
           section \notin {"system", "experiment", "fault", "watchdog"},
           following \notin {"system", "experiment", "fault", "watchdog", "rejected"}
    PROVE  \/ stage' = "rejected" /\ scenario' = [s \in Sections |-> scenario'[s]]
           \/ /\ stage' = following
              /\ scenario' = [s \in Sections |-> scenario'[s]]
              /\ scenario'[section] \in [deadlines -> Raw(Seconds)]
              /\ \A d \in deadlines : IsTime(scenario'[section][d])
              /\ \A s \in Sections \ {section} : scenario'[s] = scenario[s]
              /\ SystemKept' /\ ExperimentKept' /\ FaultKept'
              /\ WatchdogKept'
              /\ IsHealthyControl' = IsHealthyControl
<1>1. PICK wellFormed \in BOOLEAN, s \in [deadlines -> Raw(Seconds)] :
        Keep(wellFormed /\ \A d \in deadlines : IsPositive(s[d]), section, s, following)
  BY DEF ParseExpectation
<1> DEFINE valid == wellFormed /\ \A d \in deadlines : IsPositive(s[d])
<1>2. \/ stage' = "rejected" /\ scenario' = [x \in Sections |-> scenario'[x]]
      \/ /\ valid /\ stage' = following
         /\ scenario' = [x \in Sections |-> scenario'[x]]
         /\ scenario'[section] = s
         /\ \A x \in Sections \ {section} : scenario'[x] = scenario[x]
  <2>1. Keep(valid, section, s, following)
    BY <1>1
  <2> HIDE DEF valid
  <2> QED
    BY <2>1, KeepKeeps
<1>3. ASSUME \A x \in Sections \ {section} : scenario'[x] = scenario[x]
      PROVE  /\ SystemKept' /\ ExperimentKept' /\ FaultKept'
             /\ WatchdogKept'
             /\ IsHealthyControl' = IsHealthyControl
  <2>1. stage = section
    BY DEF ParseExpectation
  <2>2. SystemKept /\ ExperimentKept /\ FaultKept /\ WatchdogKept
    BY <2>1 DEF IInv, Sections
  <2> QED
    BY <1>3, <2>2, EarlierKept
<1>4. ASSUME valid, NEW d \in deadlines PROVE IsTime(s[d])
  BY <1>4, PositiveIsTime, NumbersAssumption
<1> QED
  BY <1>2, <1>3, <1>4

LEMMA ParseExpectFaultKeeps == ASSUME IInv, ParseExpectFault PROVE IInv'
<1>1. ParseExpectation("expectFault", {"within"}, "expectWatchdog")
  BY DEF ParseExpectFault
<1>2. CASE stage' = "rejected" /\ scenario' = [s \in Sections |-> scenario'[s]]
  BY <1>2, RejectedKeeps
<1>3. CASE stage' = "expectWatchdog"
  <2>1. scenario'["expectFault"] # Absent /\ IsTime(scenario'["expectFault"]["within"])
    BY <1>1, <1>3, ExpectationKept, SectionsAssumption DEF Sections
  <2>2. RobotKept'
    BY <1>1, <1>3, ExpectationKept, RobotStays DEF Sections, IInv, ParseExpectation
  <2> QED
    BY <1>1, <1>3, <2>1, <2>2, ExpectationKept
       DEF IInv, Stages, Sections, FaultExpected, WatchdogExpected, RecoveryExpected
<1> QED
  BY <1>1, <1>2, <1>3, ExpectationKept DEF Sections

LEMMA ParseExpectWatchdogKeeps == ASSUME IInv, ParseExpectWatchdog PROVE IInv'
<1>1. ParseExpectation("expectWatchdog", {"within"}, "expectRecovery")
  BY DEF ParseExpectWatchdog
<1>2. CASE stage' = "rejected" /\ scenario' = [s \in Sections |-> scenario'[s]]
  BY <1>2, RejectedKeeps
<1>3. CASE stage' = "expectRecovery"
  <2>1. /\ scenario'["expectWatchdog"] # Absent
        /\ IsTime(scenario'["expectWatchdog"]["within"])
    BY <1>1, <1>3, ExpectationKept, SectionsAssumption DEF Sections
  <2>2. FaultExpected'
    <3>1. /\ scenario'["expectFault"] = scenario["expectFault"]
          /\ IsHealthyControl' = IsHealthyControl
      BY <1>1, <1>3, ExpectationKept DEF Sections
    <3>2. FaultExpected /\ stage = "expectWatchdog"
      BY <1>1 DEF IInv, ParseExpectation
    <3> QED
      BY <3>1, <3>2 DEF FaultExpected
  <2>3. RobotKept'
    BY <1>1, <1>3, ExpectationKept, RobotStays DEF Sections, IInv, ParseExpectation
  <2> QED
    BY <1>1, <1>3, <2>1, <2>2, <2>3, ExpectationKept
       DEF IInv, Stages, Sections, WatchdogExpected, RecoveryExpected
<1> QED
  BY <1>1, <1>2, <1>3, ExpectationKept DEF Sections

LEMMA ParseExpectRecoveryKeeps == ASSUME IInv, ParseExpectRecovery PROVE IInv'
<1>1. ParseExpectation("expectRecovery", {"commandWithin", "observedWithin"}, "expectRobot")
  BY DEF ParseExpectRecovery
<1>2. CASE stage' = "rejected" /\ scenario' = [s \in Sections |-> scenario'[s]]
  BY <1>2, RejectedKeeps
<1>3. CASE stage' = "expectRobot"
  <2>1. scenario'["expectRecovery"] # Absent
    BY <1>1, <1>3, ExpectationKept, SectionsAssumption DEF Sections
  <2>2. FaultExpected' /\ WatchdogExpected'
    <3>1. /\ scenario'["expectFault"] = scenario["expectFault"]
          /\ scenario'["expectWatchdog"] = scenario["expectWatchdog"]
          /\ IsHealthyControl' = IsHealthyControl
      BY <1>1, <1>3, ExpectationKept DEF Sections
    <3>2. FaultExpected /\ WatchdogExpected /\ stage = "expectRecovery"
      BY <1>1 DEF IInv, ParseExpectation
    <3> QED
      BY <3>1, <3>2 DEF FaultExpected, WatchdogExpected
  <2>3. RobotKept'
    BY <1>1, <1>3, ExpectationKept, RobotStays DEF Sections, IInv, ParseExpectation
  <2> QED
    BY <1>1, <1>3, <2>1, <2>2, <2>3, ExpectationKept
       DEF IInv, Stages, Sections, RecoveryExpected
<1> QED
  BY <1>1, <1>2, <1>3, ExpectationKept DEF Sections

LEMMA ParseExpectRobotKeeps == ASSUME IInv, ParseExpectRobot PROVE IInv'
<1>1. ParseExpectation("expectRobot", {"within", "hold"}, "compare")
  BY DEF ParseExpectRobot
<1>2. CASE stage' = "rejected" /\ scenario' = [s \in Sections |-> scenario'[s]]
  BY <1>2, RejectedKeeps
<1>3. CASE stage' = "compare"
  <2>1. FaultExpected' /\ WatchdogExpected' /\ RecoveryExpected'
    <3>1. /\ scenario'["expectFault"] = scenario["expectFault"]
          /\ scenario'["expectWatchdog"] = scenario["expectWatchdog"]
          /\ scenario'["expectRecovery"] = scenario["expectRecovery"]
          /\ IsHealthyControl' = IsHealthyControl
      BY <1>1, <1>3, ExpectationKept DEF Sections
    <3>2. FaultExpected /\ WatchdogExpected /\ RecoveryExpected /\ stage = "expectRobot"
      BY <1>1 DEF IInv, ParseExpectation
    <3> QED
      BY <3>1, <3>2 DEF FaultExpected, WatchdogExpected, RecoveryExpected
  <2>2. RobotKept'
    BY <1>1, <1>3, ExpectationKept DEF Sections, RobotKept
  <2> QED
    BY <1>1, <1>3, <2>1, <2>2, ExpectationKept DEF IInv, Stages, Sections
<1> QED
  BY <1>1, <1>2, <1>3, ExpectationKept DEF Sections

LEMMA NoExpectRobotKeeps == ASSUME IInv, NoExpectRobot PROVE IInv'
<1>1. /\ stage = "expectRobot" /\ stage' = "compare" /\ IsHealthyControl
      /\ scenario' = scenario
  BY DEF NoExpectRobot
<1>2. SystemKept' /\ ExperimentKept' /\ FaultKept' /\ WatchdogKept'
  BY <1>1 DEF IInv, SystemKept, ExperimentKept, FaultKept, WatchdogKept
<1>3. FaultExpected' /\ WatchdogExpected' /\ RecoveryExpected'
  BY <1>1 DEF FaultExpected, WatchdogExpected, RecoveryExpected, IsHealthyControl
<1>4. RobotKept'
  BY <1>1, RobotStays DEF IInv
<1> QED
  BY <1>1, <1>2, <1>3, <1>4 DEF IInv, Stages

LEMMA CompareKeeps == ASSUME IInv, Compare PROVE IInv'
<1>1. CASE Reject
  BY <1>1, RejectedKeeps DEF Reject, Blank
<1>2. CASE /\ \A d \in Deadlines : d <= scenario.experiment.observation
           /\ stage' = "accepted" /\ UNCHANGED scenario
  <2>1. SystemKept' /\ ExperimentKept' /\ FaultKept' /\ WatchdogKept'
    BY <1>2 DEF IInv, Compare, SystemKept, ExperimentKept, FaultKept, WatchdogKept
  <2>2. FaultExpected' /\ WatchdogExpected' /\ RecoveryExpected'
    BY <1>2 DEF IInv, Compare, FaultExpected, WatchdogExpected, RecoveryExpected,
                IsHealthyControl
  <2>3. RobotKept'
    BY <1>2, RobotStays DEF IInv, Compare
  <2>4. Deadlines' = Deadlines
    BY <1>2 DEF Deadlines
  <2> QED
    BY <1>2, <2>1, <2>2, <2>3, <2>4 DEF IInv, Stages
<1> QED
  BY <1>1, <1>2 DEF Compare

LEMMA NextKeeps == IInv /\ [Next]_vars => IInv'
<1> SUFFICES ASSUME IInv, [Next]_vars PROVE IInv'
  OBVIOUS
<1>1. CASE UNCHANGED vars
  <2>1. SystemKept' = SystemKept /\ ExperimentKept' = ExperimentKept
        /\ FaultKept' = FaultKept /\ WatchdogKept' = WatchdogKept
        /\ IsHealthyControl' = IsHealthyControl /\ RobotKept' = RobotKept
    BY <1>1 DEF vars, SystemKept, ExperimentKept, FaultKept, WatchdogKept,
                IsHealthyControl, RobotKept
  <2>2. FaultExpected' = FaultExpected /\ WatchdogExpected' = WatchdogExpected
        /\ RecoveryExpected' = RecoveryExpected /\ Deadlines' = Deadlines
    BY <1>1, <2>1 DEF vars, FaultExpected, WatchdogExpected, RecoveryExpected, Deadlines
  <2> QED
    BY <1>1, <2>1, <2>2 DEF vars, IInv
<1>2. CASE Next
  BY <1>2, ParseSystemKeeps, ParseExperimentKeeps, ParseFaultKeeps, ParseWatchdogKeeps,
     ParseExpectKeeps, ParseExpectFaultKeeps, ParseExpectWatchdogKeeps,
     ParseExpectRecoveryKeeps, ParseExpectRobotKeeps, NoExpectRobotKeeps, CompareKeeps
     DEF Next
<1> QED
  BY <1>1, <1>2

-----------------------------------------------------------------------------
\* Numbers below the limit are converted.
LEMMA Converted ==
    ASSUME NEW sec, sec < FloatLimit
    PROVE  /\ IsPositive(sec) => IsPositive(Nanoseconds(sec))
           /\ IsNonnegative(sec) => IsNonnegative(Nanoseconds(sec))
BY DEF Nanoseconds, IsPositive, IsNonnegative

\* The fault that was checked can be built: a parameter is there when the type
\* requires it, one that is there is a number in its range and below the limit, and
\* 0 does for one that is not.
LEMMA BuiltFaultAccepted ==
    ASSUME FaultKept, ExperimentKept, WithinLimits
    PROVE  FaultConfigAccepts(BuildFaultConfig)
<1> DEFINE type == scenario.fault.type
           parameters == scenario.fault.parameters
           delay == Nanoseconds(parameters["delay_sec"])
           jitter == Nanoseconds(parameters["jitter_sec"])
<1>1. type \in FaultTypes /\ ValidParameters(type, parameters)
  BY DEF FaultKept
<1>2. IsProbability(0) /\ IsNonnegative(0)
  BY NumbersAssumption DEF IsProbability, IsNonnegative, IsNumber
<1>3. ASSUME type = "dropout" PROVE IsProbability(parameters["drop_probability"])
  BY <1>1, <1>3 DEF ValidParameters, Required, Parameters
<1>4. ASSUME type = "latency"
      PROVE  /\ IsNonnegative(delay)
             /\ parameters["jitter_sec"] # Absent => IsNonnegative(jitter)
  <2>1. /\ parameters["delay_sec"] # Absent /\ IsNonnegative(parameters["delay_sec"])
        /\ parameters["jitter_sec"] # Absent => IsNonnegative(parameters["jitter_sec"])
    BY <1>1, <1>4 DEF ValidParameters, Required, Parameters
  <2>2. /\ parameters["delay_sec"] < FloatLimit
        /\ parameters["jitter_sec"] # Absent => parameters["jitter_sec"] < FloatLimit
    BY <2>1 DEF WithinLimits
  <2> HIDE DEF parameters
  <2> QED
    BY <2>1, <2>2, Converted
<1> HIDE DEF type, parameters
<1> DEFINE built ==
        [drop |-> IF type = "dropout" THEN parameters["drop_probability"] ELSE 0,
         delay |-> IF type = "latency" THEN delay ELSE 0,
         jitter |-> IF type = "latency" /\ parameters["jitter_sec"] # Absent
                    THEN jitter ELSE 0,
         seed |-> scenario.experiment.seed]
<1>5. BuildFaultConfig = built
  BY DEF BuildFaultConfig, type, parameters
<1> HIDE DEF delay, jitter
<1>6. FaultConfigAccepts(built)
  BY <1>2, <1>3, <1>4 DEF FaultConfigAccepts, ExperimentKept
<1> QED
  BY <1>5, <1>6

\* What is no longer than the observation is below the limit, if that is.
LEMMA WithinObservation ==
    ASSUME NEW sec \in Int, ExperimentKept, WithinLimits,
           sec <= scenario.experiment.observation
    PROVE  sec < FloatLimit
<1>1. scenario.experiment.observation \in Int
  BY DEF ExperimentKept, IsTime
<1>2. scenario.experiment.observation < FloatLimit
  BY DEF WithinLimits
<1> QED
  BY <1>1, <1>2, LimitsAssumption

LEMMA KeptIsEvaluated ==
    ASSUME IInv, stage = "accepted", WithinLimits
    PROVE  CanBeEvaluated
<1>1. ExperimentKept /\ RobotKept /\ \A d \in Deadlines : d <= scenario.experiment.observation
  BY DEF IInv
<1>2. ASSUME ~IsHealthyControl
      PROVE  /\ scenario.expectFault # Absent
             /\ scenario.expectWatchdog # Absent
             /\ scenario.expectRecovery # Absent
             /\ IsTime(scenario.expectFault["within"])
             /\ IsTime(scenario.expectWatchdog["within"])
  BY <1>2 DEF IInv, FaultExpected, WatchdogExpected, RecoveryExpected
<1>3. ASSUME ~IsHealthyControl
      PROVE  /\ IsPositive(Nanoseconds(scenario.expectFault["within"]))
             /\ IsPositive(Nanoseconds(scenario.expectWatchdog["within"]))
  <2>1. {scenario.expectFault["within"], scenario.expectWatchdog["within"]} \subseteq Deadlines
    BY <1>2, <1>3 DEF Deadlines
  <2> QED
    BY <1>1, <1>2, <1>3, <2>1, WithinObservation, Converted DEF IsTime
<1>4. ASSUME scenario.expectRobot # Absent
      PROVE  IsPositive(Nanoseconds(scenario.expectRobot["hold"]))
  <2> DEFINE within == scenario.expectRobot["within"]
             hold == scenario.expectRobot["hold"]
  <2>1. within + hold \in Deadlines
    BY <1>4 DEF Deadlines
  <2>2. within \in Int /\ hold \in Int /\ within > 0 /\ hold > 0
    BY <1>1, <1>4 DEF RobotKept, IsTime, IsPositive
  <2>3. within + hold <= scenario.experiment.observation
    BY <1>1, <2>1
  <2>4. scenario.experiment.observation \in Int
    BY <1>1 DEF ExperimentKept, IsTime
  <2> HIDE DEF within, hold
  <2>5. hold <= scenario.experiment.observation
    BY <2>2, <2>3, <2>4
  <2>6. IsPositive(hold)
    BY <1>1, <1>4 DEF RobotKept, IsTime, hold
  <2>7. IsPositive(Nanoseconds(hold))
    BY <1>1, <2>2, <2>5, <2>6, WithinObservation, Converted
  <2> QED
    BY <2>7 DEF hold
<1> QED
  BY <1>2, <1>3, <1>4 DEF CanBeEvaluated

LEMMA KeptCanRun == IInv => AcceptedCanRun
<1> SUFFICES ASSUME IInv, stage = "accepted", WithinLimits
             PROVE  /\ RobotAccepts(scenario.system)
                    /\ FaultConfigAccepts(BuildFaultConfig)
                    /\ WatchdogAccepts(scenario.watchdog)
                    /\ LifecycleAccepts
                    /\ CanBeEvaluated
                    /\ IsHealthyControl = (scenario.fault.duration = 0)
                    /\ scenario.fault.duration <= scenario.experiment.observation
  BY DEF AcceptedCanRun
<1>1. SystemKept /\ ExperimentKept /\ FaultKept /\ WatchdogKept
  BY DEF IInv
<1>2. RobotAccepts(scenario.system)
  BY <1>1 DEF SystemKept, WithinLimits, RobotAccepts, TimerAccepts
<1>3. FaultConfigAccepts(BuildFaultConfig)
  BY <1>1, BuiltFaultAccepted
<1>4. WatchdogAccepts(scenario.watchdog)
  <2>1. scenario.watchdog.maxAge < FloatLimit /\ scenario.watchdog.window < FloatLimit
    BY DEF WithinLimits
  <2> QED
    BY <1>1, <2>1, Converted DEF WatchdogKept, WithinLimits, WatchdogAccepts, TimerAccepts
<1>5. scenario.fault.duration <= scenario.experiment.observation
  <2>1. scenario.fault.duration \in Deadlines
    BY DEF Deadlines
  <2> QED
    BY <2>1 DEF IInv
<1>6. LifecycleAccepts
  <2>1. ASSUME NEW sec, IsTime(sec), sec < FloatLimit PROVE IsNonnegative(Nanoseconds(sec))
    BY <2>1, Converted DEF IsTime, IsPositive, IsNonnegative
  <2>2. IsNonnegative(Nanoseconds(scenario.fault.duration))
    <3>1. scenario.fault.duration \in Int /\ IsNonnegative(scenario.fault.duration)
      BY <1>1, NumbersAssumption
         DEF FaultKept, IsTime, IsPositive, IsNonnegative, IsNumber
    <3> QED
      BY <1>1, <1>5, <3>1, WithinObservation, Converted
  <2> QED
    BY <1>1, <2>1, <2>2 DEF LifecycleAccepts, ExperimentKept, WithinLimits
<1>7. CanBeEvaluated
  BY KeptIsEvaluated
<1>8. IsHealthyControl = (scenario.fault.duration = 0)
  BY <1>1 DEF FaultKept, IsHealthyControl, IsTime, IsPositive
<1> QED
  BY <1>2, <1>3, <1>4, <1>5, <1>6, <1>7, <1>8

\* What is known of the sections holds in every state.
THEOREM Invariance == Spec => []IInv
BY InitEstablishes, NextKeeps, PTL DEF Spec

\* A scenario that parse_scenario accepts, with topics that ROS takes the names of
\* and times that timers and floats can hold the nanoseconds of, does not fail for
\* its own values in the middle of a batch: what _build_fault_config, the nodes, the
\* lifecycle and evaluate_scenario take for granted of it is so.  parse_scenario asks
\* for neither; of the times only those in WithinLimits are to be looked at, the
\* deadlines being no longer than the observation.
THEOREM AcceptedScenariosRun == Spec => []AcceptedCanRun
BY Invariance, KeptCanRun, PTL
=============================================================================
