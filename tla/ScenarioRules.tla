--------------------------- MODULE ScenarioRules ---------------------------
(***************************************************************************)
(* parse_scenario of core/validation.py: section after section is read     *)
(* from the decoded YAML, checked and kept as in core/scenario.py, or the  *)
(* scenario is rejected; in the end the sections are compared.  And what   *)
(* the rest of the program takes for granted of a scenario it is given.    *)
(*                                                                         *)
(* A rate is kept as the period it stands for, a probability in percent.   *)
(* wellFormed sums up the shape of a section: it is a mapping, no key is   *)
(* unknown, no string is empty or other than the one supported.            *)
(* properNames is what is not asked of the topics: that ROS takes their    *)
(* names.  The smallest times may become 0 ns, which nothing refuses.      *)
(***************************************************************************)
EXTENDS Integers

CONSTANTS
    Absent,             \* the key is missing
    Unfit,              \* a value that is no finite number, None for one
    Seconds, Percents,  \* the numbers given for what is compared
    Amounts,            \* and for what is only checked for itself
    TimerLimit,         \* the least time whose nanoseconds no timer holds, and
    FloatLimit          \* the least for which they are no finite float

ASSUME LimitsAssumption == {TimerLimit, FloatLimit} \subseteq Int
ASSUME NumbersAssumption ==
    /\ Seconds \union Percents \union Amounts \subseteq Int
    /\ {Absent, Unfit} \intersect (Seconds \union Percents \union Amounts \union {0}) = {}

VARIABLES
    stage,              \* the section to be read, or the result
    scenario            \* the sections kept so far
vars == <<stage, scenario>>

Sections == {"system", "experiment", "fault", "watchdog", "expectFault",
             "expectWatchdog", "expectRecovery", "expectRobot"}
Blank == [s \in Sections |-> Absent]

Init == stage = "system" /\ scenario = Blank

Raw(numbers) == numbers \union {Absent, Unfit}
IsNumber(v) == v \notin {Absent, Unfit}
IsPositive(v) == IsNumber(v) /\ v > 0
IsNonnegative(v) == IsNumber(v) /\ v >= 0
IsProbability(v) == IsNumber(v) /\ 0 <= v /\ v <= 100

Reject == stage' = "rejected" /\ scenario' = Blank

\* This section of the scenario is done: the next is read if it is valid.
Keep(valid, section, value, following) ==
    IF valid
    THEN stage' = following /\ scenario' = [scenario EXCEPT ![section] = value]
    ELSE Reject

-----------------------------------------------------------------------------
ParseSystem ==
    /\ stage = "system"
    /\ \E s \in [wellFormed : BOOLEAN, properNames : BOOLEAN,
                 period : Raw(Amounts), velocity : Raw({0})] :
        Keep(s.wellFormed /\ IsPositive(s.period) /\ IsNumber(s.velocity),
             "system", s, "experiment")

ParseExperiment ==
    /\ stage = "experiment"
    /\ \E s \in [wellFormed : BOOLEAN, seed : Raw({-1, 0}), readiness : Raw(Amounts),
                 baseline : Raw(Amounts), observation : Raw(Seconds)] :
        Keep(/\ s.wellFormed /\ IsNonnegative(s.seed)
             /\ IsPositive(s.readiness) /\ IsPositive(s.baseline)
             /\ IsPositive(s.observation),
             "experiment", s, "fault")

-----------------------------------------------------------------------------
(* The fault.  Faulty... operators are not used: each shows the one below  *)
(* it as a plausible bug would have it.                                    *)

FaultTypes == {"none", "dropout", "latency", "stale"}
Parameters == {"drop_probability", "delay_sec", "jitter_sec"}

Allowed(type) ==
    CASE type = "dropout" -> {"drop_probability"}
      [] type = "latency" -> {"delay_sec", "jitter_sec"}
      [] OTHER -> {}

FaultyRequired(type) == IF type = "dropout" THEN {"drop_probability"} ELSE {}

Required(type) ==
    CASE type = "dropout" -> {"drop_probability"}
      [] type = "latency" -> {"delay_sec"}
      [] OTHER -> {}

ValidParameters(type, parameters) ==
    LET given == {p \in Parameters : parameters[p] # Absent}
    IN  /\ given \subseteq Allowed(type) /\ Required(type) \subseteq given
        /\ \A p \in given : IF p = "drop_probability" THEN IsProbability(parameters[p])
                            ELSE IsNonnegative(parameters[p])

\* With no fault the key is missing, or given a 0 (which False is equal to).
ValidDuration(type, duration) ==
    IF type = "none" THEN duration \in {Absent, 0} ELSE IsPositive(duration)

ParseFault ==
    /\ stage = "fault"
    /\ \E wellFormed \in BOOLEAN, type \in FaultTypes \union {Unfit},
          drop \in Raw(Percents), delay, jitter \in Raw(Amounts),
          duration \in Raw(Seconds) :
        LET parameters == [p \in Parameters |->
                CASE p = "drop_probability" -> drop
                  [] p = "delay_sec" -> delay
                  [] p = "jitter_sec" -> jitter]
        IN  Keep(/\ wellFormed /\ type # Unfit
                 /\ ValidParameters(type, parameters) /\ ValidDuration(type, duration),
                 "fault",
                 [type |-> type, parameters |-> parameters,
                  duration |-> IF type = "none" THEN 0 ELSE duration],
                 "watchdog")

ParseWatchdog ==
    /\ stage = "watchdog"
    /\ \E s \in [wellFormed : BOOLEAN, maxAge : Raw(Seconds), period : Raw(Seconds),
                 window : Raw(Amounts), maxLoss : Raw(Percents), checkPeriod : Raw(Amounts)] :
        Keep(/\ s.wellFormed /\ IsPositive(s.maxAge) /\ IsPositive(s.period)
             /\ IsPositive(s.window) /\ IsProbability(s.maxLoss)
             /\ IsPositive(s.checkPeriod),
             "watchdog", s, "expect")

-----------------------------------------------------------------------------
(* The expectations: with a fault the four sections are read in turn,      *)
(* without one only the robot's may be there.                              *)

IsHealthyControl == scenario.fault.type = "none"

\* Of a healthy control nothing is expected of fault, watchdog and recovery: the
\* keys are missing or None.
ParseExpect ==
    /\ stage = "expect"
    /\ \E wellFormed, othersAbsent \in BOOLEAN :
        IF ~wellFormed \/ (IsHealthyControl /\ ~othersAbsent) THEN Reject
        ELSE /\ stage' = IF IsHealthyControl THEN "expectRobot" ELSE "expectFault"
             /\ UNCHANGED scenario

\* A section that was read is not one that is missing.
ASSUME SectionsAssumption ==
    \A deadlines \in {{"within"}, {"commandWithin", "observedWithin"}} :
        Absent \notin [deadlines -> Raw(Seconds)]

\* One expectation of a fault scenario, with its deadlines.
ParseExpectation(section, deadlines, following) ==
    /\ stage = section
    /\ \E wellFormed \in BOOLEAN, s \in [deadlines -> Raw(Seconds)] :
        Keep(wellFormed /\ \A d \in deadlines : IsPositive(s[d]), section, s, following)

ParseExpectFault == ParseExpectation("expectFault", {"within"}, "expectWatchdog")

ParseExpectWatchdog == ParseExpectation("expectWatchdog", {"within"}, "expectRecovery")

ParseExpectRecovery ==
    ParseExpectation("expectRecovery", {"commandWithin", "observedWithin"}, "expectRobot")

\* The thresholds of velocity are part of the shape.
ParseExpectRobot == ParseExpectation("expectRobot", {"within", "hold"}, "compare")

\* The key is missing or None.
NoExpectRobot ==
    /\ stage = "expectRobot" /\ IsHealthyControl
    /\ stage' = "compare" /\ UNCHANGED scenario

-----------------------------------------------------------------------------
(* _validate_cross_field_consistency *)

\* What is compared with the observation time.
Deadlines ==
    LET of(section, deadline) ==
            IF scenario[section] = Absent THEN {} ELSE {scenario[section][deadline]}
    IN  {scenario.fault.duration}
        \union of("expectFault", "within") \union of("expectWatchdog", "within")
        \union of("expectRecovery", "observedWithin")
        \union {within + hold : within \in of("expectRobot", "within"),
                                hold \in of("expectRobot", "hold")}

Compare ==
    /\ stage = "compare"
    /\ IF /\ \A d \in Deadlines : d <= scenario.experiment.observation
          /\ scenario.watchdog.maxAge >= scenario.watchdog.period
       THEN stage' = "accepted" /\ UNCHANGED scenario
       ELSE Reject

Next ==
    \/ ParseSystem
    \/ ParseExperiment
    \/ ParseFault
    \/ ParseWatchdog
    \/ ParseExpect
    \/ ParseExpectFault
    \/ ParseExpectWatchdog
    \/ ParseExpectRecovery
    \/ ParseExpectRobot
    \/ NoExpectRobot
    \/ Compare

Spec == Init /\ [][Next]_vars

-----------------------------------------------------------------------------
(* What the scenario is used for: each call raises unless it is given what *)
(* it requires, in a number of nanoseconds that it can hold.               *)

\* int(round(sec * 1e9)) of float seconds: beyond the limit it raises, as the look-up
\* of a missing parameter does.
Nanoseconds(sec) == IF IsNumber(sec) /\ sec < FloatLimit THEN sec ELSE Unfit

\* create_timer converts the period to 64 bits.
TimerAccepts(period) == IsPositive(period) /\ period < TimerLimit

\* FaultConfig: the values have the type it insists on.
FaultConfigAccepts(c) ==
    /\ IsProbability(c.drop)
    /\ IsNonnegative(c.delay) /\ IsNonnegative(c.jitter) /\ IsNonnegative(c.seed)

\* _build_fault_config.  The jitter may be missing from a latency.
BuildFaultConfig ==
    LET type == scenario.fault.type
        parameters == scenario.fault.parameters
        jitter == parameters["jitter_sec"]
    IN  [drop |-> IF type = "dropout" THEN parameters["drop_probability"] ELSE 0,
         delay |-> IF type = "latency" THEN Nanoseconds(parameters["delay_sec"]) ELSE 0,
         jitter |-> IF type = "latency" /\ jitter # Absent THEN Nanoseconds(jitter)
                    ELSE 0,
         seed |-> scenario.experiment.seed]

\* WatchdogEvaluator, and the timer of its node.
WatchdogAccepts(w) ==
    /\ IsPositive(Nanoseconds(w.maxAge)) /\ IsPositive(w.period)
    /\ IsPositive(Nanoseconds(w.window)) /\ IsProbability(w.maxLoss)
    /\ TimerAccepts(w.checkPeriod)

\* RobotNode: RobotModel, the topics it shares with the other nodes, and the timer
\* with the period it divides by the rate for.
RobotAccepts(s) == s.properNames /\ TimerAccepts(s.period) /\ IsNumber(s.velocity)

\* TrialLifecycle and run_trial convert these when the times come.
LifecycleAccepts ==
    \A sec \in {scenario.experiment.readiness, scenario.experiment.baseline,
                scenario.experiment.observation, scenario.fault.duration} :
        IsNonnegative(Nanoseconds(sec))

\* evaluate_scenario asserts that what it needs is there, and converts these.
CanBeEvaluated ==
    /\ ~IsHealthyControl =>
        /\ scenario.expectFault # Absent
        /\ scenario.expectWatchdog # Absent
        /\ scenario.expectRecovery # Absent
        /\ IsPositive(Nanoseconds(scenario.expectFault["within"]))
        /\ IsPositive(Nanoseconds(scenario.expectWatchdog["within"]))
    /\ scenario.expectRobot # Absent =>
            IsPositive(Nanoseconds(scenario.expectRobot["hold"]))

-----------------------------------------------------------------------------
(* Properties. *)

\* What parse_scenario does not ask of a scenario, though its nodes and conversions
\* do: names that ROS takes for the topics, and times below the limits.
WithinLimits ==
    LET given == {p \in {"delay_sec", "jitter_sec"} : scenario.fault.parameters[p] # Absent}
    IN  /\ scenario.system.properNames
        /\ scenario.system.period < TimerLimit
        /\ scenario.watchdog.checkPeriod < TimerLimit
        /\ \A sec \in {scenario.watchdog.maxAge, scenario.watchdog.window,
                       scenario.experiment.readiness, scenario.experiment.baseline,
                       scenario.experiment.observation} : sec < FloatLimit
        /\ \A p \in given : scenario.fault.parameters[p] < FloatLimit

\* An accepted scenario whose topics' names are proper and whose times are within
\* the limits does not fail for its own values in the middle of a batch: the nodes
\* and the fault can be built, the lifecycle (ValidScenarios of TrialLifecycle) and
\* the assertions find what they need and can convert it.  Of other scenarios the
\* validation accepts, no trial gets to its verdict.
AcceptedCanRun ==
    stage = "accepted" /\ WithinLimits =>
        /\ RobotAccepts(scenario.system)
        /\ FaultConfigAccepts(BuildFaultConfig)
        /\ WatchdogAccepts(scenario.watchdog)
        /\ LifecycleAccepts
        /\ CanBeEvaluated
        /\ IsHealthyControl = (scenario.fault.duration = 0)
        /\ scenario.fault.duration <= scenario.experiment.observation

\* What test_deadline_exceeding_observation_window_is_rejected says: a scenario
\* with a deadline beyond the end of the observation is rejected.  The deadlines
\* of the recovery count from the detection.
DeadlinesWithinObservation ==
    stage = "accepted" /\ ~IsHealthyControl =>
        \A d \in {"commandWithin", "observedWithin"} :
            scenario.expectWatchdog.within + scenario.expectRecovery[d]
                <= scenario.experiment.observation
=============================================================================
