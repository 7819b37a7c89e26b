------------------------------ MODULE Evidence ------------------------------
(***************************************************************************)
(* The evidence of one trial and the assertions made about it: the list of *)
(* events that the observer node appends to as its callbacks run, and the  *)
(* pure functions of core/assertions.py and core/metrics.py over that list *)
(* and the timeline of the trial.                                          *)
(*                                                                         *)
(* Times are ticks of the observer's monotonic clock, in which the events  *)
(* are received in order.  A velocity is kept as "below both thresholds"   *)
(* or not, a message by its stamp, and the stamps of the raw stream are    *)
(* its ordinals.                                                           *)
(***************************************************************************)
EXTENDS Integers, Sequences, FiniteSets, FiniteSetsExt

CONSTANTS
    Kinds,                      \* the kinds of events recorded
    Timelines,                  \* the timelines a trial may have had
    FaultWithin, Delay, Tolerance,                          \* expect.fault
    WatchdogWithin, Violation,                              \* expect.watchdog
    CommandWithin, ObservedWithin,                          \* expect.recovery
    RobotWithin, Hold, Period,                              \* expect.robot
    MaxEvents, MaxTime          \* bounds on the list and the clock

ASSUME TimelinesAssumption ==
    \A t \in Timelines :
        /\ t \in [baselineStart : Nat, activation : Nat, observationDeadline : Nat]
        /\ t.baselineStart <= t.activation /\ t.activation <= t.observationDeadline
ASSUME ExpectationsAssumption ==
    {FaultWithin, Delay, Tolerance, WatchdogWithin, CommandWithin, ObservedWithin,
     RobotWithin, Hold, Period} \subseteq Nat
ASSUME BoundsAssumption == MaxEvents \in Nat /\ MaxTime \in Nat

VARIABLES
    timeline,   \* of this trial
    clock,
    events      \* [kind, at |-> receipt time, data], in order of receipt
vars == <<timeline, clock, events>>

NoTime == -1
FaultTypes == {"none", "dropout", "latency", "stale"}
Reasons == {"message_age_exceeded", "loss_fraction_exceeded"}

Init == timeline \in Timelines /\ clock = 0 /\ events = <<>>

-----------------------------------------------------------------------------
(* The observer. *)

Of(kind) == {i \in DOMAIN events : events[i].kind = kind}

RawSoFar == Cardinality(Of("raw"))

\* What a message of this kind may carry.  A faulted sample may be observed
\* before the raw one it was made of; the drop counter never falls; the reason
\* of a latched violation stays; others too may publish commands.
Payloads(kind) ==
    CASE kind = "raw" -> [stamp : {RawSoFar + 1}, stopped : BOOLEAN]
      [] kind = "faulted" -> 1..(RawSoFar + 1)
      [] kind = "counters" -> {d \in 0..1 : \A i \in Of(kind) : events[i].data <= d}
      [] kind = "violation" -> {r \in Reasons : \A i \in Of(kind) : events[i].data = r}
      [] kind = "recovery" -> {0}           \* carries nothing
      [] kind = "command" -> BOOLEAN        \* below both thresholds

FaultyRecorded(event) == <<event>> \o events

Recorded(event) == Append(events, event)

\* _emit: every observation is appended with its time of receipt.
Emit(kind) ==
    /\ Len(events) < MaxEvents
    /\ \E d \in Payloads(kind) :
        events' = Recorded([kind |-> kind, at |-> clock, data |-> d])
    /\ UNCHANGED <<timeline, clock>>

Activation == timeline.activation

\* The clock stops with the list: what it reads without an event after it is the
\* same to every function below.
Elapse ==
    /\ clock < MaxTime /\ Len(events) < MaxEvents
    /\ clock' = clock + 1
    /\ UNCHANGED <<timeline, events>>

Next == Elapse \/ \E kind \in Kinds : Emit(kind)

Spec == Init /\ [][Next]_vars

-----------------------------------------------------------------------------
(* Durations (metrics).  Faulty... operators are not used: each shows the  *)
(* one below it as a plausible bug would have it.                          *)

Between(kind, from, to) == {i \in Of(kind) : from <= events[i].at /\ events[i].at <= to}

After(kind, from) == {i \in Of(kind) : from <= events[i].at}

FaultyFirst(I) == IF I = {} THEN NoTime ELSE Max({events[i].at : i \in I})

\* The receipt time of the first of these events, if there are any.
First(I) == IF I = {} THEN NoTime ELSE Min({events[i].at : i \in I})

Stopped(i) == events[i].data.stopped

\* time_to_stop_sec: the first qualifying sample after the activation.
StopTime == First({i \in After("raw", Activation) : Stopped(i)})

MaxGap == 3 * Period

\* The body of the loop of stop_hold_broken_at_sec, for one more sample.
FaultyHoldStep(scan, sample) ==
    IF scan.broken # NoTime THEN scan
    ELSE IF ~sample.data.stopped THEN [scan EXCEPT !.broken = sample.at]
    ELSE IF sample.at - scan.previous > MaxGap THEN [scan EXCEPT !.broken = scan.previous]
    ELSE [scan EXCEPT !.previous = sample.at]

HoldStep(scan, sample) ==
    IF scan.broken # NoTime THEN scan
    ELSE IF sample.at - scan.previous > MaxGap THEN [scan EXCEPT !.broken = scan.previous]
    ELSE IF ~sample.data.stopped THEN [scan EXCEPT !.broken = sample.at]
    ELSE [scan EXCEPT !.previous = sample.at]

\* That loop, for a stop that began at this time: its state when it has seen so
\* many events of the list.
HoldScan(stop) ==
    LET held == Between("raw", stop, stop + Hold)
        scan[n \in 0..Len(events)] ==
            IF n = 0 THEN [previous |-> stop, broken |-> NoTime]
            ELSE IF n \in held THEN HoldStep(scan[n - 1], events[n])
            ELSE scan[n - 1]
    IN  scan

\* When it broke, if it did.
HoldBrokenAt(stop) ==
    LET end == HoldScan(stop)[Len(events)]
    IN  IF end.broken = NoTime /\ stop + Hold - end.previous > MaxGap
        THEN end.previous
        ELSE end.broken

-----------------------------------------------------------------------------
(* Assertions. *)

NoEarlyViolation == \A i \in Of("violation") : Activation <= events[i].at

FaultyFaultWindow(kind) == After(kind, Activation)

\* The events in which the fault has to show.
FaultWindow(kind) == Between(kind, Activation, Activation + FaultWithin)

DropoutObservable ==
    /\ FaultWindow("raw") # {} /\ FaultWindow("counters") # {}
    /\ events[Max(FaultWindow("counters"))].data > 0
    /\ Cardinality(FaultWindow("faulted")) < Cardinality(FaultWindow("raw"))

FaultyThreshold == Min({Delay - Tolerance, 0})

\* The gap that counts as the configured delay; 0 is met by any sample.
Threshold == Max({Delay - Tolerance, 0})

\* The code keeps the last raw sample of each stamp; stamps do not repeat.
LatencyObservable ==
    \E f \in FaultWindow("faulted"), r \in Of("raw") :
        /\ events[r].data.stamp = events[f].data
        /\ events[f].at - events[r].at >= Threshold

StaleObservable ==
    /\ Cardinality(FaultWindow("faulted")) >= 2
    /\ Cardinality({events[i].data : i \in FaultWindow("faulted")}) = 1
    /\ Cardinality({events[i].data.stamp : i \in FaultWindow("raw")}) >= 2

FaultObservable(faultType) ==
    CASE faultType = "dropout" -> DropoutObservable
      [] faultType = "latency" -> LatencyObservable
      [] faultType = "stale" -> StaleObservable

FaultyDetections == {i \in After("violation", Activation) : events[i].data = Violation}

\* The violations that count as the expected one.
Detections ==
    {i \in Between("violation", Activation, Activation + WatchdogWithin) :
        events[i].data = Violation}

WatchdogViolationDetected == Detections # {}

\* The first violation after the activation, whatever its reason.
Detection == First(After("violation", Activation))

\* Something was first seen at this time, and soon enough after the detection.
Follows(time, within) == time # NoTime /\ time - Detection <= within

RecoveryCommandPublished ==
    /\ Detection # NoTime
    /\ Follows(First(After("recovery", Detection)), CommandWithin)

RecoveryCommandObserved ==
    /\ Detection # NoTime
    /\ Follows(First({i \in After("command", Detection) : events[i].data}), ObservedWithin)

RobotStopped == StopTime # NoTime /\ StopTime - Activation <= RobotWithin

RobotStoppedHeld == StopTime # NoTime /\ HoldBrokenAt(StopTime) = NoTime

NoViolationDuringObservation == Between("violation", timeline.baselineStart, timeline.observationDeadline) = {}
NoRecoveryCommand == Between("recovery", timeline.baselineStart, timeline.observationDeadline) = {}

\* evaluate_scenario, for a scenario that expects something of the robot.
Results(faultType) ==
    IF faultType = "none"
    THEN <<NoViolationDuringObservation, NoRecoveryCommand, RobotStopped>>
    ELSE <<NoEarlyViolation, FaultObservable(faultType), WatchdogViolationDetected,
           RecoveryCommandPublished, RecoveryCommandObserved,
           RobotStopped, RobotStoppedHeld>>

\* What run_trial makes of them.
AllPass(results) == \A i \in DOMAIN results : results[i]

-----------------------------------------------------------------------------
(* Properties. *)

\* The events stay in order of receipt: what metrics.py takes for granted.
TypeOK ==
    /\ timeline \in Timelines /\ clock \in 0..MaxTime
    /\ \A i \in DOMAIN events : events[i].kind \in Kinds /\ events[i].at \in 0..clock
    /\ \A i, j \in DOMAIN events : i <= j => events[i].at <= events[j].at

\* What the docstring of stop_hold_broken_at_sec calls a violation of the hold:
\* a moving sample, or the start of a gap of more than three periods between
\* the stop, the samples and the deadline.
HoldViolations(stop) ==
    LET held == Between("raw", stop, stop + Hold)
        marks == {events[i].at : i \in held} \union {stop, stop + Hold}
    IN  {events[i].at : i \in {i \in held : ~Stopped(i)}}
        \union {t \in marks \ {stop + Hold} : \A u \in marks : u > t => u - t > MaxGap}

\* The scan finds the first violation of the hold, and finds one if there is one.
HoldScanFindsFirst ==
    StopTime # NoTime =>
        LET violations == HoldViolations(StopTime)
        IN  HoldBrokenAt(StopTime) = IF violations = {} THEN NoTime ELSE Min(violations)

\* The last time at which an event can matter to the verdict.
SettledAt(faultType) ==
    IF faultType = "none"
    THEN Max({timeline.observationDeadline, Activation + RobotWithin})
    ELSE Activation + Max({FaultWithin, RobotWithin + Hold,
                           WatchdogWithin + Max({CommandWithin, ObservedWithin})})

\* The results, where one that counts from what was looked for and missed - the
\* recovery from a detection, the hold from a stop - is as good as failed.
Standing(faultType) ==
    IF faultType = "none" THEN Results(faultType)
    ELSE <<NoEarlyViolation, FaultObservable(faultType), WatchdogViolationDetected,
           WatchdogViolationDetected /\ RecoveryCommandPublished,
           WatchdogViolationDetected /\ RecoveryCommandObserved,
           RobotStopped, RobotStopped /\ RobotStoppedHeld>>

\* Evidence that is received when every deadline has passed - while the runner
\* drains its executor, say - changes no result that stands, and so not the verdict,
\* which is that of the results that stand.  It may change the others: a first
\* violation after its deadline still starts a recovery, a first stop a hold.
VerdictSettles ==
    [][\A f \in FaultTypes : clock > SettledAt(f) => Standing(f)' = Standing(f)]_vars

\* What the evidence has shown, later evidence does not take back: the watchdog,
\* recovery and stop assertions, once passed, stay passed; and a violation that
\* came too early is never forgiven.
EvidenceNeverErased ==
    [][/\ WatchdogViolationDetected => WatchdogViolationDetected'
       /\ RecoveryCommandPublished => RecoveryCommandPublished'
       /\ RecoveryCommandObserved => RecoveryCommandObserved'
       /\ RobotStopped => RobotStopped'
       /\ ~NoEarlyViolation => ~NoEarlyViolation']_vars
=============================================================================
