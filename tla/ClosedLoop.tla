----------------------------- MODULE ClosedLoop -----------------------------
(***************************************************************************)
(* The system under test during a trial: the robot node (ros/robot_node.py *)
(* and robot/model.py), the fault injector node and the watchdog node, on  *)
(* the topics that connect them, run by one single-threaded executor.      *)
(*                                                                         *)
(*    robot --raw--> injector --faulted--> watchdog --command--> robot     *)
(*                                                                         *)
(* The injector and the watchdog are the modules FaultInjector and         *)
(* Watchdog.  The unit of time is as long as any callback or message is    *)
(* ever kept waiting: all that is due in a tick runs in it, in any order.  *)
(* A command may be lost, and of the samples on their way to the watchdog  *)
(* those its subscription has no room for: the streams are best effort.    *)
(* The velocity of the robot is its sign.                                  *)
(***************************************************************************)
EXTENDS Integers, Sequences

CONSTANTS
    Faults,                         \* the faults a trial may apply
    MaxAge, Period, Window, LossNum, LossDen, Rounding, \* the watchdog's parameters
    Depth,                          \* how many samples a subscription keeps
    FaultFrom, FaultUntil,          \* when the runner may apply it
    Duration,                       \* how long it stays at least
    MaxTime                         \* bound: the clock stops here

\* _build_fault_config: a fault of a scenario is enabled and is one of the three.
ASSUME FaultsAssumption ==
    Faults \subseteq [enabled : {TRUE}, faultType : {"dropout", "latency", "stale"},
                      dropPercent : 0..100, delay : Nat, jitter : Nat, seed : Nat]
ASSUME WatchdogAssumption ==
    /\ MaxAge \in Nat \ {0} /\ Period \in Nat \ {0} /\ Window \in Nat \ {0}
    /\ LossNum \in Nat /\ LossDen \in Nat \ {0} /\ LossNum <= LossDen
    /\ Rounding \in Nat
\* The streams have the profile SENSOR_DATA: best effort, the last 5 are kept.
ASSUME DepthAssumption == Depth \in Nat \ {0}
\* The runner waits for samples on both streams before anything else.
ASSUME BoundsAssumption ==
    /\ FaultFrom \in Nat \ {0} /\ FaultUntil \in Nat /\ Duration \in Nat
    /\ MaxTime \in Nat \ {0}

VARIABLES
    clock,
    fault,                          \* the fault of this trial
    appliedAt, withdrawnAt,         \* when it was applied and withdrawn
    moving,                         \* the robot's commanded velocity is not 0
    nextSample,                     \* when the robot's timer is due
    raw, faulted,                   \* stamps in flight on the two streams
    stamps,                         \* the stamps of the injector's arrivals
    polled, checked,                \* these timers have fired in this tick
    command,                        \* a zero command is in flight
    \* of FaultInjector:
    config, entries, nextSequence, queueTime, holdEnabled, latest, held, lastTime,
    received, forwarded, dropped, raised, outputs,
    \* of Watchdog:
    arrivals, arrived, firstArrival, lastArrival, latestStamp, latched,
    latchedReason, status, refused

NoTime == -1

NoFault == [enabled |-> FALSE, faultType |-> "none", dropPercent |-> 0,
            delay |-> 0, jitter |-> 0, seed |-> 0]

Injector == INSTANCE FaultInjector WITH
    Configs <- Faults \union {NoFault}, InitialConfig <- NoFault,
    MaxPending <- 2 * MaxTime, ExternalRng <- FALSE, MaxReceived <- 2 * MaxTime

Watchdog == INSTANCE Watchdog WITH
    ClockSteps <- FALSE, MaxArrivals <- 2 * MaxTime, raised <- refused

\* The watchdog is set up for the robot's stream.
ASSUME StreamAssumption == Watchdog!Tolerates(0)

injector == <<config, entries, nextSequence, queueTime, holdEnabled, latest, held,
              lastTime, received, forwarded, dropped, raised, outputs>>
watchdog == <<arrivals, arrived, firstArrival, lastArrival, latestStamp, latched,
              latchedReason, status, refused>>
trial == <<fault, appliedAt, withdrawnAt>>
robot == <<moving, nextSample>>
timers == <<polled, checked>>
vars == <<clock, trial, robot, raw, faulted, stamps, timers, command, injector,
          watchdog>>

Init ==
    /\ fault \in Faults \union {NoFault}
    /\ appliedAt = NoTime /\ withdrawnAt = NoTime
    /\ moving = TRUE /\ nextSample = 0
    /\ raw = <<>> /\ faulted = <<>> /\ stamps = <<>>
    /\ polled = FALSE /\ checked = FALSE
    /\ command = FALSE
    /\ Injector!Init /\ Watchdog!Init       \* the watchdog's includes the clock's

-----------------------------------------------------------------------------
(* The robot. *)

\* _on_timer: one sample, stamped now, of whatever the velocity is.
OnSample ==
    /\ nextSample <= clock
    /\ nextSample' = nextSample + Period
    /\ raw' = Append(raw, clock)
    /\ UNCHANGED <<clock, trial, moving, faulted, stamps, timers, command, injector,
                   watchdog>>

\* _on_command: the command replaces the velocity and stays.
OnCommand ==
    /\ command
    /\ command' = FALSE
    /\ moving' = FALSE
    /\ UNCHANGED <<clock, trial, nextSample, raw, faulted, stamps, timers, injector,
                   watchdog>>

\* A command published before the topic's ends have found each other.
LoseCommand ==
    /\ command
    /\ command' = FALSE
    /\ UNCHANGED <<clock, trial, robot, raw, faulted, stamps, timers, injector,
                   watchdog>>

-----------------------------------------------------------------------------
(* The injector node: whatever a call returns is published at once.        *)
(* Faulty... operators are not used: each shows the one below it as a      *)
(* plausible bug would have it.                                            *)

Publish ==
    faulted' = faulted \o [i \in DOMAIN outputs' |-> stamps'[outputs'[i]]]

OnRaw ==
    /\ raw # <<>>
    /\ raw' = Tail(raw)
    /\ stamps' = Append(stamps, Head(raw))
    /\ Injector!Receive(clock)
    /\ Publish
    /\ UNCHANGED <<clock, trial, robot, timers, command, watchdog>>

OnPoll ==
    /\ ~polled
    /\ polled' = TRUE
    /\ UNCHANGED stamps
    /\ Injector!Poll(clock)
    /\ Publish
    /\ UNCHANGED <<clock, trial, robot, raw, checked, command, watchdog>>

\* What the queue gave up on the way out of latency is not published.
FaultyApplyConfig(c) ==
    /\ UNCHANGED <<stamps, faulted>>
    /\ Injector!Configure(c, clock)
    /\ UNCHANGED <<clock, fault, robot, raw, timers, command, watchdog>>

\* apply_config, called by the runner between two spins.
ApplyConfig(c) ==
    /\ UNCHANGED stamps
    /\ Injector!Configure(c, clock)
    /\ Publish
    /\ UNCHANGED <<clock, fault, robot, raw, timers, command, watchdog>>

ApplyFault ==
    /\ fault # NoFault /\ appliedAt = NoTime
    /\ FaultFrom <= clock /\ clock <= FaultUntil
    /\ appliedAt' = clock /\ UNCHANGED withdrawnAt
    /\ ApplyConfig(fault)

WithdrawFault ==
    /\ appliedAt # NoTime /\ withdrawnAt = NoTime
    /\ clock - appliedAt >= Duration
    /\ withdrawnAt' = clock /\ UNCHANGED appliedAt
    /\ ApplyConfig(NoFault)

-----------------------------------------------------------------------------
(* The watchdog node. *)

OnFaulted ==
    /\ faulted # <<>>
    /\ faulted' = Tail(faulted)
    /\ Watchdog!RecordArrival(Head(faulted))
    /\ UNCHANGED <<trial, robot, raw, stamps, timers, command, injector>>

\* More are on their way than the subscription keeps until the callback's turn: the
\* oldest is overwritten - unless the callback runs before the last of them come.
\* The raw stream never has more than one.
Overwrite ==
    /\ Len(faulted) > Depth
    /\ faulted' = Tail(faulted)
    /\ UNCHANGED <<clock, trial, robot, raw, stamps, timers, command, injector,
                   watchdog>>

FaultyCommands == status'.violated /\ ~latched

\* Which checks publish the stop: all that find a violation, again and again.
Commands == status'.violated

\* _on_check: with the command go the status and the recovery message, which
\* nothing in this loop listens to.
OnCheck ==
    /\ checked' = TRUE
    /\ Watchdog!Check
    /\ command' = (command \/ Commands)
    /\ UNCHANGED <<trial, robot, raw, faulted, stamps, polled, injector>>

-----------------------------------------------------------------------------
\* A tick ends when all that was due in it has run.
Elapse ==
    /\ clock < MaxTime
    /\ clock < nextSample /\ raw = <<>> /\ faulted = <<>> /\ polled /\ checked
    /\ clock' = clock + 1
    /\ polled' = FALSE /\ checked' = FALSE
    /\ UNCHANGED <<trial, robot, raw, faulted, stamps, command, injector, watchdog>>

Next ==
    \/ OnSample
    \/ OnCommand
    \/ LoseCommand
    \/ OnRaw
    \/ OnPoll
    \/ ApplyFault
    \/ WithdrawFault
    \/ OnFaulted
    \/ Overwrite
    \/ OnCheck
    \/ Elapse

\* The check's timer keeps firing.  The command topic is reliable once its ends
\* have met: of commands published for ever some one arrives.
Spec == Init /\ [][Next]_vars /\ WF_vars(OnCheck) /\ SF_vars(OnCommand)

\* The same nodes started by launch/resilience_trial.launch.py for a scenario:
\* there is no runner, and nothing else that could reconfigure the injector.
SessionNext ==
    \/ OnSample
    \/ OnCommand
    \/ LoseCommand
    \/ OnRaw
    \/ OnPoll
    \/ OnFaulted
    \/ Overwrite
    \/ OnCheck
    \/ Elapse

SessionSpec == Init /\ [][SessionNext]_vars

-----------------------------------------------------------------------------
(* Properties. *)

\* The fault makes everything the watchdog can see too old.
Detectable ==
    \/ fault.faultType = "stale"
    \/ fault.faultType = "dropout" /\ fault.dropPercent = 100
    \/ fault.faultType = "latency" /\ fault.delay - fault.jitter > MaxAge

\* How long the fault keeps a sample at most.
FaultDelay == IF fault.faultType = "latency" THEN fault.delay + fault.jitter ELSE 0

\* The samples of one delay fit into what the watchdog's subscription keeps.
Fits == FaultDelay < Depth * Period

\* The fault, or its absence, is within what the watchdog is to tolerate.
Tolerated ==
    \/ fault = NoFault
    \/ fault.faultType = "latency" /\ Fits /\ Watchdog!Tolerates(FaultDelay)

\* A stop is never commanded without cause: the robot keeps moving, and the
\* watchdog is quiet, before the fault and through a fault that is tolerable.
NoAlarmWithoutCause ==
    latched \/ command \/ ~moving => appliedAt # NoTime /\ ~Tolerated /\ latched

\* A fault that hides the robot is detected, even when samples keep arriving on
\* time: no later than MaxAge and one check after it was applied.
DetectedInTime ==
    /\ appliedAt # NoTime /\ Detectable
    /\ withdrawnAt = NoTime \/ withdrawnAt > appliedAt + MaxAge + 1
    /\ clock > appliedAt + MaxAge + 1
    => latched

\* No sample comes to the watchdog twice: of those the injector node has taken in, no
\* more have reached the watchdog, are on their way to it, were dropped by the fault or
\* wait in the queue.  And none is lost where the samples of one delay fit into what
\* the subscription keeps - across the application and the withdrawal of the fault too,
\* when the node publishes all that the queue gives up at once (apply_config).
SamplesConserved ==
    LET accounted == arrived + Len(faulted) + dropped + Injector!Pending
    IN  accounted <= received /\ (Fits => accounted = received)

\* The queue never holds more than the samples of one delay: as long as that is less
\* than its capacity no sample of a stream at the robot's rate is ever refused.
QueueHoldsOneDelay == (Injector!Pending - 1) * Period < fault.delay + fault.jitter

\* The alarm stops the robot for good, though commands may be lost and the
\* fault may be over by the time one arrives.
AlarmStopsForGood == latched ~> [](~moving)

\* What the docstring of launch/resilience_trial.launch.py says of a session: the
\* scenario's fault is applied for the whole of it, that is, to every message.
FaultForWholeSession == received > 0 => config = fault
=============================================================================
