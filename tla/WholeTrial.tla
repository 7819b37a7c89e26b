----------------------------- MODULE WholeTrial -----------------------------
(***************************************************************************)
(* A whole trial: the closed loop of the three nodes, the lifecycle that   *)
(* decides when the fault is applied and withdrawn, the observer that      *)
(* hears everything, and the assertions about what it heard.  Module       *)
(* TrialRun has the loops of run_trial in detail; this one has what they   *)
(* are for: whether the verdict is the right one.                          *)
(*                                                                         *)
(* Once the odometry streams are ready nothing is lost here but samples    *)
(* that come more at once than a subscription keeps.  Any other message    *)
(* reaches the observer in the tick it was published in or in the next:    *)
(* each topic takes as long throughout a trial, but for acknowledgements,  *)
(* which take what they like of it.                                        *)
(***************************************************************************)
EXTENDS ClosedLoop, FiniteSets

CONSTANTS
    Readiness, Baseline, Observation,           \* the experiment, besides Duration
    FaultWithin, Tolerance,                     \* expect.fault
    WatchdogWithin,                             \* expect.watchdog
    CommandWithin, ObservedWithin,              \* expect.recovery
    RobotWithin, Hold,                          \* expect.robot
    Drain,                                      \* how long the last loop spins
    Lags                                        \* how long a topic may take, in ticks

ASSUME DeadlinesAssumption ==
    {Readiness, Baseline, Observation, FaultWithin, Tolerance, WatchdogWithin,
     CommandWithin, ObservedWithin, RobotWithin, Hold, Drain} \union Lags \subseteq Nat

\* validate_scenario: the fault ends within the observation.
ASSUME DurationAssumption == Duration <= Observation

\* No more samples come due in a tick than a subscription keeps: only when the fault is
\* withdrawn are there more at once.
ASSUME JitterAssumption == \A f \in Faults : 2 * f.jitter < Depth * Period

VARIABLES
    scenario, state, startingSince, baselineStart, activationRequested, activation,
    deactivationRequested, observationDeadline, failed, action, refusedCall,
    lag,            \* how long each topic takes to the observer in this trial
    acks,           \* acknowledgements in flight: revision and time of publication
    evidence,       \* what was published, by kind, with its time of receipt
    ticked,         \* the lifecycle was ticked in this tick of the clock
    drainUntil,     \* when the last loop ends, or NoTime
    judged          \* the trial is over and its assertions are evaluated

lifecycle == <<scenario, state, startingSince, baselineStart, activationRequested,
               activation, deactivationRequested, observationDeadline, failed,
               action, refusedCall>>
observer == <<lag, acks, evidence>>
runner == <<ticked, drainUntil, judged>>
trialVars == <<vars, lifecycle, observer, runner>>

Kinds == {"raw", "faulted", "counters", "violation", "recovery", "command"}

TheScenario(f) ==
    [healthy |-> f = NoFault, readiness |-> Readiness, baseline |-> Baseline,
     duration |-> IF f = NoFault THEN 0 ELSE Duration, observation |-> Observation]

Lifecycle == INSTANCE TrialLifecycle WITH
    Scenarios <- {TheScenario(f) : f \in Faults \union {NoFault}},
    Revisions <- {1, 2}, raised <- refusedCall

\* The messages of this kind that have reached the observer, in order on each topic.
HeardOf(kind) ==
    LET sent == evidence[kind]
    IN  SubSeq(sent, 1, Cardinality({i \in DOMAIN sent : sent[i].at <= clock}))

\* The list of events so far, kind after kind: assertions look at one at a time.
Events == HeardOf("raw") \o HeardOf("faulted") \o HeardOf("counters")
          \o HeardOf("violation") \o HeardOf("recovery") \o HeardOf("command")

Evidence(Delay) == INSTANCE Evidence WITH
    Timelines <- {}, Violation <- "message_age_exceeded",
    MaxEvents <- 0, events <- Events,
    timeline <- [baselineStart |-> baselineStart, activation |-> activation,
                 observationDeadline |-> observationDeadline]

TrialInit ==
    /\ Init /\ Lifecycle!Init
    /\ scenario = TheScenario(fault)
    /\ lag \in [Kinds -> Lags]
    /\ acks = <<>> /\ evidence = [k \in Kinds |-> <<>>]
    /\ ticked = FALSE /\ drainUntil = NoTime /\ judged = FALSE

-----------------------------------------------------------------------------
(* What the observer will hear of a step. *)

Heard(kind, data) == [kind |-> kind, at |-> clock + lag[kind], data |-> data]

\* These messages are published, in this order, on the topics of these kinds.
Emit(messages) ==
    evidence' = [k \in Kinds |->
        IF k \in DOMAIN messages
        THEN evidence[k] \o [i \in DOMAIN messages[k] |-> Heard(k, messages[k][i])]
        ELSE evidence[k]]

Outputs == [i \in DOMAIN outputs' |-> stamps'[outputs'[i]]]

\* Of these the observer's subscription keeps all, or misses the oldest of those for
\* which it has no room.
Kept ==
    LET n == Len(Outputs)
    IN  {SubSeq(Outputs, lost + 1, n) : lost \in {m \in 0..n : m = 0 \/ n - m >= Depth}}

-----------------------------------------------------------------------------
(* The nodes. *)

Sample ==
    /\ OnSample
    /\ Emit([raw |-> <<[stamp |-> clock, stopped |-> ~moving]>>])
    /\ UNCHANGED <<lifecycle, lag, acks, runner>>

\* _on_input publishes the counters whatever became of the message.
Inject ==
    /\ OnRaw
    /\ Emit([faulted |-> Outputs, counters |-> <<dropped'>>])
    /\ UNCHANGED <<lifecycle, lag, acks, runner>>

PollInjector ==
    /\ OnPoll
    /\ Emit([faulted |-> Outputs])
    /\ UNCHANGED <<lifecycle, lag, acks, runner>>

Arrive == OnFaulted /\ UNCHANGED <<lifecycle, observer, runner>>

Overflow == Overwrite /\ UNCHANGED <<lifecycle, observer, runner>>

CheckStream ==
    /\ ~checked
    /\ OnCheck
    /\ IF Commands
       THEN Emit([violation |-> <<status'.reason>>, recovery |-> <<0>>, command |-> <<TRUE>>])
       ELSE UNCHANGED evidence
    /\ UNCHANGED <<lifecycle, lag, acks, runner>>

Stop == OnCommand /\ UNCHANGED <<lifecycle, observer, runner>>

-----------------------------------------------------------------------------
(* run_trial and the observer's part in it. *)

Begin ==
    /\ Lifecycle!Start(clock)
    /\ UNCHANGED <<vars, observer, runner>>

\* Both odometry streams have reached the observer.
IsReady == \A kind \in {"raw", "faulted"} : HeardOf(kind) # <<>>

BecomeReady ==
    /\ IsReady
    /\ Lifecycle!MarkReady(clock)
    /\ UNCHANGED <<vars, observer, runner>>

\* apply_config after the tick that asked for it: the node acknowledges.
Acknowledge(revision) ==
    /\ acks' = Append(acks, [revision |-> revision, sent |-> clock])
    /\ \E kept \in Kept : Emit([faulted |-> kept, counters |-> <<dropped'>>])

TickLifecycle ==
    /\ ~ticked /\ ticked' = TRUE
    /\ state \notin {"created", "starting", "finalizing", "finished"}
    /\ Lifecycle!Tick(clock)
    /\ CASE action' = "activate_fault" -> ApplyFault /\ Acknowledge(1)
         [] action' = "deactivate_fault" -> WithdrawFault /\ Acknowledge(2)
         [] OTHER -> UNCHANGED <<vars, acks, evidence>>
    /\ drainUntil' = IF action' = "finish_trial" THEN clock + Drain ELSE drainUntil
    /\ UNCHANGED <<lag, judged>>

HearAck ==
    /\ acks # <<>>
    /\ acks' = Tail(acks)
    /\ Lifecycle!OnConfigApplied(Head(acks).revision, clock)
    /\ UNCHANGED <<vars, lag, evidence, runner>>

\* The end of the drain: what was not heard by now will not be.
Conclude ==
    /\ clock = drainUntil
    /\ Lifecycle!Finish(clock)
    /\ judged' = ~failed
    /\ UNCHANGED <<vars, observer, ticked, drainUntil>>

\* A tick of the clock ends when all that is due in it has run.
Pass ==
    /\ Elapse
    /\ ~command /\ clock # drainUntil
    /\ \/ ticked
       \/ state = "starting" /\ ~IsReady
       \/ state = "finalizing"
    /\ \A i \in DOMAIN acks : acks[i].sent = clock
    /\ ticked' = FALSE
    /\ UNCHANGED <<lifecycle, observer, drainUntil, judged>>

TrialNext ==
    /\ ~judged
    /\ \/ Sample
       \/ Inject
       \/ PollInjector
       \/ Arrive
       \/ Overflow
       \/ CheckStream
       \/ Stop
       \/ Begin
       \/ BecomeReady
       \/ TickLifecycle
       \/ HearAck
       \/ Conclude
       \/ Pass

TrialSpec == TrialInit /\ [][TrialNext]_trialVars

-----------------------------------------------------------------------------
(* Properties. *)

\* The results of a trial of this fault's scenario pass.
Passes(f) == Evidence(f.delay)!AllPass(Evidence(f.delay)!Results(f.faultType))

\* The deadlines of this fault's scenario leave room for what the nodes and topics
\* need.  Age is what the watchdog complains of, before it misses anything.
LeavesRoom(f) ==
    LET detection == MaxAge + 1 IN
    /\ Watchdog!Tolerates(MaxAge - Period)
    /\ FaultWithin < Duration /\ detection < Duration
    /\ \A l \in Lags :
        /\ 2 * Period + l <= FaultWithin + 1
        /\ f.faultType = "stale" => l < Period
        /\ f.faultType = "latency" => Period + f.delay + f.jitter + l <= FaultWithin
        /\ detection + l <= WatchdogWithin
        /\ detection + Period + l <= RobotWithin
        /\ detection + Period + l < Observation + Drain
        /\ detection + Period + l + Hold <= Observation + Drain
        /\ \A m \in Lags :
            /\ f.faultType = "latency" =>
                f.jitter + l <= Tolerance + m /\ f.jitter + l <= f.delay + m
            /\ l <= CommandWithin + m /\ l <= ObservedWithin + m

\* A fault that hides the robot makes its trial pass, where there is room for it: it
\* shows within its window, is detected after the activation and not before, and the
\* stop is commanded, obeyed and held - in whatever order callbacks ran and messages
\* were heard.
FaultTrialPasses ==
    judged /\ Detectable /\ LeavesRoom(fault) => \E f \in Faults : f = fault /\ Passes(f)

\* A trial in which nothing is to be detected sees no violation and no command
\* from its baseline to its end: that is a pass for the healthy control, and for a
\* fault the watchdog tolerates a failure, whatever else was seen.
QuietTrialIsQuiet ==
    judged /\ Tolerated =>
        /\ Evidence(0)!NoViolationDuringObservation /\ Evidence(0)!NoRecoveryCommand
        /\ \A f \in Faults : ~Passes(f)

\* The delay is told from what messages take anyway.
Distinct(f) == f.faultType = "latency" => \A l \in Lags : f.delay - Tolerance > l

\* Where no fault was applied none shows, whichever it would be looked for: late
\* messages, samples on their way while the window opens or closes, and the first
\* samples of the streams are not taken for it.
NothingShownUnapplied ==
    judged /\ fault = NoFault =>
        \A f \in Faults : Distinct(f) => ~Evidence(f.delay)!FaultObservable(f.faultType)
=============================================================================
