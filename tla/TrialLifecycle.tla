--------------------------- MODULE TrialLifecycle ---------------------------
(***************************************************************************)
(* The lifecycle of one trial (core/experiment.py): a pure state machine   *)
(* that its caller ticks with a monotonic clock and notifies of readiness, *)
(* of applied configurations and of failures, and that answers with the    *)
(* next thing to do.  Any of its methods may be called at any time; those  *)
(* that do not fit the state raise LifecycleError.                         *)
(*                                                                         *)
(* The scenario is chosen at the start and never changes.  Of its fields   *)
(* only those the lifecycle reads are kept, in ticks of the clock.         *)
(***************************************************************************)
EXTENDS Integers

CONSTANTS
    Scenarios,      \* the scenarios a trial may be run with
    Revisions,      \* the revisions that may be reported as applied
    MaxTime         \* bound: the clock stops here

States == {"created", "starting", "baselining", "activating", "observing",
           "finalizing", "finished"}

Actions == {"none", "activate_fault", "deactivate_fault", "finish_trial"}

\* What core/validation.py accepts: a fault that ends within the observation.
\* Times are positive there, but rounding to nanoseconds may make them zero.
ValidScenarios ==
    {s \in [healthy : BOOLEAN, readiness : Nat, baseline : Nat,
            duration : Nat, observation : Nat] :
        s.duration <= s.observation}

ASSUME ScenariosAssumption == Scenarios \subseteq ValidScenarios
ASSUME MaxTimeAssumption == MaxTime \in Nat

VARIABLES
    clock,      \* the caller's monotonic clock
    scenario,
    state,
    startingSince, baselineStart,           \* times, or NoTime
    activationRequested, activation,
    deactivationRequested, observationDeadline,
    failed,     \* an infrastructure error is recorded
    action,     \* what the last call returned
    raised      \* the last call raised LifecycleError

times == <<startingSince, baselineStart, activationRequested, activation,
           deactivationRequested, observationDeadline>>
lifecycle == <<scenario, state, times, failed>>
vars == <<clock, lifecycle, action, raised>>

NoTime == -1
ActivationRevision == 1
Over == {"finalizing", "finished"}

Init ==
    /\ clock = 0
    /\ scenario \in Scenarios
    /\ state = "created"
    /\ startingSince = NoTime /\ baselineStart = NoTime
    /\ activationRequested = NoTime /\ activation = NoTime
    /\ deactivationRequested = NoTime /\ observationDeadline = NoTime
    /\ failed = FALSE
    /\ action = "none" /\ raised = FALSE

-----------------------------------------------------------------------------
\* A call made at this time that returns this action.
Return(now, a) ==
    /\ clock <= now
    /\ clock' = now
    /\ action' = a
    /\ raised' = FALSE
    /\ UNCHANGED scenario

\* A method called in a state it does not fit: _require_state and fail.
Refuse(now) ==
    /\ \/ state # "created"        \* start
       \/ state # "starting"       \* mark_ready
       \/ state # "finalizing"     \* finish
       \/ state \in Over           \* fail
    /\ clock <= now /\ clock' = now
    /\ action' = "none" /\ raised' = TRUE
    /\ UNCHANGED lifecycle

Start(now) ==
    /\ state = "created"
    /\ state' = "starting"
    /\ startingSince' = now
    /\ Return(now, "none")
    /\ UNCHANGED <<baselineStart, activationRequested, activation,
                   deactivationRequested, observationDeadline, failed>>

MarkReady(now) ==
    /\ state = "starting"
    /\ state' = "baselining"
    /\ baselineStart' = now
    /\ Return(now, "none")
    /\ UNCHANGED <<startingSince, activationRequested, activation,
                   deactivationRequested, observationDeadline, failed>>

ObservationEnd(now) == now + scenario.observation

\* What on_config_applied and the end of a healthy baseline have in common.
\* Operators named Faulty... are not used: each shows the one below it as a
\* plausible bug would have it.
Observe(now) ==
    /\ state' = "observing"
    /\ activation' = now
    /\ observationDeadline' = ObservationEnd(now)
    /\ UNCHANGED <<startingSince, baselineStart, activationRequested,
                   deactivationRequested, failed>>

FaultyAwaits(revision) == revision = ActivationRevision

Awaits(revision) == state = "activating" /\ revision = ActivationRevision

OnConfigApplied(revision, now) ==
    /\ Return(now, "none")
    /\ IF Awaits(revision)
       THEN Observe(now)
       ELSE UNCHANGED <<state, times, failed>>

MayFail == state \notin Over

Fail(now) ==
    /\ MayFail
    /\ state' = "finalizing"
    /\ failed' = TRUE
    /\ Return(now, "finish_trial")
    /\ UNCHANGED times

FaultyFinish(now) ==
    /\ state = "finalizing"
    /\ state' = IF failed THEN "failed" ELSE "finished"
    /\ Return(now, "none")
    /\ UNCHANGED <<times, failed>>

Finish(now) ==
    /\ state = "finalizing"
    /\ state' = "finished"
    /\ Return(now, "none")
    /\ UNCHANGED <<times, failed>>

-----------------------------------------------------------------------------
(* tick *)

ReadinessDue(now) ==
    state = "starting" /\ now - startingSince >= scenario.readiness

BaselineDue(now) ==
    state = "baselining" /\ now - baselineStart >= scenario.baseline

FaultyAckOverdue(now) ==
    state = "activating" /\ now - baselineStart >= scenario.readiness

FaultyAckNeverOverdue(now) == FALSE

AckOverdue(now) ==
    state = "activating" /\ now - activationRequested >= scenario.readiness

FaultyDeactivationDue(now) ==
    /\ state = "observing"
    /\ ~scenario.healthy
    /\ deactivationRequested = NoTime
    /\ now - activationRequested >= scenario.duration

FaultyDeactivationRepeated(now) ==
    state = "observing" /\ ~scenario.healthy /\ now - activation >= scenario.duration

DeactivationDue(now) ==
    /\ state = "observing"
    /\ ~scenario.healthy
    /\ deactivationRequested = NoTime
    /\ now - activation >= scenario.duration

FaultyFinishDue(now) ==
    /\ state = "observing" /\ now >= observationDeadline
    /\ now > observationDeadline => ~DeactivationDue(now)

\* Deactivation comes first when both are due; the finish waits for a later tick.
FinishDue(now) ==
    state = "observing" /\ ~DeactivationDue(now) /\ now >= observationDeadline

TickTimeout(now) == (ReadinessDue(now) \/ AckOverdue(now)) /\ Fail(now)

TickObserve(now) ==
    /\ BaselineDue(now) /\ scenario.healthy
    /\ Observe(now)
    /\ Return(now, "none")

TickActivate(now) ==
    /\ BaselineDue(now) /\ ~scenario.healthy
    /\ state' = "activating"
    /\ activationRequested' = now
    /\ Return(now, "activate_fault")
    /\ UNCHANGED <<startingSince, baselineStart, activation,
                   deactivationRequested, observationDeadline, failed>>

TickDeactivate(now) ==
    /\ DeactivationDue(now)
    /\ deactivationRequested' = now
    /\ Return(now, "deactivate_fault")
    /\ UNCHANGED <<state, startingSince, baselineStart, activationRequested,
                   activation, observationDeadline, failed>>

TickFinish(now) ==
    /\ FinishDue(now)
    /\ state' = "finalizing"
    /\ Return(now, "finish_trial")
    /\ UNCHANGED <<times, failed>>

TickIdle(now) ==
    /\ ~ReadinessDue(now) /\ ~BaselineDue(now) /\ ~AckOverdue(now)
    /\ ~DeactivationDue(now) /\ ~FinishDue(now)
    /\ Return(now, "none")
    /\ UNCHANGED <<state, times, failed>>

Tick(now) ==
    \/ TickTimeout(now)
    \/ TickObserve(now)
    \/ TickActivate(now)
    \/ TickDeactivate(now)
    \/ TickFinish(now)
    \/ TickIdle(now)

-----------------------------------------------------------------------------
Next ==
    \E now \in 0..MaxTime :
        \/ Start(now)
        \/ MarkReady(now)
        \/ \E revision \in Revisions : OnConfigApplied(revision, now)
        \/ Fail(now)
        \/ Finish(now)
        \/ Tick(now)
        \/ Refuse(now)

Spec == Init /\ [][Next]_vars

-----------------------------------------------------------------------------
(* Properties. *)

Times == Nat \union {NoTime}

TypeOK ==
    /\ clock \in Nat /\ scenario \in ValidScenarios /\ state \in States
    /\ startingSince \in Times /\ baselineStart \in Times
    /\ activationRequested \in Times /\ activation \in Times
    /\ deactivationRequested \in Times /\ observationDeadline \in Times
    /\ failed \in BOOLEAN /\ action \in Actions /\ raised \in BOOLEAN

\* The assertions that _tick_starting, _tick_baselining, _tick_activating and
\* _tick_observing begin with never fail, nor is a missing activation time used.
AssertionsHold ==
    /\ state = "starting" => startingSince # NoTime
    /\ state = "baselining" => baselineStart # NoTime
    /\ state = "activating" => activationRequested # NoTime
    /\ state = "observing" => observationDeadline # NoTime /\ activation # NoTime

\* A fault scenario observes only what it asked for: the time that the verdict
\* counts from follows the request for the fault (on_config_applied).
ActivationFollowsRequest ==
    activation # NoTime /\ ~scenario.healthy =>
        activationRequested # NoTime /\ activationRequested <= activation

\* The fault lasts at least its duration, counted from the acknowledgement.
FaultLastsItsDuration ==
    deactivationRequested # NoTime =>
        deactivationRequested >= activation + scenario.duration

\* A trial that ends without an error has asked for the fault to be taken away
\* again, however late the tick that finds both due (_tick_observing).
DeactivatedBeforeFinish ==
    state \in Over /\ ~failed /\ ~scenario.healthy => deactivationRequested # NoTime

\* A trial that ends without an error observed for all of its time.
FullObservation ==
    state \in Over /\ ~failed =>
        activation # NoTime /\ clock >= activation + scenario.observation

Rank == [s \in States |->
    CASE s = "created" -> 0 [] s = "starting" -> 1 [] s = "baselining" -> 2
      [] s = "activating" -> 3 [] s = "observing" -> 4
      [] s = "finalizing" -> 5 [] s = "finished" -> 6]

\* No call, however late or unexpected, takes the trial back to an earlier
\* phase, changes any of the six times once it is recorded, or clears a failure:
\* late acknowledgements and repeated ones are ignored, no deadline moves.
HistoryIsKept ==
    [][/\ Rank[state] <= Rank[state']
       /\ failed => failed'
       /\ startingSince # NoTime => startingSince' = startingSince
       /\ baselineStart # NoTime => baselineStart' = baselineStart
       /\ activationRequested # NoTime => activationRequested' = activationRequested
       /\ activation # NoTime => activation' = activation
       /\ deactivationRequested # NoTime =>
            deactivationRequested' = deactivationRequested
       /\ observationDeadline # NoTime =>
            observationDeadline' = observationDeadline]_vars

\* The fault is requested once and withdrawn once, in that order.
EachActionOnce ==
    [][/\ action' = "activate_fault" => activationRequested = NoTime
       /\ action' = "deactivate_fault" =>
            activationRequested # NoTime /\ deactivationRequested = NoTime]_vars
=============================================================================
