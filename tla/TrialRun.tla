------------------------------ MODULE TrialRun ------------------------------
(***************************************************************************)
(* One trial as run_trial drives it (ros/experiment_runner_node.py): three *)
(* loops that each spin a single-threaded executor, the lifecycle that the *)
(* second one ticks, the injector node it reconfigures (apply_config), and *)
(* the topic on which the node acknowledges and the observer listens.      *)
(*                                                                         *)
(* An acknowledgement is published once.  It may be lost, since readiness  *)
(* is judged by the odometry streams and not by this topic, and it may     *)
(* stay in flight for as long as it likes.  One spin runs one callback or  *)
(* none; a callback may raise, which ends the trial.                       *)
(***************************************************************************)
EXTENDS TrialLifecycle, Sequences

CONSTANTS
    Drain,      \* how long the last loop spins
    MaxLate     \* bound: the clock waits for a loop this late for its deadline

ASSUME RunAssumption == Drain \in Nat /\ MaxLate \in Nat

VARIABLES
    pc,             \* where run_trial is
    readyBy,        \* its own readiness deadline, or NoTime
    drainUntil,     \* its drain deadline, or NoTime
    seen,           \* the streams the observer has seen
    revision,       \* the injector node's applied revision
    faulty,         \* the injector's fault is enabled
    acks,           \* revisions in flight on config_applied
    verdict         \* what the trial's record rests on

node == <<revision, faulty>>
run == <<pc, readyBy, drainUntil, seen, node, acks, verdict>>
runVars == <<vars, run>>

Streams == {"raw", "faulted"}
Ended == {"done", "aborted"}

RunInit ==
    /\ Init
    /\ pc = "begin" /\ readyBy = NoTime /\ drainUntil = NoTime
    /\ seen = {} /\ revision = 0 /\ faulty = FALSE
    /\ acks = <<>> /\ verdict = "none"

-----------------------------------------------------------------------------
(* The clock.  It runs on whatever the program does, but no further than   *)
(* MaxLate past the deadline that the current loop is waiting for.         *)

Horizon ==
    CASE pc = "begin" -> 0
      [] pc \in {"await", "ready?"} -> readyBy
      [] pc = "drain" -> drainUntil
      [] state = "baselining" -> baselineStart + scenario.baseline
      [] state = "activating" -> activationRequested + scenario.readiness
      [] state = "observing" -> observationDeadline
      [] OTHER -> clock

Elapse ==
    /\ pc \notin Ended
    /\ clock < Horizon + MaxLate
    /\ clock' = clock + 1
    /\ UNCHANGED <<lifecycle, action, raised, run>>

-----------------------------------------------------------------------------
(* Callbacks run by spin_once. *)

\* The observer's _on_raw and _on_faulted.
OnOdometry ==
    /\ \E s \in Streams : seen' = seen \union {s}
    /\ UNCHANGED <<vars, acks>>

\* The observer's _on_config_applied_msg: the lifecycle is told at once.
OnApplied ==
    /\ acks # <<>>
    /\ OnConfigApplied(Head(acks), clock)
    /\ acks' = Tail(acks)
    /\ UNCHANGED seen

\* No callback, or one that touches none of this state.
OnOther == UNCHANGED <<vars, seen, acks>>

SpinOnce == OnOdometry \/ OnApplied \/ OnOther

\* A callback raises: run_batch records the trial as an infrastructure failure.
Abort ==
    /\ pc \in {"await", "spin", "drain"}
    /\ pc' = "aborted"
    /\ verdict' = "infrastructure"
    /\ UNCHANGED <<vars, readyBy, drainUntil, seen, node, acks>>

-----------------------------------------------------------------------------
(* run_trial. *)

Begin ==
    /\ pc = "begin"
    /\ Start(clock)
    /\ readyBy' = clock + scenario.readiness
    /\ pc' = "await"
    /\ UNCHANGED <<drainUntil, seen, node, acks, verdict>>

Await ==
    /\ pc = "await"
    /\ SpinOnce
    /\ pc' = "ready?"
    /\ UNCHANGED <<readyBy, drainUntil, node, verdict>>

\* Where the first loop and the second one lead.
EnterDrain == pc' = "drain" /\ drainUntil' = clock + Drain

IsReady == seen = Streams

CheckReady ==
    /\ pc = "ready?"
    /\ \/ /\ IsReady
          /\ MarkReady(clock)
          /\ pc' = "spin" /\ UNCHANGED drainUntil
       \/ /\ ~IsReady /\ clock >= readyBy
          /\ Fail(clock)
          /\ EnterDrain
       \/ /\ ~IsReady /\ clock < readyBy
          /\ pc' = "await" /\ UNCHANGED <<vars, drainUntil>>
    /\ UNCHANGED <<readyBy, seen, node, acks, verdict>>

Spin ==
    /\ pc = "spin"
    /\ SpinOnce
    /\ pc' = "tick"
    /\ UNCHANGED <<readyBy, drainUntil, node, verdict>>

FaultyFaultApplied == FALSE

\* _build_fault_config for a scenario with a fault.
FaultApplied == TRUE

\* apply_config: the acknowledgement follows the change, if it gets through.
Apply(enabled, rev) ==
    /\ faulty' = enabled
    /\ revision' = rev
    /\ acks' \in {acks, Append(acks, rev)}

TickLifecycle ==
    /\ pc = "tick"
    /\ Tick(clock)
    /\ CASE action' = "activate_fault" -> Apply(FaultApplied, ActivationRevision)
         [] action' = "deactivate_fault" -> Apply(FALSE, ActivationRevision + 1)
         [] OTHER -> UNCHANGED <<node, acks>>
    /\ IF action' = "finish_trial"
       THEN EnterDrain
       ELSE pc' = "spin" /\ UNCHANGED drainUntil
    /\ UNCHANGED <<readyBy, seen, verdict>>

DrainOnce ==
    /\ pc = "drain" /\ clock < drainUntil
    /\ SpinOnce
    /\ UNCHANGED <<pc, readyBy, drainUntil, node, verdict>>

\* Assertions are evaluated only on a trial that observed and did not fail.
Conclude ==
    /\ pc = "drain" /\ clock >= drainUntil
    /\ IF state = "finalizing" THEN Finish(clock) ELSE UNCHANGED vars
    /\ verdict' = IF failed \/ activation = NoTime THEN "infrastructure" ELSE "judged"
    /\ pc' = "done"
    /\ UNCHANGED <<readyBy, drainUntil, seen, node, acks>>

Runner == Begin \/ Await \/ CheckReady \/ Spin \/ TickLifecycle \/ DrainOnce \/ Conclude

RunNext == Runner \/ Abort \/ Elapse

\* Time passes and the thread that runs the trial keeps running.  Nothing is
\* assumed of the streams or of the acknowledgements.
RunSpec ==
    /\ RunInit /\ [][RunNext]_runVars
    /\ WF_runVars(Elapse) /\ WF_runVars(Runner)

-----------------------------------------------------------------------------
(* Properties. *)

\* The lifecycle's types and the runner's; acknowledgements are in flight in
\* the order of their revisions, each once.
RunTypeOK ==
    /\ TypeOK
    /\ pc \in {"begin", "await", "ready?", "spin", "tick", "drain"} \union Ended
    /\ readyBy \in Times /\ drainUntil \in Times /\ seen \subseteq Streams
    /\ revision \in 0..2 /\ faulty \in BOOLEAN
    /\ acks \in {<<>>, <<1>>, <<2>>, <<1, 2>>}
    /\ verdict \in {"none", "infrastructure", "judged"}

\* Assertions are only evaluated on a trial whose fault was in force when the
\* observation began, was withdrawn again, and whose observation was complete
\* (run_trial after its loops).
JudgedOnFullEvidence ==
    verdict = "judged" =>
        /\ state = "finished" /\ ~failed
        /\ clock >= activation + scenario.observation + Drain
        /\ revision = (IF scenario.healthy THEN 0 ELSE ActivationRevision + 1)
        /\ ~faulty

\* While a fault scenario observes and has not asked for the fault to be taken
\* away, the fault is in force (the acknowledgement really means "applied").
ObservedFaultIsInForce ==
    state = "observing" /\ ~scenario.healthy /\ deactivationRequested = NoTime => faulty

\* When run_trial returns the lifecycle is finished: no acknowledgement that
\* arrives during the drain revives it (on_config_applied).
DoneIsFinished == pc = "done" => state = "finished"

\* A trial only fails by waiting too long, for the streams or for the
\* acknowledgement; an acknowledgement that came is never given up on.
FailureIsATimeout ==
    failed => \/ baselineStart = NoTime /\ clock - startingSince >= scenario.readiness
              \/ /\ activationRequested # NoTime /\ activation = NoTime
                 /\ clock - activationRequested >= scenario.readiness

\* Every trial ends, with streams or without, acknowledged or not.
TrialEnds == <>(pc \in Ended)
=============================================================================
