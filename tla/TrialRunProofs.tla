--------------------------- MODULE TrialRunProofs ---------------------------
(***************************************************************************)
(* Theorems about TrialLifecycle for all valid scenarios, whatever its     *)
(* caller does, and then about run_trial, which drives it: however long it *)
(* takes, whatever becomes of the acknowledgements and whichever callback  *)
(* raises.                                                                 *)
(*                                                                         *)
(* The inductive invariant of the lifecycle records which times are known  *)
(* in which phase (Phases) and how they are ordered (Ordered).  The runner *)
(* drives the lifecycle by its calls, so that invariant holds for it too;  *)
(* to it come where the runner is in which phase, what its deadlines are,  *)
(* and what the injector node has applied.                                 *)
(***************************************************************************)
EXTENDS TrialRun, SequenceTheorems, TLAPS

-----------------------------------------------------------------------------
(* The lifecycle. *)

\* Which of the times are set in which phase.
Phases ==
    /\ state \in {"created", "starting", "baselining"} => activationRequested = NoTime
    /\ state \in {"created", "starting"} => baselineStart = NoTime
    /\ state \notin {"observing"} \union Over => activation = NoTime
    /\ state = "created" => startingSince = NoTime
    /\ activation = NoTime => deactivationRequested = NoTime /\ observationDeadline = NoTime
    /\ scenario.healthy => activationRequested = NoTime
    /\ state \notin Over => ~failed

\* The clock is past every time recorded, and the deadline is where it belongs.
Ordered ==
    /\ activationRequested <= clock /\ activation <= clock
    /\ activation # NoTime => observationDeadline = activation + scenario.observation
    /\ deactivationRequested <= clock

IInv ==
    /\ TypeOK
    /\ AssertionsHold
    /\ ActivationFollowsRequest
    /\ FaultLastsItsDuration
    /\ DeactivatedBeforeFinish
    /\ FullObservation
    /\ Phases
    /\ Ordered

\* The fields of a valid scenario.
LEMMA ScenarioFields ==
    ASSUME scenario \in ValidScenarios
    PROVE  /\ scenario.healthy \in BOOLEAN
           /\ scenario.duration \in Nat /\ scenario.observation \in Nat
           /\ scenario.readiness \in Nat /\ scenario.baseline \in Nat
           /\ scenario.duration <= scenario.observation
BY DEF ValidScenarios

LEMMA InitEstablishes == Init => IInv
<1> SUFFICES ASSUME Init PROVE IInv
  OBVIOUS
<1> USE DEF NoTime, Times, States, Actions, Over
<1>1. scenario \in ValidScenarios
  BY ScenariosAssumption DEF Init
<1>2. TypeOK
  BY <1>1 DEF Init, TypeOK
<1> QED
  BY <1>2 DEF Init, IInv, AssertionsHold, ActivationFollowsRequest,
       FaultLastsItsDuration, DeactivatedBeforeFinish, FullObservation, Phases,
       Ordered

\* Time passes, or a call returns that changes nothing else.
LEMMA OnlyTimePasses ==
    ASSUME IInv, clock' \in Nat, clock <= clock', UNCHANGED lifecycle,
           action' \in Actions, raised' \in BOOLEAN
    PROVE  IInv'
<1>1. clock \in Nat /\ scenario.observation \in Nat
  BY ScenarioFields DEF IInv, TypeOK
<1>2. TypeOK'
  BY DEF lifecycle, times, IInv, TypeOK
<1>3. AssertionsHold' /\ DeactivatedBeforeFinish'
  BY DEF lifecycle, times, IInv, AssertionsHold, DeactivatedBeforeFinish, Over
<1>4. ActivationFollowsRequest' /\ Phases'
  BY DEF lifecycle, times, IInv, ActivationFollowsRequest, Phases, Over
<1>5. FaultLastsItsDuration' /\ Ordered' /\ FullObservation'
  BY <1>1 DEF lifecycle, times, IInv, TypeOK, Times, NoTime, FaultLastsItsDuration,
       Ordered, FullObservation, Over
<1> QED
  BY <1>2, <1>3, <1>4, <1>5 DEF IInv

\* Any call at any time, with any revision.
LEMMA CallKeeps ==
    ASSUME IInv, NEW now \in Nat,
           \/ Start(now)
           \/ MarkReady(now)
           \/ \E rev : OnConfigApplied(rev, now)
           \/ Fail(now)
           \/ Finish(now)
           \/ Tick(now)
           \/ Refuse(now)
    PROVE  IInv'
<1> USE DEF States, Actions
<1>1. /\ scenario \in ValidScenarios /\ scenario.healthy \in BOOLEAN
      /\ scenario.duration \in Nat /\ scenario.observation \in Nat
      /\ scenario.duration <= scenario.observation
      /\ now \in Nat /\ clock \in Nat
      /\ now \in Times /\ now + scenario.observation \in Times
  BY ScenarioFields DEF IInv, TypeOK, Times
<1>2. CASE Start(now)
  <2>1. TypeOK'
    BY <1>1, <1>2 DEF Start, Return, IInv, TypeOK
  <2>2. AssertionsHold'
    BY <1>1, <1>2 DEF Start, Return, IInv, AssertionsHold, Phases, NoTime
  <2>3. ActivationFollowsRequest' /\ Phases'
    BY <1>1, <1>2 DEF Start, Return, IInv, TypeOK, Over,
       ActivationFollowsRequest, Phases, Ordered, AssertionsHold, NoTime
  <2>4. FaultLastsItsDuration' /\ Ordered'
    BY <1>1, <1>2 DEF Start, Return, IInv, TypeOK, Times, NoTime, Over,
       FaultLastsItsDuration, Ordered, Phases
  <2>5. DeactivatedBeforeFinish' /\ FullObservation'
    BY <1>1, <1>2 DEF Start, Return, IInv, TypeOK, Times, NoTime, Over,
       DeactivatedBeforeFinish, FullObservation, Phases
  <2> QED
    BY <2>1, <2>2, <2>3, <2>4, <2>5 DEF IInv
<1>3. CASE MarkReady(now)
  <2>1. TypeOK'
    BY <1>1, <1>3 DEF MarkReady, Return, IInv, TypeOK
  <2>2. AssertionsHold'
    BY <1>1, <1>3 DEF MarkReady, Return, IInv, AssertionsHold, Phases, NoTime
  <2>3. ActivationFollowsRequest' /\ Phases'
    BY <1>1, <1>3 DEF MarkReady, Return, IInv, TypeOK, Over,
       ActivationFollowsRequest, Phases, Ordered, AssertionsHold, NoTime
  <2>4. FaultLastsItsDuration' /\ Ordered'
    BY <1>1, <1>3 DEF MarkReady, Return, IInv, TypeOK, Times, NoTime, Over,
       FaultLastsItsDuration, Ordered, Phases
  <2>5. DeactivatedBeforeFinish' /\ FullObservation'
    BY <1>1, <1>3 DEF MarkReady, Return, IInv, TypeOK, Times, NoTime, Over,
       DeactivatedBeforeFinish, FullObservation, Phases
  <2> QED
    BY <2>1, <2>2, <2>3, <2>4, <2>5 DEF IInv
\* Observation begins with an acknowledgement or with a healthy baseline.
<1>4. ASSUME Observe(now), Return(now, "none"),
             \/ state = "activating"
             \/ state = "baselining" /\ scenario.healthy
      PROVE  IInv'
  <2>1. TypeOK'
    BY <1>1, <1>4 DEF Observe, ObservationEnd, Return, IInv, TypeOK
  <2>2. AssertionsHold'
    BY <1>1, <1>4 DEF Observe, ObservationEnd, Return, IInv, AssertionsHold, Phases, NoTime
  <2>3. ActivationFollowsRequest' /\ Phases'
    BY <1>1, <1>4 DEF Observe, ObservationEnd, Return, IInv, TypeOK, Over,
       ActivationFollowsRequest, Phases, Ordered, AssertionsHold, NoTime
  <2>4. FaultLastsItsDuration' /\ Ordered'
    BY <1>1, <1>4 DEF Observe, ObservationEnd, Return, IInv, TypeOK, Times, NoTime, Over,
       FaultLastsItsDuration, Ordered, Phases
  <2>5. DeactivatedBeforeFinish' /\ FullObservation'
    BY <1>1, <1>4 DEF Observe, ObservationEnd, Return, IInv, TypeOK, Times, NoTime, Over,
       DeactivatedBeforeFinish, FullObservation, Phases
  <2> QED
    BY <2>1, <2>2, <2>3, <2>4, <2>5 DEF IInv
<1>5. ASSUME Return(now, "none"), UNCHANGED <<state, times, failed>>
      PROVE  IInv'
  BY <1>1, <1>5, OnlyTimePasses DEF Return, lifecycle
<1>6. ASSUME NEW rev, OnConfigApplied(rev, now)
      PROVE  IInv'
  BY <1>4, <1>5, <1>6 DEF OnConfigApplied, Awaits
<1>7. CASE Fail(now)
  <2>1. TypeOK'
    BY <1>1, <1>7 DEF Fail, MayFail, Return, times, IInv, TypeOK
  <2>2. AssertionsHold'
    BY <1>1, <1>7 DEF Fail, MayFail, Return, times, IInv, AssertionsHold, Phases, NoTime
  <2>3. ActivationFollowsRequest' /\ Phases'
    BY <1>1, <1>7 DEF Fail, MayFail, Return, times, IInv, TypeOK, Over,
       ActivationFollowsRequest, Phases, Ordered, AssertionsHold, NoTime
  <2>4. FaultLastsItsDuration' /\ Ordered'
    BY <1>1, <1>7 DEF Fail, MayFail, Return, times, IInv, TypeOK, Times, NoTime, Over,
       FaultLastsItsDuration, Ordered, Phases
  <2>5. DeactivatedBeforeFinish' /\ FullObservation'
    BY <1>1, <1>7 DEF Fail, MayFail, Return, times, IInv, TypeOK, Times, NoTime, Over,
       DeactivatedBeforeFinish, FullObservation, Phases
  <2> QED
    BY <2>1, <2>2, <2>3, <2>4, <2>5 DEF IInv
<1>8. CASE Finish(now)
  <2>1. TypeOK'
    BY <1>1, <1>8 DEF Finish, Return, times, IInv, TypeOK
  <2>2. AssertionsHold'
    BY <1>1, <1>8 DEF Finish, Return, times, IInv, AssertionsHold, Phases, NoTime
  <2>3. ActivationFollowsRequest' /\ Phases'
    BY <1>1, <1>8 DEF Finish, Return, times, IInv, TypeOK, Over,
       ActivationFollowsRequest, Phases, Ordered, AssertionsHold, NoTime
  <2>4. FaultLastsItsDuration' /\ Ordered'
    BY <1>1, <1>8 DEF Finish, Return, times, IInv, TypeOK, Times, NoTime, Over,
       FaultLastsItsDuration, Ordered, Phases
  <2>5. DeactivatedBeforeFinish' /\ FullObservation'
    BY <1>1, <1>8 DEF Finish, Return, times, IInv, TypeOK, Times, NoTime, Over,
       DeactivatedBeforeFinish, FullObservation, Phases
  <2> QED
    BY <2>1, <2>2, <2>3, <2>4, <2>5 DEF IInv
<1>9. CASE Refuse(now)
  BY <1>1, <1>9, OnlyTimePasses DEF Refuse
<1>10. CASE TickTimeout(now)
  BY <1>7, <1>10 DEF TickTimeout
<1>11. CASE TickObserve(now)
  BY <1>4, <1>11 DEF TickObserve, BaselineDue
<1>12. CASE TickActivate(now)
  <2>1. TypeOK'
    BY <1>1, <1>12 DEF TickActivate, BaselineDue, Return, IInv, TypeOK
  <2>2. AssertionsHold'
    BY <1>1, <1>12 DEF TickActivate, BaselineDue, Return, IInv, AssertionsHold, Phases, NoTime
  <2>3. ActivationFollowsRequest' /\ Phases'
    BY <1>1, <1>12 DEF TickActivate, BaselineDue, Return, IInv, TypeOK, Over,
       ActivationFollowsRequest, Phases, Ordered, AssertionsHold, NoTime
  <2>4. FaultLastsItsDuration' /\ Ordered'
    BY <1>1, <1>12 DEF TickActivate, BaselineDue, Return, IInv, TypeOK, Times, NoTime, Over,
       FaultLastsItsDuration, Ordered, Phases
  <2>5. DeactivatedBeforeFinish' /\ FullObservation'
    BY <1>1, <1>12 DEF TickActivate, BaselineDue, Return, IInv, TypeOK, Times, NoTime, Over,
       DeactivatedBeforeFinish, FullObservation, Phases
  <2> QED
    BY <2>1, <2>2, <2>3, <2>4, <2>5 DEF IInv
<1>13. CASE TickDeactivate(now)
  <2>1. TypeOK'
    BY <1>1, <1>13 DEF TickDeactivate, DeactivationDue, Return, IInv, TypeOK
  <2>2. AssertionsHold'
    BY <1>1, <1>13 DEF TickDeactivate, DeactivationDue, Return, IInv, AssertionsHold, Phases, NoTime
  <2>3. ActivationFollowsRequest' /\ Phases'
    BY <1>1, <1>13 DEF TickDeactivate, DeactivationDue, Return, IInv, TypeOK, Over,
       ActivationFollowsRequest, Phases, Ordered, AssertionsHold, NoTime
  <2>4. FaultLastsItsDuration' /\ Ordered'
    BY <1>1, <1>13 DEF TickDeactivate, DeactivationDue, Return, IInv, TypeOK, Times, NoTime, Over,
       FaultLastsItsDuration, Ordered, Phases
  <2>5. DeactivatedBeforeFinish' /\ FullObservation'
    BY <1>1, <1>13 DEF TickDeactivate, DeactivationDue, Return, IInv, TypeOK, Times, NoTime, Over,
       DeactivatedBeforeFinish, FullObservation, Phases
  <2> QED
    BY <2>1, <2>2, <2>3, <2>4, <2>5 DEF IInv
\* When the observation is over the fault has had its duration, so that a
\* deactivation not yet requested would be due and come first.
<1>14. CASE TickFinish(now)
  <2>10. /\ state = "observing" /\ now >= observationDeadline
         /\ ~DeactivationDue(now)
    BY <1>14 DEF TickFinish, FinishDue
  <2>11. /\ activation \in Nat /\ activation # NoTime
         /\ now >= activation + scenario.observation
    BY <1>1, <2>10 DEF IInv, TypeOK, Times, Ordered, AssertionsHold
  <2>12. ~scenario.healthy => deactivationRequested # NoTime
    BY <1>1, <2>10, <2>11 DEF DeactivationDue, IInv, TypeOK
  <2>1. TypeOK'
    BY <1>1, <1>14, <2>10, <2>11, <2>12 DEF TickFinish, Return, times, IInv, TypeOK
  <2>2. AssertionsHold'
    BY <1>1, <1>14, <2>10, <2>11, <2>12 DEF TickFinish, Return, times, IInv, AssertionsHold, Phases, NoTime
  <2>3. ActivationFollowsRequest' /\ Phases'
    BY <1>1, <1>14, <2>10, <2>11, <2>12 DEF TickFinish, Return, times, IInv, TypeOK, Over,
       ActivationFollowsRequest, Phases, Ordered, AssertionsHold, NoTime
  <2>4. FaultLastsItsDuration' /\ Ordered'
    BY <1>1, <1>14, <2>10, <2>11, <2>12 DEF TickFinish, Return, times, IInv, TypeOK, Times, NoTime, Over,
       FaultLastsItsDuration, Ordered, Phases
  <2>5. DeactivatedBeforeFinish' /\ FullObservation'
    BY <1>1, <1>14, <2>10, <2>11, <2>12 DEF TickFinish, Return, times, IInv, TypeOK, Times, NoTime, Over,
       DeactivatedBeforeFinish, FullObservation, Phases
  <2> QED
    BY <2>1, <2>2, <2>3, <2>4, <2>5 DEF IInv
<1>15. CASE TickIdle(now)
  BY <1>5, <1>15 DEF TickIdle
<1> QED
  BY <1>2, <1>3, <1>6, <1>7, <1>8, <1>9, <1>10, <1>11, <1>12, <1>13, <1>14,
     <1>15 DEF Tick

LEMMA NextKeeps == IInv /\ [Next]_vars => IInv'
<1> SUFFICES ASSUME IInv, [Next]_vars PROVE IInv'
  OBVIOUS
<1>1. CASE UNCHANGED vars
  BY <1>1, OnlyTimePasses DEF vars, IInv, TypeOK
<1>2. CASE Next
  <2>1. 0..MaxTime \subseteq Nat
    BY MaxTimeAssumption
  <2> QED
    BY <1>2, <2>1, CallKeeps DEF Next
<1> QED
  BY <1>1, <1>2

\* The times recorded belong to the state, whatever is called.
THEOREM Invariance == Spec => []IInv
BY InitEstablishes, NextKeeps, PTL DEF Spec

\* The lifecycle keeps its types: every field holds a time or none, and the state
\* is one of LifecycleState.
THEOREM TypeCorrect == Spec => []TypeOK
<1>1. IInv => TypeOK
  BY DEF IInv
<1> QED
  BY <1>1, Invariance, PTL

\* No assertion of the _tick_... methods fails, whatever the order of the calls.
THEOREM AssertionsNeverFail == Spec => []AssertionsHold
<1>1. IInv => AssertionsHold
  BY DEF IInv
<1> QED
  BY <1>1, Invariance, PTL

\* The time the verdict counts from follows the request for the fault
\* (on_config_applied after _tick_baselining).
THEOREM ActivationWasRequested == Spec => []ActivationFollowsRequest
<1>1. IInv => ActivationFollowsRequest
  BY DEF IInv
<1> QED
  BY <1>1, Invariance, PTL

\* The fault is not withdrawn before its duration is over (_tick_observing).
THEOREM FaultKeepsItsDuration == Spec => []FaultLastsItsDuration
<1>1. IInv => FaultLastsItsDuration
  BY DEF IInv
<1> QED
  BY <1>1, Invariance, PTL

\* However late the ticks of _tick_observing come, a trial that ends without an
\* error has withdrawn its fault.
THEOREM FaultWithdrawnBeforeFinish == Spec => []DeactivatedBeforeFinish
<1>1. IInv => DeactivatedBeforeFinish
  BY DEF IInv
<1> QED
  BY <1>1, Invariance, PTL

\* A trial that ends without an error observed for its whole time, in the fault
\* and in the healthy scenarios.
THEOREM ObservationIsFull == Spec => []FullObservation
<1>1. IInv => FullObservation
  BY DEF IInv
<1> QED
  BY <1>1, Invariance, PTL

-----------------------------------------------------------------------------
(* Action properties. *)

\* What a call at this time can come to: most of them change the clock only.
Effect(now) ==
    \/ Start(now)
    \/ MarkReady(now)
    \/ /\ Observe(now) /\ Return(now, "none")
       /\ state \in {"activating", "baselining"}
    \/ UNCHANGED <<state, times, failed>> /\ action' = "none"
    \/ Fail(now)
    \/ Finish(now)
    \/ TickActivate(now)
    \/ TickDeactivate(now)
    \/ TickFinish(now)

LEMMA EachNext ==
    ASSUME Next
    PROVE  \E now \in 0..MaxTime : Effect(now)
<1> PICK now \in 0..MaxTime :
       \/ Start(now)
       \/ MarkReady(now)
       \/ \E rev \in Revisions : OnConfigApplied(rev, now)
       \/ Fail(now)
       \/ Finish(now)
       \/ Tick(now)
       \/ Refuse(now)
  BY DEF Next
<1>1. ASSUME NEW rev \in Revisions, OnConfigApplied(rev, now)
      PROVE  \/ Observe(now) /\ Return(now, "none") /\ state = "activating"
             \/ UNCHANGED <<state, times, failed>> /\ action' = "none"
  BY <1>1 DEF OnConfigApplied, Awaits, Return
<1>2. TickTimeout(now) => Fail(now)
  BY DEF TickTimeout
<1>3. TickObserve(now) =>
        /\ Observe(now) /\ Return(now, "none")
        /\ state = "baselining"
  BY DEF TickObserve, BaselineDue
<1>4. TickIdle(now) => UNCHANGED <<state, times, failed>> /\ action' = "none"
  BY DEF TickIdle, Return
<1>5. Refuse(now) => UNCHANGED <<state, times, failed>> /\ action' = "none"
  BY DEF Refuse, lifecycle
<1> QED
  BY <1>1, <1>2, <1>3, <1>4, <1>5 DEF Tick, Effect

HistoryStep ==
    /\ Rank[state] <= Rank[state']
    /\ failed => failed'
    /\ startingSince # NoTime => startingSince' = startingSince
    /\ baselineStart # NoTime => baselineStart' = baselineStart
    /\ activationRequested # NoTime => activationRequested' = activationRequested
    /\ activation # NoTime => activation' = activation
    /\ deactivationRequested # NoTime =>
         deactivationRequested' = deactivationRequested
    /\ observationDeadline # NoTime => observationDeadline' = observationDeadline

ActionStep ==
    /\ action' = "activate_fault" => activationRequested = NoTime
    /\ action' = "deactivate_fault" =>
         activationRequested # NoTime /\ deactivationRequested = NoTime

LEMMA Ranks ==
    /\ Rank["created"] = 0 /\ Rank["starting"] = 1 /\ Rank["baselining"] = 2
    /\ Rank["activating"] = 3 /\ Rank["observing"] = 4
    /\ Rank["finalizing"] = 5 /\ Rank["finished"] = 6
BY DEF Rank, States

LEMMA StepsKeepHistory == IInv /\ [Next]_vars => HistoryStep \/ UNCHANGED vars
<1> SUFFICES ASSUME IInv, Next PROVE HistoryStep
  OBVIOUS
<1> USE DEF NoTime
<1>1. state \in States /\ failed \in BOOLEAN
  BY DEF IInv, TypeOK
<1>2. Rank[state] <= Rank[state]
  BY <1>1, Ranks DEF States
<1>3. PICK now \in 0..MaxTime : Effect(now)
  BY EachNext
<1>4. CASE Start(now)
  BY <1>4, Ranks DEF Start, HistoryStep, IInv, Phases
<1>5. CASE MarkReady(now)
  BY <1>5, Ranks DEF MarkReady, HistoryStep, IInv, Phases
<1>6. CASE Observe(now) /\ state \in {"activating", "baselining"}
  BY <1>6, Ranks DEF Observe, HistoryStep, IInv, Phases, Over
<1>7. CASE UNCHANGED <<state, times, failed>>
  BY <1>7, <1>2 DEF times, HistoryStep
<1>8. CASE Fail(now)
  BY <1>8, <1>1, Ranks DEF Fail, MayFail, Over, States, times, HistoryStep
<1>9. CASE Finish(now)
  BY <1>9, Ranks DEF Finish, times, HistoryStep
<1>10. CASE TickActivate(now)
  BY <1>10, Ranks DEF TickActivate, BaselineDue, HistoryStep, IInv, Phases
<1>11. CASE TickDeactivate(now)
  BY <1>11, <1>2 DEF TickDeactivate, DeactivationDue, HistoryStep
<1>12. CASE TickFinish(now)
  BY <1>12, Ranks DEF TickFinish, FinishDue, times, HistoryStep
<1> QED
  BY <1>3, <1>4, <1>5, <1>6, <1>7, <1>8, <1>9, <1>10, <1>11, <1>12 DEF Effect

LEMMA StepsActOnce == IInv /\ [Next]_vars => ActionStep \/ UNCHANGED vars
<1> SUFFICES ASSUME IInv, Next PROVE ActionStep
  OBVIOUS
<1>1. PICK now \in 0..MaxTime : Effect(now)
  BY EachNext
<1>2. CASE TickActivate(now)
  BY <1>2 DEF TickActivate, BaselineDue, Return, ActionStep, IInv, Phases
<1>3. CASE TickDeactivate(now)
  BY <1>3 DEF TickDeactivate, DeactivationDue, Return, ActionStep, IInv,
     AssertionsHold, ActivationFollowsRequest
<1>4. ASSUME action' \in {"none", "finish_trial"}
      PROVE  ActionStep
  BY <1>4 DEF ActionStep
<1> QED
  BY <1>1, <1>2, <1>3, <1>4 DEF Effect, Start, MarkReady, Fail, Finish, TickFinish, Return

\* No call, however late or repeated, undoes what the lifecycle has recorded: no
\* phase, no failure and none of the six times (on_config_applied, fail and finish
\* in any state).
THEOREM HistoryNeverUndone == Spec => HistoryIsKept
<1>1. IInv /\ [Next]_vars => [HistoryStep]_vars
  BY StepsKeepHistory
<1>2. Spec => [][HistoryStep]_vars
  BY <1>1, Invariance, PTL DEF Spec
<1> QED
  BY <1>2 DEF HistoryIsKept, HistoryStep

\* The runner is told to activate the fault at most once and to withdraw it at
\* most once, after that (_tick_baselining and _tick_observing).
THEOREM FaultRequestedAndWithdrawnOnce == Spec => EachActionOnce
<1>1. IInv /\ [Next]_vars => [ActionStep]_vars
  BY StepsActOnce
<1>2. Spec => [][ActionStep]_vars
  BY <1>1, Invariance, PTL DEF Spec
<1> QED
  BY <1>2 DEF EachActionOnce, ActionStep

-----------------------------------------------------------------------------
(* The run. *)

\* Where run_trial is in which phase.
Places ==
    /\ pc = "begin" => state = "created"
    /\ pc \in {"await", "ready?"} =>
            state = "starting" /\ readyBy = startingSince + scenario.readiness
    /\ pc \in {"spin", "tick"} => state \in {"baselining", "activating", "observing"}
    /\ pc = "drain" => state = "finalizing"
    /\ pc = "done" => state = "finished"

\* The last loop ends long enough after the observation.
Drained ==
    activation # NoTime /\ ~failed =>
        /\ pc = "drain" => drainUntil >= activation + scenario.observation + Drain
        /\ pc = "done" => clock >= activation + scenario.observation + Drain

\* What the node has applied and acknowledged is what it was asked.
Applied ==
    /\ activationRequested = NoTime => revision = 0 /\ ~faulty /\ acks = <<>>
    /\ activationRequested # NoTime /\ deactivationRequested = NoTime =>
            revision = 1 /\ faulty /\ acks \in {<<>>, <<1>>}
    /\ deactivationRequested # NoTime => revision = 2 /\ ~faulty

Verdicts ==
    verdict = "judged" => pc = "done" /\ ~failed /\ activation # NoTime

RInv ==
    /\ IInv /\ RunTypeOK /\ Places /\ Drained /\ Applied /\ Verdicts
    /\ FailureIsATimeout

LEMMA RunInitEstablishes == RunInit => RInv
<1> SUFFICES ASSUME RunInit PROVE RInv
  OBVIOUS
<1>1. IInv
  BY InitEstablishes DEF RunInit
<1>2. RunTypeOK
  <2>1. TypeOK
    BY <1>1 DEF IInv
  <2>2. readyBy \in Times /\ drainUntil \in Times
    BY DEF RunInit, Times
  <2>3. seen \subseteq Streams /\ revision \in 0..2
    BY DEF RunInit
  <2>4. faulty \in BOOLEAN
    BY DEF RunInit
  <2> QED
    BY <2>1, <2>2, <2>3, <2>4 DEF RunInit, RunTypeOK
<1>3. Places /\ Verdicts
  BY DEF RunInit, Init, Places, Verdicts
<1>4. Drained /\ Applied /\ FailureIsATimeout
  BY DEF RunInit, Init, Drained, Applied, FailureIsATimeout
<1> QED
  BY <1>1, <1>2, <1>3, <1>4 DEF RInv

-----------------------------------------------------------------------------
(* The runner's steps. *)

\* A spin tells the lifecycle of an acknowledgement at most.
LEMMA SpinEffect ==
    ASSUME RInv, SpinOnce, UNCHANGED <<node, readyBy, drainUntil, verdict>>
    PROVE  /\ IInv' /\ clock' = clock /\ seen' \subseteq Streams
           /\ acks' \in {<<>>, <<1>>, <<2>>, <<1, 2>>} /\ Applied'
           /\ UNCHANGED <<scenario, failed, startingSince, baselineStart,
                          activationRequested, deactivationRequested>>
           /\ \/ UNCHANGED <<state, activation>>
              \/ /\ state = "activating" /\ state' = "observing"
                 /\ activation' = clock
<1> USE DEF node
<1>1. CASE OnOdometry \/ OnOther
  <2>1. UNCHANGED vars /\ acks' = acks /\ seen' \subseteq Streams
    BY <1>1 DEF OnOdometry, OnOther, RInv, RunTypeOK
  <2>2. IInv'
    BY <2>1, OnlyTimePasses DEF vars, RInv, IInv, TypeOK
  <2> QED
    BY <2>1, <2>2 DEF vars, lifecycle, times, RInv, RunTypeOK, Applied
<1>2. CASE OnApplied
  <2>1. /\ acks # <<>> /\ OnConfigApplied(Head(acks), clock)
        /\ acks' = Tail(acks) /\ seen' = seen
    BY <1>2 DEF OnApplied
  <2>2. IInv' /\ clock' = clock
    BY <2>1, CallKeeps DEF RInv, IInv, TypeOK, OnConfigApplied, Return
  <2>3. /\ UNCHANGED <<scenario, failed, startingSince, baselineStart,
                       activationRequested, deactivationRequested>>
        /\ \/ UNCHANGED <<state, activation>>
           \/ /\ state = "activating" /\ state' = "observing"
              /\ activation' = clock
    BY <2>1 DEF OnConfigApplied, Awaits, Observe, Return, times
  <2>4. acks' \in {<<>>, <<2>>}
    <3>1. acks \in {<<1>>, <<2>>, <<1, 2>>}
      BY <2>1 DEF RInv, RunTypeOK
    <3>2. Tail(<<1>>) = <<>> /\ Tail(<<2>>) = <<>> /\ Tail(<<1, 2>>) = <<2>>
      OBVIOUS
    <3> QED
      BY <2>1, <3>1, <3>2
  <2>5. Applied'
    BY <2>1, <2>3, <2>4 DEF RInv, Applied
  <2> QED
    BY <2>1, <2>2, <2>3, <2>4, <2>5 DEF RInv, RunTypeOK
<1> QED
  BY <1>1, <1>2 DEF SpinOnce

LEMMA AwaitKeeps == ASSUME RInv, Await PROVE RInv'
<1>1. /\ pc = "await" /\ pc' = "ready?" /\ SpinOnce
      /\ UNCHANGED <<readyBy, drainUntil, node, verdict>>
  BY DEF Await
<1>2. state = "starting" /\ state' = state /\ activation' = activation
  BY <1>1, SpinEffect DEF RInv, Places
<1>3. RunTypeOK'
  BY <1>1, SpinEffect DEF RInv, RunTypeOK, IInv, node
<1> QED
  BY <1>1, <1>2, <1>3, SpinEffect
     DEF RInv, Places, Drained, Verdicts, FailureIsATimeout, Ended

LEMMA SpinKeeps == ASSUME RInv, Spin PROVE RInv'
<1>1. /\ pc = "spin" /\ pc' = "tick" /\ SpinOnce
      /\ UNCHANGED <<readyBy, drainUntil, node, verdict>>
  BY DEF Spin
<1>2. ~failed
  BY <1>1 DEF RInv, Places, IInv, Phases, Over
<1>3. RunTypeOK'
  BY <1>1, SpinEffect DEF RInv, RunTypeOK, IInv, node
<1> QED
  BY <1>1, <1>2, <1>3, SpinEffect
     DEF RInv, Places, Drained, Verdicts, FailureIsATimeout

LEMMA DrainOnceKeeps == ASSUME RInv, DrainOnce PROVE RInv'
<1>1. /\ pc = "drain" /\ SpinOnce
      /\ UNCHANGED <<pc, readyBy, drainUntil, node, verdict>>
  BY DEF DrainOnce
<1>2. state = "finalizing" /\ state' = state /\ activation' = activation
  BY <1>1, SpinEffect DEF RInv, Places
<1>3. RunTypeOK'
  BY <1>1, SpinEffect DEF RInv, RunTypeOK, IInv, node
<1> QED
  BY <1>1, <1>2, <1>3, SpinEffect
     DEF RInv, Places, Drained, Verdicts, FailureIsATimeout

LEMMA ElapseKeeps == ASSUME RInv, Elapse PROVE RInv'
<1>1. /\ pc \notin Ended /\ clock' = clock + 1
      /\ UNCHANGED <<lifecycle, action, raised, run>> /\ clock \in Nat
  BY DEF Elapse, RInv, IInv, TypeOK
<1>2. IInv'
  BY <1>1, OnlyTimePasses DEF RInv, IInv, TypeOK
<1>3. RunTypeOK'
  BY <1>1, <1>2 DEF RInv, RunTypeOK, IInv, run, node
<1>4. Places' /\ Applied' /\ Verdicts'
  BY <1>1 DEF RInv, Places, Applied, Verdicts, lifecycle, times, run, node
<1>5. Drained'
  BY <1>1 DEF RInv, Drained, lifecycle, times, run, Ended
<1>6. FailureIsATimeout'
  BY <1>1, ScenarioFields
     DEF RInv, IInv, TypeOK, Times, NoTime, FailureIsATimeout, lifecycle, times
<1> QED
  BY <1>2, <1>3, <1>4, <1>5, <1>6 DEF RInv

LEMMA AbortKeeps == ASSUME RInv, Abort PROVE RInv'
<1>1. /\ pc' = "aborted" /\ verdict' = "infrastructure"
      /\ UNCHANGED <<vars, readyBy, drainUntil, seen, node, acks>>
  BY DEF Abort
<1>2. IInv'
  BY <1>1, OnlyTimePasses DEF vars, RInv, IInv, TypeOK
<1>3. RunTypeOK'
  BY <1>1, <1>2 DEF RInv, RunTypeOK, IInv, node, Ended
<1> QED
  BY <1>1, <1>2, <1>3 DEF RInv, Places, Drained, Applied, Verdicts, FailureIsATimeout,
       vars, lifecycle, times, node

LEMMA BeginKeeps == ASSUME RInv, Begin PROVE RInv'
<1>1. /\ pc = "begin" /\ Start(clock) /\ pc' = "await"
      /\ readyBy' = clock + scenario.readiness
      /\ UNCHANGED <<drainUntil, seen, node, acks, verdict>>
  BY DEF Begin
<1>2. IInv'
  BY <1>1, CallKeeps DEF RInv, IInv, TypeOK
<1>3. RunTypeOK'
  BY <1>1, <1>2, ScenarioFields DEF RInv, RunTypeOK, IInv, TypeOK, Times, node
<1>4. ~failed /\ activation = NoTime
  BY <1>1 DEF Start, RInv, IInv, Phases, Over
<1> QED
  BY <1>1, <1>2, <1>3, <1>4 DEF Start, Return, RInv, Places, Drained, Applied, Verdicts,
       FailureIsATimeout, node

LEMMA CheckReadyKeeps == ASSUME RInv, CheckReady PROVE RInv'
<1>1. /\ pc = "ready?" /\ UNCHANGED <<readyBy, seen, node, acks, verdict>>
      /\ state = "starting" /\ readyBy = startingSince + scenario.readiness
  BY DEF CheckReady, RInv, Places
<1>2. baselineStart = NoTime /\ activation = NoTime /\ ~failed
  BY <1>1 DEF RInv, IInv, Phases, Over
<1>3. CASE MarkReady(clock) /\ pc' = "spin" /\ UNCHANGED drainUntil
  <2>1. IInv'
    BY <1>3, CallKeeps DEF RInv, IInv, TypeOK
  <2>2. RunTypeOK'
    BY <1>1, <1>3, <2>1 DEF RInv, RunTypeOK, IInv, node
  <2> QED
    BY <1>1, <1>2, <1>3, <2>1, <2>2 DEF MarkReady, Return, RInv, Places, Drained,
         Applied, Verdicts, FailureIsATimeout, node
<1>4. CASE clock >= readyBy /\ Fail(clock) /\ EnterDrain
  <2>1. IInv'
    BY <1>4, CallKeeps DEF RInv, IInv, TypeOK
  <2>2. RunTypeOK'
    BY <1>1, <1>4, <2>1, RunAssumption
       DEF RInv, RunTypeOK, IInv, TypeOK, Times, node, EnterDrain
  <2>3. FailureIsATimeout'
    BY <1>1, <1>2, <1>4, ScenarioFields
       DEF Fail, Return, times, FailureIsATimeout, RInv, IInv, AssertionsHold, TypeOK,
           Times, NoTime
  <2> QED
    BY <1>1, <1>2, <1>4, <2>1, <2>2, <2>3 DEF Fail, Return, times, EnterDrain, RInv,
         Places, Drained, Applied, Verdicts, node
<1>5. CASE pc' = "await" /\ UNCHANGED <<vars, drainUntil>>
  <2>1. IInv'
    BY <1>5, OnlyTimePasses DEF vars, RInv, IInv, TypeOK
  <2>2. RunTypeOK'
    BY <1>1, <1>5, <2>1 DEF RInv, RunTypeOK, IInv, node
  <2> QED
    BY <1>1, <1>5, <2>1, <2>2 DEF RInv, Places, Drained, Applied, Verdicts,
         FailureIsATimeout, vars, lifecycle, times, node
<1> QED
  BY <1>3, <1>4, <1>5 DEF CheckReady

\* What a tick does, by its outcome.
LEMMA TickKeeps == ASSUME RInv, TickLifecycle PROVE RInv'
<1>1. /\ pc = "tick" /\ Tick(clock) /\ UNCHANGED <<readyBy, seen, verdict>>
      /\ state \in {"baselining", "activating", "observing"} /\ ~failed
  BY DEF TickLifecycle, RInv, Places, IInv, Phases, Over
<1>2. IInv' /\ clock' = clock /\ clock \in Nat
  BY <1>1, CallKeeps DEF RInv, IInv, TypeOK, Tick, TickTimeout, Fail, TickObserve,
       TickActivate, TickDeactivate, TickFinish, TickIdle, Return
<1>3. CASE TickTimeout(clock)
  <2>1. /\ AckOverdue(clock) /\ state' = "finalizing" /\ failed'
        /\ action' = "finish_trial" /\ UNCHANGED <<times, scenario>>
    BY <1>1, <1>3 DEF TickTimeout, ReadinessDue, Fail, Return
  <2>2. EnterDrain /\ UNCHANGED <<node, acks>>
    BY <2>1 DEF TickLifecycle
  <2>3. RunTypeOK'
    BY <1>1, <1>2, <2>2, RunAssumption
       DEF RInv, RunTypeOK, IInv, Times, node, EnterDrain
  <2>4. FailureIsATimeout'
    BY <1>2, <2>1 DEF AckOverdue, FailureIsATimeout, times, RInv, IInv, Phases,
         AssertionsHold, Over
  <2> QED
    BY <1>1, <1>2, <2>1, <2>2, <2>3, <2>4 DEF EnterDrain, RInv, Places, Drained, Applied,
         Verdicts, times, node
<1>4. CASE TickActivate(clock)
  <2>1. /\ state = "baselining" /\ state' = "activating" /\ activationRequested' = clock
        /\ action' = "activate_fault"
        /\ UNCHANGED <<scenario, startingSince, baselineStart, activation,
                       deactivationRequested, failed>>
    BY <1>4 DEF TickActivate, BaselineDue, Return
  <2>2. Apply(FaultApplied, ActivationRevision) /\ pc' = "spin" /\ UNCHANGED drainUntil
    BY <2>1 DEF TickLifecycle
  <2>3. activationRequested = NoTime /\ activation = NoTime /\ deactivationRequested = NoTime
    BY <2>1 DEF RInv, IInv, Phases, Over
  <2>4. revision' = 1 /\ faulty' /\ acks' \in {<<>>, <<1>>}
    BY <2>2, <2>3 DEF Apply, FaultApplied, ActivationRevision, RInv, Applied
  <2>5. RunTypeOK'
    BY <1>1, <1>2, <2>2, <2>4 DEF RInv, RunTypeOK, IInv, Apply, FaultApplied
  <2>6. Applied'
    BY <1>2, <2>1, <2>3, <2>4 DEF Applied, NoTime
  <2> QED
    BY <1>1, <1>2, <2>1, <2>2, <2>3, <2>5, <2>6 DEF RInv, Places, Drained, Verdicts,
         FailureIsATimeout
<1>5. CASE TickDeactivate(clock)
  <2>1. /\ state = "observing" /\ state' = state /\ deactivationRequested = NoTime
        /\ ~scenario.healthy /\ deactivationRequested' = clock
        /\ action' = "deactivate_fault"
        /\ UNCHANGED <<scenario, startingSince, baselineStart, activationRequested,
                       activation, failed>>
    BY <1>5 DEF TickDeactivate, DeactivationDue, Return
  <2>2. Apply(FALSE, ActivationRevision + 1) /\ pc' = "spin" /\ UNCHANGED drainUntil
    BY <2>1 DEF TickLifecycle
  <2>3. activationRequested # NoTime
    BY <2>1 DEF RInv, IInv, AssertionsHold, ActivationFollowsRequest
  <2>4. revision' = 2 /\ acks' \in {<<>>, <<1>>, <<2>>, <<1, 2>>}
    <3>1. acks \in {<<>>, <<1>>} /\ acks' \in {acks, Append(acks, 2)} /\ revision' = 2
      BY <2>1, <2>2, <2>3 DEF Apply, ActivationRevision, RInv, Applied
    <3>2. CASE acks = <<>>
      <4>1. Append(<<>>, 2) = <<2>>
        OBVIOUS
      <4> QED
        BY <3>1, <3>2, <4>1
    <3>3. CASE acks = <<1>>
      <4>1. Append(<<1>>, 2) = <<1, 2>>
        <5>1. <<1>> \in Seq(Nat) /\ <<1, 2>> \in Seq(Nat) /\ Append(<<1>>, 2) \in Seq(Nat)
          OBVIOUS
        <5>2. Len(Append(<<1>>, 2)) = 2 /\ Len(<<1, 2>>) = 2
          OBVIOUS
        <5>3. \A i \in 1..2 : Append(<<1>>, 2)[i] = <<1, 2>>[i]
          OBVIOUS
        <5> QED
          BY <5>1, <5>2, <5>3, SeqEqual
      <4> QED
        BY <3>1, <3>3, <4>1
    <3> QED
      BY <3>1, <3>2, <3>3
  <2>5. faulty' = FALSE
    BY <2>2 DEF Apply
  <2>6. faulty' \in BOOLEAN
    BY <2>5, Zenon
  <2>7. RunTypeOK'
    BY <1>1, <1>2, <2>2, <2>4, <2>6 DEF RInv, RunTypeOK, IInv
  <2>8. Applied'
    BY <1>2, <2>1, <2>3, <2>4, <2>5 DEF Applied, NoTime
  <2> QED
    BY <1>1, <1>2, <2>1, <2>2, <2>7, <2>8 DEF RInv, Places, Drained, Verdicts,
         FailureIsATimeout
<1>6. CASE TickFinish(clock)
  <2>1. /\ state = "observing" /\ state' = "finalizing"
        /\ action' = "finish_trial" /\ UNCHANGED <<times, scenario, failed>>
    BY <1>6 DEF TickFinish, FinishDue, Return
  <2>2. EnterDrain /\ UNCHANGED <<node, acks>>
    BY <2>1 DEF TickLifecycle
  <2>3. RunTypeOK'
    BY <1>1, <1>2, <2>2, RunAssumption
       DEF RInv, RunTypeOK, IInv, Times, node, EnterDrain
  <2>4. clock >= activation + scenario.observation
    BY <1>1, <1>2, <2>1 DEF IInv, FullObservation, Over, times
  <2>5. Drained'
    BY <1>1, <1>2, <2>1, <2>2, <2>4, RunAssumption, ScenarioFields
       DEF Drained, EnterDrain, times, RInv, IInv, TypeOK, Times, NoTime
  <2> QED
    BY <1>1, <1>2, <2>1, <2>2, <2>3, <2>5 DEF EnterDrain, RInv, Places, Applied,
         Verdicts, FailureIsATimeout, times, node
<1>7. CASE TickObserve(clock) \/ TickIdle(clock)
  <2>1. /\ action' = "none" /\ state' \in {"baselining", "activating", "observing"}
        /\ UNCHANGED <<scenario, startingSince, baselineStart, activationRequested,
                       deactivationRequested, failed>>
    BY <1>1, <1>7 DEF TickObserve, TickIdle, Observe, Return, times
  <2>2. pc' = "spin" /\ UNCHANGED <<node, acks, drainUntil>>
    BY <2>1 DEF TickLifecycle
  <2>3. RunTypeOK'
    BY <1>1, <1>2, <2>2 DEF RInv, RunTypeOK, IInv, node
  <2> QED
    BY <1>1, <1>2, <2>1, <2>2, <2>3 DEF RInv, Places, Drained, Applied, Verdicts,
         FailureIsATimeout, node
<1> QED
  BY <1>1, <1>3, <1>4, <1>5, <1>6, <1>7 DEF Tick

LEMMA ConcludeKeeps == ASSUME RInv, Conclude PROVE RInv'
<1>1. /\ pc = "drain" /\ clock >= drainUntil /\ pc' = "done" /\ Finish(clock)
      /\ verdict' = IF failed \/ activation = NoTime THEN "infrastructure" ELSE "judged"
      /\ UNCHANGED <<readyBy, drainUntil, seen, node, acks>>
  BY DEF Conclude, RInv, Places
<1>2. IInv'
  BY <1>1, CallKeeps DEF RInv, IInv, TypeOK
<1>3. /\ clock' = clock /\ state' = "finished"
      /\ UNCHANGED <<times, scenario, failed>>
  BY <1>1 DEF Finish, Return
<1>4. RunTypeOK'
  BY <1>1, <1>2 DEF RInv, RunTypeOK, IInv, node, Ended
<1>5. Drained'
  BY <1>1, <1>3, RunAssumption, ScenarioFields
     DEF RInv, Drained, times, IInv, TypeOK, RunTypeOK, Times, NoTime
<1> QED
  BY <1>1, <1>2, <1>3, <1>4, <1>5 DEF RInv, Places, Applied, Verdicts,
       FailureIsATimeout, times, node

LEMMA RunNextKeeps == RInv /\ [RunNext]_runVars => RInv'
<1> SUFFICES ASSUME RInv, [RunNext]_runVars PROVE RInv'
  OBVIOUS
<1>1. CASE UNCHANGED runVars
  <2>1. IInv'
    BY <1>1, OnlyTimePasses DEF runVars, vars, RInv, IInv, TypeOK
  <2> QED
    BY <1>1, <2>1 DEF runVars, run, node, vars, lifecycle, times, RInv, RunTypeOK, IInv,
         Places, Drained, Applied, Verdicts, FailureIsATimeout
<1>2. CASE RunNext
  BY <1>2, BeginKeeps, AwaitKeeps, CheckReadyKeeps, SpinKeeps, TickKeeps,
     DrainOnceKeeps, ConcludeKeeps, AbortKeeps, ElapseKeeps
     DEF RunNext, Runner
<1> QED
  BY <1>1, <1>2

\* Runner, node and lifecycle agree on what was asked for and done.
THEOREM RunInvariance == RunSpec => []RInv
BY RunInitEstablishes, RunNextKeeps, PTL DEF RunSpec

-----------------------------------------------------------------------------
(* What follows. *)

\* The runner and the lifecycle keep their types, and acknowledgements stay in
\* the order of their revisions.
THEOREM RunTypeCorrect == RunSpec => []RunTypeOK
<1>1. RInv => RunTypeOK
  BY DEF RInv
<1> QED
  BY <1>1, RunInvariance, PTL

\* run_trial evaluates assertions only on a trial that observed for its whole
\* time, whose fault was in force and is withdrawn.
THEOREM JudgementIsFounded == RunSpec => []JudgedOnFullEvidence
<1>1. RInv => JudgedOnFullEvidence
  <2> SUFFICES ASSUME RInv, verdict = "judged" PROVE JudgedOnFullEvidence
    BY DEF JudgedOnFullEvidence
  <2>1. pc = "done" /\ state = "finished" /\ ~failed /\ activation # NoTime
    BY DEF RInv, Verdicts, Places
  <2>2. clock >= activation + scenario.observation + Drain
    BY <2>1 DEF RInv, Drained
  <2>3. scenario.healthy => activationRequested = NoTime
    BY DEF RInv, IInv, Phases
  <2>4. ~scenario.healthy => deactivationRequested # NoTime
    BY <2>1 DEF RInv, IInv, DeactivatedBeforeFinish, Over
  <2>5. revision = (IF scenario.healthy THEN 0 ELSE ActivationRevision + 1) /\ ~faulty
    BY <2>3, <2>4 DEF RInv, Applied, ActivationRevision
  <2> QED
    BY <2>1, <2>2, <2>5 DEF JudgedOnFullEvidence
<1> QED
  BY <1>1, RunInvariance, PTL

\* Between the acknowledgement and the request to withdraw it the node's fault is
\* in force, whatever acknowledgements are late or lost.
THEOREM AcknowledgedIsInForce == RunSpec => []ObservedFaultIsInForce
<1>1. RInv => ObservedFaultIsInForce
  BY DEF RInv, Applied, IInv, AssertionsHold, ActivationFollowsRequest,
       ObservedFaultIsInForce
<1> QED
  BY <1>1, RunInvariance, PTL

\* When run_trial returns its lifecycle is finished and stays so.
THEOREM ReturnsFinished == RunSpec => []DoneIsFinished
<1>1. RInv => DoneIsFinished
  BY DEF RInv, Places, DoneIsFinished
<1> QED
  BY <1>1, RunInvariance, PTL

\* A trial is failed for one of the two timeouts, never for an acknowledgement
\* that came in time.
THEOREM FailsByTimeoutOnly == RunSpec => []FailureIsATimeout
<1>1. RInv => FailureIsATimeout
  BY DEF RInv
<1> QED
  BY <1>1, RunInvariance, PTL
=============================================================================
