----------------------------- MODULE MCTrialRun -----------------------------
(***************************************************************************)
(* Small trials: a healthy one, one whose fault ends with the observation, *)
(* and one whose fault ends before it.                                     *)
(***************************************************************************)
EXTENDS TrialRun

SmallScenarios ==
    {[healthy |-> TRUE, readiness |-> 2, baseline |-> 1, duration |-> 0, observation |-> 2],
     [healthy |-> FALSE, readiness |-> 2, baseline |-> 1, duration |-> 2, observation |-> 2],
     [healthy |-> FALSE, readiness |-> 1, baseline |-> 2, duration |-> 1, observation |-> 3]}
=============================================================================
