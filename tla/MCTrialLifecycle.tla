-------------------------- MODULE MCTrialLifecycle --------------------------
(***************************************************************************)
(* TrialLifecycle for a caller that may do anything in any order, with     *)
(* scenarios in which the fault ends before, and exactly with, the         *)
(* observation.                                                            *)
(***************************************************************************)
EXTENDS TrialLifecycle

Scenario(h, r, b, d, o) ==
    [healthy |-> h, readiness |-> r, baseline |-> b, duration |-> d,
     observation |-> o]

SmallScenarios ==
    {Scenario(TRUE, 2, 1, 0, 2), Scenario(FALSE, 1, 0, 0, 0),
     Scenario(FALSE, 2, 1, 1, 3),
     Scenario(FALSE, 3, 2, 2, 2)}
=============================================================================
