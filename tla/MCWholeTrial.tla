---------------------------- MODULE MCWholeTrial ----------------------------
(***************************************************************************)
(* A trial of each fault that hides the robot, of a delay that is to be    *)
(* tolerated, and of no fault.                                             *)
(***************************************************************************)
EXTENDS WholeTrial

Fault(type, percent, delay) ==
    [enabled |-> TRUE, faultType |-> type, dropPercent |-> percent,
     delay |-> delay, jitter |-> 0, seed |-> 0]

SmallFaults ==
    {Fault("stale", 0, 0), Fault("dropout", 100, 0), Fault("latency", 0, 5),
     Fault("latency", 0, 2)}
=============================================================================
