---------------------------- MODULE MCClosedLoop ----------------------------
(***************************************************************************)
(* A small loop with one fault of every kind the watchdog is to notice by  *)
(* age, and a delay that it is to tolerate.                                *)
(***************************************************************************)
EXTENDS ClosedLoop

Fault(type, percent, delay) ==
    [enabled |-> TRUE, faultType |-> type, dropPercent |-> percent,
     delay |-> delay, jitter |-> 0, seed |-> 0]

SmallFaults ==
    {Fault("stale", 0, 0), Fault("dropout", 100, 0), Fault("latency", 0, 4),
     Fault("latency", 0, 1)}
=============================================================================
