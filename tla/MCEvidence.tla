----------------------------- MODULE MCEvidence -----------------------------
(***************************************************************************)
(* Evidence of a trial whose fault was activated one tick into it and that *)
(* observed for four more.                                                 *)
(***************************************************************************)
EXTENDS Evidence

SmallTimelines == {[baselineStart |-> 0, activation |-> 1, observationDeadline |-> 5]}
=============================================================================
