-------------------------- MODULE MCScenarioRules --------------------------
(***************************************************************************)
(* Values on both sides of every boundary.                                 *)
(***************************************************************************)
EXTENDS ScenarioRules

SomeSeconds == 0..2
SomePercents == {-1, 0, 100, 101}
SomeAmounts == {0, 1, 3}
=============================================================================
