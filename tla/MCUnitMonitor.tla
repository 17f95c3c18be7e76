---------------------------- MODULE MCUnitMonitor ----------------------------
(***************************************************************************)
(* Values for model checking UnitMonitor: a unit that the filters let      *)
(* through, and one that they refuse.                                      *)
(***************************************************************************)
EXTENDS UnitMonitor

CONSTANTS a, b

OneUnit == {a}
TwoUnits == {a, b}

=============================================================================
