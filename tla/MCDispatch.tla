----------------------------- MODULE MCDispatch -----------------------------
(* Dispatch on small sets of drivers, for TLC.                             *)
EXTENDS Dispatch, TLC

CONSTANTS d1, d2, d3

DriversOnly == Permutations(Drivers)
=============================================================================
