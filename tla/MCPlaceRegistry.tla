-------------------------- MODULE MCPlaceRegistry --------------------------
(* PlaceRegistry on small instances, for TLC: one house, one place taught, *)
(* and the maps that a boot, a wipe and a reset start from nothing.        *)
EXTENDS PlaceRegistry
=============================================================================
