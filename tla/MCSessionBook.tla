--------------------------- MODULE MCSessionBook ---------------------------
(* SessionBook on small instances, for TLC: one house, the default's name, *)
(* and the maps a power-on starts from nothing.                            *)
EXTENDS SessionBook
=============================================================================
