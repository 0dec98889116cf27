---------------------------- MODULE MCJobControl ----------------------------
(* JobControl on small instances, for TLC: the configurations give each    *)
(* thread and each job a model value, and bound the tools that are called. *)
EXTENDS JobControl
=============================================================================
