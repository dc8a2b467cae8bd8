--------------------------- MODULE MCGovernedTask ---------------------------
(* Instances of GovernedTask for TLC. *)
EXTENDS GovernedTask, TLC
=============================================================================
