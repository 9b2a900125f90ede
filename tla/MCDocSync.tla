----------------------------- MODULE MCDocSync -----------------------------
(* Instances of DocSync for TLC. *)
EXTENDS DocSync, TLC

CONSTANTS p1, p2, a, b
=============================================================================
