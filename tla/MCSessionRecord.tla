--------------------------- MODULE MCSessionRecord ---------------------------
(* Instances of SessionRecord for TLC. *)
EXTENDS SessionRecord, TLC

CONSTANTS s1, k1, k2, ann, bob, c1

\* Ann owns the sessions.
AnnAndBob == k1 :> ann @@ k2 :> bob
=============================================================================
