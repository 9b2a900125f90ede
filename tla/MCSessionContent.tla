-------------------------- MODULE MCSessionContent --------------------------
(* Instances of SessionContent for TLC. *)
EXTENDS SessionContent, TLC

CONSTANTS p1, k1, k2

\* Two clients of one pod.
OnePod == k1 :> p1 @@ k2 :> p1

\* One edits, the other, who owns the session, closes it.
EditAndClose == k1 :> {"update"} @@ k2 :> {"close"}
BothChange == k1 :> {"change"} @@ k2 :> {"change"}
=============================================================================
