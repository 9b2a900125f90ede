----------------------------- MODULE MCPresence -----------------------------
(* Instances of Presence for TLC. *)
EXTENDS Presence
CONSTANTS c1, c2, p1, p2, ann, bob

\* Two connections of one user on one pod, of one user on two pods, and of two
\* users on two pods.
SameOrOther ==
    {[c \in Conn |-> [user |-> IF c = c1 THEN ann ELSE u,
                      pod |-> IF c = c1 THEN p1 ELSE p]] :
        <<u, p>> \in {<<ann, p1>>, <<ann, p2>>, <<bob, p2>>}}
=============================================================================
