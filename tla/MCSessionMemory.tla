--------------------------- MODULE MCSessionMemory ---------------------------
(* Instances of SessionMemory for TLC: the sockets of each run. *)
EXTENDS SessionMemory, TLC

CONSTANTS p1, p2, k1, k2, ann, bob

\* Two clients, on a pod each or on one pod.
TwoPods == k1 :> p1 @@ k2 :> p2
OnePod == k1 :> p1 @@ k2 :> p1
AnnAndBob == k1 :> ann @@ k2 :> bob
\* Two connections of one user.
AnnTwice == k1 :> ann @@ k2 :> ann
\* Two users who are alike, named by their connections.
Themselves == k1 :> k1 @@ k2 :> k2
Alike == Permutations({k1, k2})
=============================================================================
