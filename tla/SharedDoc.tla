----------------------------- MODULE SharedDoc -----------------------------
(***************************************************************************)
(* What the Collab Service promises about the content of one session's     *)
(* document, whatever messages are lost and whichever pods crash: every    *)
(* pod's replica and the stored copy hold edits that clients made and      *)
(* nothing else, and a replica forgets only all at once, when its pod      *)
(* restarts.  DocSync implements it.                                       *)
(***************************************************************************)
CONSTANTS Pod, Op

VARIABLES
    issued,   \* the edits clients have made
    replica,  \* the edits each pod's document holds
    stored    \* the edits the hot snapshot holds

vars == <<issued, replica, stored>>

Init == /\ issued = {}
        /\ replica = [p \in Pod |-> {}]
        /\ stored = {}

Edit(p, o) ==
    /\ issued' = issued \cup {o}
    /\ replica' = [replica EXCEPT ![p] = @ \cup {o}]
    /\ UNCHANGED stored

Learn(p) ==
    /\ \E S \in SUBSET issued : replica' = [replica EXCEPT ![p] = @ \cup S]
    /\ UNCHANGED <<issued, stored>>

Store ==
    /\ stored' \in SUBSET issued
    /\ UNCHANGED <<issued, replica>>

Forget(p) ==
    /\ replica' = [replica EXCEPT ![p] = {}]
    /\ UNCHANGED <<issued, stored>>

Next == \/ \E p \in Pod : Learn(p) \/ Forget(p) \/ \E o \in Op : Edit(p, o)
        \/ Store

Spec == Init /\ [][Next]_vars
=============================================================================
