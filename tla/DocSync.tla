------------------------------ MODULE DocSync ------------------------------
(***************************************************************************)
(* How the pods that hold one session keep their copies of the document in *)
(* step: updateDocument, the document's 'update' listener, the Redis       *)
(* subscription, and the persistence and healing loops of                  *)
(* services/session.service.ts.                                            *)
(*                                                                         *)
(* Every pod holds the session for the whole behaviour (loading and        *)
(* releasing it is SessionMemory).  A Yjs document is the set of client    *)
(* edits that were applied to it: applying is union, idempotent and        *)
(* commutative, and an update event fires only when the set grows.         *)
(***************************************************************************)
EXTENDS Integers, Sequences

CONSTANTS
    Pod,
    Op,           \* client edits; each is made once, on some pod
    Connected,    \* has RedisService.connect() attached the message listener?
    MaxSaves,     \* bound: saves of one pod in flight at the same time
    MaxLost,      \* bound: pub/sub messages lost
    MaxFaults,    \* bound: saves that Redis rejects
    MaxCrashes,   \* bound: pod crashes
    MaxExpiries   \* bound: expiries of the hot snapshot

ASSUME ConstantsAssumption ==
    /\ Connected \in BOOLEAN
    /\ MaxSaves \in Nat \ {0}
    /\ MaxLost \in Nat /\ MaxFaults \in Nat /\ MaxCrashes \in Nat
    /\ MaxExpiries \in Nat

VARIABLES
    issued,   \* the edits made so far
    doc,      \* content of each pod's document
    pending,  \* edits whose handler awaits its publish
    dirty,    \* isDirty of the pod's SessionLocalState
    saving,   \* encoded snapshots a pod has sent to Redis, oldest first
    hot,      \* content of the key session:snapshot, {} if there is none
    net,      \* pub/sub messages in flight
    lost, faults, crashes, expiries

budget == <<lost, faults, crashes, expiries>>
vars == <<issued, doc, pending, dirty, saving, hot, net, budget>>

Message == [to : Pod, ops : SUBSET Op]

TypeOK ==
    /\ issued \subseteq Op
    /\ doc \in [Pod -> SUBSET Op]
    /\ pending \in [Pod -> SUBSET Op]
    /\ dirty \in [Pod -> BOOLEAN]
    /\ saving \in [Pod -> Seq(SUBSET Op)]
    /\ hot \subseteq Op
    /\ net \subseteq Message
    /\ lost \in Nat /\ faults \in Nat /\ crashes \in Nat /\ expiries \in Nat

Init ==
    /\ issued = {} /\ hot = {} /\ net = {}
    /\ doc = [p \in Pod |-> {}] /\ pending = [p \in Pod |-> {}]
    /\ dirty = [p \in Pod |-> FALSE] /\ saving = [p \in Pod |-> <<>>]
    /\ lost = 0 /\ faults = 0 /\ crashes = 0 /\ expiries = 0

-----------------------------------------------------------------------------
\* Mutant of Publish: the update is wrapped twice.
PublishWrapped(S) == {[to |-> p, ops |-> {S}] : p \in Pod}

\* What publishing S sends: one message to every pod, the sender included.
Publish(S) == {[to |-> p, ops |-> S] : p \in Pod}

\* updateDocument applies a client's edit.  The document's update listener
\* publishes it at once; the handler publishes it too and awaits that.
Edit(p, o) ==
    /\ o \notin issued
    /\ issued' = issued \cup {o}
    /\ doc' = [doc EXCEPT ![p] = @ \cup {o}]
    /\ net' = net \cup Publish({o})
    /\ pending' = [pending EXCEPT ![p] = @ \cup {o}]
    /\ UNCHANGED <<dirty, saving, hot, budget>>

\* The handler's own publish is over; only now is the session marked dirty.
Published(p, o) ==
    /\ o \in pending[p]
    /\ net' = net \cup Publish({o})
    /\ pending' = [pending EXCEPT ![p] = @ \ {o}]
    /\ dirty' = [dirty EXCEPT ![p] = TRUE]
    /\ UNCHANGED <<issued, doc, saving, hot, budget>>

\* Mutant of Deliver: the message replaces the document.
DeliverReplaces(m) ==
    /\ m \in net
    /\ net' = net \ {m}
    /\ doc' = IF Connected THEN [doc EXCEPT ![m.to] = m.ops] ELSE doc
    /\ UNCHANGED <<issued, pending, dirty, saving, hot, budget>>

\* A message reaches a pod.  The listener that applies it is attached by
\* connect(); an update of origin 'redis' is not published again.
Deliver(m) ==
    /\ m \in net
    /\ net' = net \ {m}
    /\ doc' = IF Connected THEN [doc EXCEPT ![m.to] = @ \cup m.ops] ELSE doc
    /\ UNCHANGED <<issued, pending, dirty, saving, hot, budget>>

\* The persistence loop ticks: the document is encoded and sent.
SaveStart(p) ==
    /\ dirty[p]
    /\ Len(saving[p]) < MaxSaves
    /\ saving' = [saving EXCEPT ![p] = Append(@, doc[p])]
    /\ UNCHANGED <<issued, doc, pending, dirty, hot, net, budget>>

\* The oldest save is done; the flag is reset.
SaveDone(p) ==
    /\ saving[p] # <<>>
    /\ hot' = Head(saving[p])
    /\ saving' = [saving EXCEPT ![p] = Tail(@)]
    /\ dirty' = [dirty EXCEPT ![p] = FALSE]
    /\ UNCHANGED <<issued, doc, pending, net, budget>>

\* Redis rejects it; the flag stays.
SaveFails(p) ==
    /\ saving[p] # <<>>
    /\ faults < MaxFaults
    /\ faults' = faults + 1
    /\ saving' = [saving EXCEPT ![p] = Tail(@)]
    /\ UNCHANGED <<issued, doc, pending, dirty, hot, net, lost, crashes, expiries>>

\* Mutants of Heal: the snapshot replaces the document; it is published and
\* not applied; it is published although nothing was missing.
HealReplaces(p) ==
    /\ ~ hot \subseteq doc[p]
    /\ doc' = [doc EXCEPT ![p] = hot]
    /\ net' = net \cup Publish(hot \ doc[p])
    /\ UNCHANGED <<issued, pending, dirty, saving, hot, budget>>
HealForgets(p) ==
    /\ ~ hot \subseteq doc[p]
    /\ net' = net \cup Publish(hot \ doc[p])
    /\ UNCHANGED <<issued, doc, pending, dirty, saving, hot, budget>>
HealEchoes(p) ==
    /\ hot # {}
    /\ doc' = [doc EXCEPT ![p] = @ \cup hot]
    /\ net' = net \cup Publish(hot)
    /\ UNCHANGED <<issued, pending, dirty, saving, hot, budget>>

\* The healing loop applies the hot snapshot.  What was missing is published
\* ('healing' is not among the guarded origins); the flag is left alone.
Heal(p) ==
    /\ ~ hot \subseteq doc[p]
    /\ doc' = [doc EXCEPT ![p] = @ \cup hot]
    /\ net' = net \cup Publish(hot \ doc[p])
    /\ UNCHANGED <<issued, pending, dirty, saving, hot, budget>>

-----------------------------------------------------------------------------
\* Redis pub/sub delivers at most once; a publish that fails in the update
\* listener is only logged.
Lose(m) ==
    /\ m \in net
    /\ lost < MaxLost
    /\ lost' = lost + 1
    /\ net' = net \ {m}
    /\ UNCHANGED <<issued, doc, pending, dirty, saving, hot, faults, crashes,
                   expiries>>

\* A pod crashes (the handler's publish rejecting is enough: nobody catches
\* it) and loads the session again, from MongoDB, where nothing was saved yet.
Crash(p) ==
    /\ crashes < MaxCrashes
    /\ crashes' = crashes + 1
    /\ doc' = [doc EXCEPT ![p] = {}]
    /\ pending' = [pending EXCEPT ![p] = {}]
    /\ dirty' = [dirty EXCEPT ![p] = FALSE]
    /\ saving' = [saving EXCEPT ![p] = <<>>]
    /\ net' = {m \in net : m.to # p}
    /\ UNCHANGED <<issued, hot, lost, faults, expiries>>

\* 86400 seconds after the last save the key is gone.
Expire ==
    /\ hot # {}
    /\ expiries < MaxExpiries
    /\ expiries' = expiries + 1
    /\ hot' = {}
    /\ UNCHANGED <<issued, doc, pending, dirty, saving, net, lost, faults, crashes>>

-----------------------------------------------------------------------------
Next ==
    \/ \E p \in Pod : \/ \E o \in Op : Edit(p, o) \/ Published(p, o)
                      \/ SaveStart(p) \/ SaveDone(p) \/ SaveFails(p)
                      \/ Heal(p) \/ Crash(p)
    \/ \E m \in net : Deliver(m) \/ Lose(m)
    \/ Expire

Spec == Init /\ [][Next]_vars

\* Redis answers and delivers, and the intervals tick.  Clients need not edit.
Fairness ==
    /\ \A p \in Pod : /\ \A o \in Op : WF_vars(Published(p, o))
                      /\ WF_vars(SaveStart(p)) /\ WF_vars(SaveDone(p))
                      /\ WF_vars(Heal(p))
    /\ \A m \in Message : WF_vars(Deliver(m))

FairSpec == Spec /\ Fairness

-----------------------------------------------------------------------------
(* Safety. *)

\* The pods never make an edit up, and a document forgets only when its pod
\* restarts: the service's copies implement SharedDoc.
Shared == INSTANCE SharedDoc WITH replica <- doc, stored <- hot
ImplementsSharedDoc == Shared!Spec

\* Nothing is on its way: no message in flight, no handler waiting.
AtRest == net = {} /\ \A p \in Pod : pending[p] = {}

\* With the listener attached, no message lost and no pod crashed, every pod
\* holds every edit as soon as the pods are at rest, whatever the saves and
\* the healing did meanwhile.
Consistent ==
    AtRest /\ lost = 0 /\ crashes = 0 => \A p \in Pod : doc[p] = issued

\* The hot snapshot never loses an edit it held, except by expiring.
HotGrows == [][expiries' = expiries => hot \subseteq hot']_vars

-----------------------------------------------------------------------------
(* Progress, under FairSpec. *)

\* In the end every pod holds at least what the hot snapshot holds, through
\* lost messages, failed saves, restarts and expiry.
Healed == <>[](\A p \in Pod : hot \subseteq doc[p])

\* "Guarded origins to prevent loops": the pods do not go on sending one
\* another updates for ever.
Quiesces == <>[](net = {})

\* Every edit reaches every pod.
Converges == \A o \in Op : (o \in issued) ~> (\A p \in Pod : o \in doc[p])
=============================================================================
