------------------------------ MODULE Presence ------------------------------
(***************************************************************************)
(* Who is shown to be in a session: the Awareness each pod keeps beside    *)
(* the document, from the joins, leaves and 'awareness-update' events of   *)
(* services/session.service.ts to the entries of y-protocols, which is     *)
(* external: an entry has the clock of its client; an update is applied if *)
(* it is newer, or removes what is shown at the same clock; an entry that  *)
(* is not renewed for 30 seconds is removed; clients renew theirs every 15.*)
(*                                                                         *)
(* Every pod holds the session for the whole behaviour, except that it may *)
(* be released and loaded anew (SessionMemory has how).  A client's events *)
(* are about its own entry; the copies clients keep are not modelled.      *)
(***************************************************************************)
EXTENDS Integers, FiniteSets

CONSTANTS
    Pod,
    Conn,        \* connections; each has an awareness client id of its own
    User,        \* a user may have several connections
    Origins,     \* whose each may be, and where: functions to [user, pod]
    Connected,   \* has RedisService.connect() attached the message listener?
    MaxNet,      \* bound: messages in flight when a client sends
    MaxEvents    \* bound: updates sent by clients that are shown everywhere,
                 \* messages lost, sessions loaded anew and leaves rejected,
                 \* together

ASSUME ConstantsAssumption ==
    /\ Origins \subseteq [Conn -> [user : User, pod : Pod]]
    /\ Connected \in BOOLEAN
    /\ MaxNet \in Nat /\ MaxEvents \in Nat

VARIABLES
    origin,   \* whose connection each is and the pod it is connected to
    pc,       \* "new", "in" (handlers registered) or "out" (has left)
    conn,     \* connections that are up
    leaves,   \* leaveSession calls of a connection that await Redis
    failed,   \* connections whose leave that ended last was rejected
    mine,     \* the client's own clock
    states,   \* the entries of each pod's Awareness
    before,   \* the order in which those of a user were inserted: pairs
    clock,    \* the clock of each client in the meta map of each pod
    net,      \* pub/sub messages in flight
    missed,   \* pods that have missed the last message of a client
    updates, lost, reloads

entries == <<states, before, clock>>
budget == <<updates, lost, reloads>>
vars == <<origin, pc, conn, leaves, failed, mine, entries, net, missed, budget>>

Message == [to : Pod, conn : Conn, clock : Nat, on : BOOLEAN]

TypeOK ==
    /\ origin \in [Conn -> [user : User, pod : Pod]]
    /\ pc \in [Conn -> {"new", "in", "out"}]
    /\ conn \subseteq Conn
    /\ leaves \in [Conn -> Nat] /\ failed \subseteq Conn /\ mine \in [Conn -> Nat]
    /\ states \in [Pod -> SUBSET Conn]
    /\ before \in [Pod -> SUBSET (Conn \X Conn)]
    /\ clock \in [Pod -> [Conn -> Nat]]
    /\ net \subseteq Message
    /\ missed \subseteq Pod \X Conn
    /\ updates \in Nat /\ lost \in Nat /\ reloads \in Nat

Init ==
    /\ origin \in Origins
    /\ pc = [c \in Conn |-> "new"] /\ conn = {}
    /\ leaves = [c \in Conn |-> 0] /\ failed = {} /\ mine = [c \in Conn |-> 0]
    /\ states = [p \in Pod |-> {}] /\ before = [p \in Pod |-> {}]
    /\ clock = [p \in Pod |-> [c \in Conn |-> 0]]
    /\ net = {} /\ missed = {}
    /\ updates = 0 /\ lost = 0 /\ reloads = 0

-----------------------------------------------------------------------------
(* Entries. *)

Home(c) == origin[c].pod
Sibling(c) == {d \in Conn : origin[d].user = origin[c].user}

Bounded == updates + lost + reloads + Cardinality(failed) < MaxEvents

\* Does pod p take an update of c at clock k?
Accepts(p, c, k, on) ==
    clock[p][c] < k \/ (clock[p][c] = k /\ ~on /\ c \in states[p])

\* The entries C leave pod p.  Their clocks stay.
Remove(p, C) ==
    /\ states' = [states EXCEPT ![p] = @ \ C]
    /\ before' = [before EXCEPT ![p] = {o \in @ : o[1] \notin C /\ o[2] \notin C}]

\* An entry enters pod p, behind the others of its user, unless it is there.
Insert(p, c) ==
    /\ states' = [states EXCEPT ![p] = @ \cup {c}]
    /\ before' = [before EXCEPT ![p] =
                    IF c \in states[p] THEN @
                    ELSE @ \cup ((states[p] \cap Sibling(c)) \X {c})]

Apply(p, c, k, on) ==
    IF Accepts(p, c, k, on)
    THEN /\ clock' = [clock EXCEPT ![p][c] = k]
         /\ IF on THEN Insert(p, c) ELSE Remove(p, {c})
    ELSE UNCHANGED entries

\* The update listener publishes what happened at pod p to every pod.  Its own
\* copy changes nothing and is left out; no other is heard without the listener.
Publish(p, c, k, on) ==
    IF Connected
    THEN net \cup {[to |-> q, conn |-> c, clock |-> k, on |-> on] : q \in Pod \ {p}}
    ELSE net

-----------------------------------------------------------------------------
(* Connections. *)

\* joinSession, from its cleanup to the registration of the handlers (what comes
\* before is SessionMemory): the pod's entries of the user are removed; origin
\* 'server-join-cleanup' is not published.  When the connection is lost
\* meanwhile nobody will run leaveSession.
Join(c) ==
    /\ pc[c] = "new"
    /\ Remove(Home(c), Sibling(c)) /\ UNCHANGED clock
    /\ pc' = [pc EXCEPT ![c] = "in"]
    /\ conn' \in {conn, conn \cup {c}}
    /\ UNCHANGED <<origin, leaves, failed, mine, net, missed, budget>>

\* Somewhere c is not shown, and no message that would show it is on its way.
Wanting(c) ==
    \E p \in {q \in Pod : q = Home(c) \/ Connected} :
        /\ c \notin states[p]
        /\ ~ \E m \in net : m.to = p /\ m.conn = c /\ m.on /\ m.clock = mine[c]

\* Mutant of Send: an entry that was removed is not taken back.
SendKnown(c) ==
    /\ c \in conn /\ pc[c] \in {"in", "out"} /\ Cardinality(net) < MaxNet
    /\ c \in states[Home(c)] \/ clock[Home(c)][c] = 0
    /\ \/ Wanting(c) /\ UNCHANGED updates
       \/ ~ Wanting(c) /\ Bounded /\ updates' = updates + 1
    /\ mine' = [mine EXCEPT ![c] = @ + 1]
    /\ Apply(Home(c), c, mine[c] + 1, TRUE)
    /\ net' = Publish(Home(c), c, mine[c] + 1, TRUE)
    /\ missed' = missed \ {<<Home(c), c>>}
    /\ UNCHANGED <<origin, pc, conn, leaves, failed, lost, reloads>>

\* handleAwarenessUpdate: the client changes or renews its entry.  A client that
\* sent 'leave-session' is still connected and may do so as well.
Send(c) ==
    /\ c \in conn /\ pc[c] \in {"in", "out"} /\ Cardinality(net) < MaxNet
    /\ \/ Wanting(c) /\ UNCHANGED updates
       \/ ~ Wanting(c) /\ Bounded /\ updates' = updates + 1
    /\ mine' = [mine EXCEPT ![c] = @ + 1]
    /\ Apply(Home(c), c, mine[c] + 1, TRUE)
    /\ net' = Publish(Home(c), c, mine[c] + 1, TRUE)
    /\ missed' = missed \ {<<Home(c), c>>}
    /\ UNCHANGED <<origin, pc, conn, leaves, failed, lost, reloads>>

\* 'leave-session', or 'disconnect', whether or not the former was sent.
Leave(c) ==
    /\ c \in conn
    /\ \/ pc[c] = "in" /\ UNCHANGED conn
       \/ pc[c] \in {"in", "out"} /\ conn' = conn \ {c}
    /\ pc' = [pc EXCEPT ![c] = "out"]
    /\ leaves' = [leaves EXCEPT ![c] = @ + 1]
    /\ UNCHANGED <<origin, failed, mine, entries, net, missed, budget>>

\* The first entry of the user, whichever connection it is of.
First(p, c) ==
    {d \in states[p] \cap Sibling(c) :
        ~ \E e \in Sibling(c) : <<e, d>> \in before[p]}

\* Mutants of LeaveRemove: it comes though nobody left; the removal is not
\* published; its clock is advanced, as it is for a client's own entry.
LeaveRemoveAgain(c) ==
    /\ pc[c] = "in"
    /\ leaves' = [leaves EXCEPT ![c] = @ - 1]
    /\ Remove(Home(c), First(Home(c), c))
    /\ UNCHANGED <<origin, pc, conn, failed, mine, clock, net, missed, budget>>
LeaveRemoveSilent(c) ==
    /\ leaves[c] > 0
    /\ leaves' = [leaves EXCEPT ![c] = @ - 1]
    /\ Remove(Home(c), First(Home(c), c))
    /\ UNCHANGED <<origin, pc, conn, failed, mine, clock, net, missed, budget>>
LeaveRemoveAhead(c) ==
    /\ leaves[c] > 0
    /\ leaves' = [leaves EXCEPT ![c] = @ - 1]
    /\ Remove(Home(c), First(Home(c), c))
    /\ \/ First(Home(c), c) = {} /\ UNCHANGED <<net, clock>>
       \/ \E d \in First(Home(c), c) :
            /\ clock' = [clock EXCEPT ![Home(c)][d] = @ + 1]
            /\ net' = Publish(Home(c), d, clock[Home(c)][d] + 1, FALSE)
    /\ UNCHANGED <<origin, pc, conn, failed, mine, missed, budget>>

\* leaveSession removes it and publishes that, at the clock it has.
LeaveRemove(c) ==
    /\ leaves[c] > 0
    /\ leaves' = [leaves EXCEPT ![c] = @ - 1] /\ failed' = failed \ {c}
    /\ Remove(Home(c), First(Home(c), c)) /\ UNCHANGED clock
    /\ \/ First(Home(c), c) = {} /\ UNCHANGED net
       \/ \E d \in First(Home(c), c) :
            net' = Publish(Home(c), d, clock[Home(c)][d], FALSE)
    /\ UNCHANGED <<origin, pc, conn, mine, missed, budget>>

\* The participant could not be removed from MongoDB or Redis: the catch of
\* leaveSession ends it, with the entry still shown.
LeaveFails(c) ==
    /\ leaves[c] > 0 /\ Bounded
    /\ leaves' = [leaves EXCEPT ![c] = @ - 1] /\ failed' = failed \cup {c}
    /\ UNCHANGED <<origin, pc, conn, mine, entries, net, missed, budget>>

-----------------------------------------------------------------------------
(* Pods. *)

\* Mutant of Deliver: a removal is carried out whatever its clock.
DeliverRemoval(m) ==
    /\ m \in net /\ net' = net \ {m}
    /\ IF m.on THEN Apply(m.to, m.conn, m.clock, TRUE)
       ELSE Remove(m.to, {m.conn}) /\ UNCHANGED clock
    /\ UNCHANGED <<origin, pc, conn, leaves, failed, mine, missed, budget>>

\* The subscription's callback applies a message with origin 'redis', which is
\* not published again.
Deliver(m) ==
    /\ m \in net /\ net' = net \ {m}
    /\ Apply(m.to, m.conn, m.clock, m.on)
    /\ missed' = IF Accepts(m.to, m.conn, m.clock, m.on)
                 THEN missed \ {<<m.to, m.conn>>} ELSE missed
    /\ UNCHANGED <<origin, pc, conn, leaves, failed, mine, budget>>

Lose(m) ==
    /\ m \in net /\ net' = net \ {m}
    /\ Bounded /\ lost' = lost + 1
    /\ missed' = missed \cup {<<m.to, m.conn>>}
    /\ UNCHANGED <<origin, pc, conn, leaves, failed, mine, entries, updates, reloads>>

\* Mutant of Expire: a pod watches only the entries of its own clients.
ExpireOwn(p, c) ==
    /\ c \in states[p] /\ Home(c) = p
    /\ c \notin conn \/ <<p, c>> \in missed
    /\ \A m \in net : m.conn # c
    /\ Remove(p, {c}) /\ UNCHANGED clock
    /\ net' = Publish(p, c, clock[p][c], FALSE)
    /\ UNCHANGED <<origin, pc, conn, leaves, failed, mine, missed, budget>>

\* Nothing renewed the entry for 30 seconds, longer than any message takes.
\* Origin 'timeout' is published.
Expire(p, c) ==
    /\ c \in states[p]
    /\ c \notin conn \/ <<p, c>> \in missed
    /\ \A m \in net : m.conn # c
    /\ Remove(p, {c}) /\ UNCHANGED clock
    /\ net' = Publish(p, c, clock[p][c], FALSE)
    /\ UNCHANGED <<origin, pc, conn, leaves, failed, mine, missed, budget>>

\* The pod's session is released and loaded anew, with an empty Awareness.
Reload(p) ==
    /\ Bounded /\ reloads' = reloads + 1
    /\ states' = [states EXCEPT ![p] = {}]
    /\ before' = [before EXCEPT ![p] = {}]
    /\ clock' = [clock EXCEPT ![p] = [c \in Conn |-> 0]]
    /\ net' = {m \in net : m.to # p}
    /\ missed' = {x \in missed : x[1] # p}
    /\ UNCHANGED <<origin, pc, conn, leaves, failed, mine, updates, lost>>

-----------------------------------------------------------------------------
Next ==
    \/ \E c \in Conn : Join(c) \/ Send(c) \/ Leave(c)
                      \/ LeaveRemove(c) \/ LeaveFails(c)
    \/ \E m \in net : Deliver(m) \/ Lose(m)
    \/ \E p \in Pod : Reload(p) \/ \E c \in Conn : Expire(p, c)

Spec == Init /\ [][Next]_vars

\* Awaited calls are answered or rejected, Redis delivers, timers tick and clients
\* that are connected renew their entries: not everything stands still while one
\* of these can happen.
Progress ==
    \/ \E c \in Conn : LeaveRemove(c) \/ LeaveFails(c) \/ (Wanting(c) /\ Send(c))
    \/ \E m \in net : Deliver(m)
    \/ \E p \in Pod, c \in Conn : Expire(p, c)

FairSpec == Spec /\ WF_vars(Progress)

-----------------------------------------------------------------------------
(* Safety. *)

\* A leave may remove the entry of the user's other connection, a join the
\* entries of all of them, a pod that missed a renewal an entry that is alive.
\* No removal is final: no pod, and no message, is ahead of the client's own
\* clock, so that the client's next renewal is taken everywhere.
NeverAhead ==
    /\ \A p \in Pod, c \in Conn : clock[p][c] <= mine[c]
    /\ \A m \in net : m.clock <= mine[m.conn]

\* The only connection of its user.
Alone(c) == Sibling(c) = {c}

\* When the only connection of a user has gone, the leave has been carried out
\* and its messages have come, in whatever order, no pod shows the user, unless
\* the removal of the participant was rejected, a message was lost or a pod has
\* loaded the session anew.
NoGhostAtRest ==
    lost = 0 /\ reloads = 0 =>
        \A c \in Conn :
            (Alone(c) /\ c \notin conn /\ leaves[c] = 0 /\ c \notin failed
                /\ \A m \in net : m.conn # c)
            => \A p \in Pod : c \notin states[p]

\* Another connection of the user of c has joined at pod p, which removed the
\* entry of c there and told nobody.
Cleared(p, c) == \E d \in Sibling(c) \ {c} : Home(d) = p /\ pc[d] # "new"

\* When the messages about a connection have come and its own pod shows it, every
\* other pod does, but those its user has joined from again: a removal published
\* for one connection of a user (leaveSession picks the first entry it finds, a
\* timeout any) never wins over a renewal the client's own pod has taken, in
\* whatever order the two reach a pod, unless a message was lost or a pod loaded
\* the session anew.
AgreedAtRest ==
    Connected /\ lost = 0 /\ reloads = 0 =>
        \A c \in Conn :
            (c \in states[Home(c)] /\ \A m \in net : m.conn # c)
            => \A p \in Pod : c \in states[p] \/ Cleared(p, c)

-----------------------------------------------------------------------------
(* Progress, under FairSpec. *)

\* Whatever leaves and joins of the same user removed or left, through losses
\* and reloads, no pod shows a connection that has gone for ever.
GhostsVanish == <>[](\A p \in Pod : states[p] \subseteq conn)

\* And in the end each connection in the session is shown by its own pod.
ShownAgain == <>[](\A c \in conn : pc[c] = "in" => c \in states[Home(c)])
=============================================================================
