--------------------------- MODULE SessionMemory ---------------------------
(***************************************************************************)
(* The in-memory life of ONE collaboration session on several pods of the  *)
(* Collab Service: services/session.service.ts with the registries of      *)
(* services/Redis.service.ts and the socket wiring of                      *)
(* config/socket/socketManager.ts.                                         *)
(*                                                                         *)
(* Every map of SessionService is keyed by the session id and no handler   *)
(* touches two sessions, so one session is modelled and the maps become    *)
(* one value per pod.  Node runs one handler at a time up to its next      *)
(* await: an action is the code between two awaits, together with the      *)
(* effect at Redis or MongoDB of the call whose reply it consumes.         *)
(*                                                                         *)
(* What a document contains is not modelled here (see DocSync); a Y.Doc    *)
(* and the Awareness made with it are one object, since the code sets,     *)
(* reads and deletes the two map entries together.  The session record is  *)
(* left open: a join may find it live or ended at any time (closeSession,  *)
(* expiry and the status writes of joins and leaves all change it).        *)
(***************************************************************************)
EXTENDS Integers, FiniteSets

CONSTANTS
    Pod,          \* instances of the service
    Socket,       \* client connections; each connects at most once
    PodOf,        \* the instance a connection is routed to
    UserOf,       \* the user a connection is authenticated as
    Owner,        \* the user who owns the session
    Requests,     \* client events allowed: subset of {"update","leave","close"}
    DropMidJoin,  \* may a client vanish while its joinSession is running?
    MaxFaults,    \* bound: rejected Redis or MongoDB calls
    MaxCrashes,   \* bound: pod crashes
    None

(***************************************************************************)
(* A task is one invocation of a handler of SessionService for a socket;   *)
(* "leave" and "disconnect" both run leaveSession.  A socket raises each   *)
(* event at most once (the bound of the model on client activity; a client *)
(* that acts more often is covered by giving the user more sockets).       *)
(***************************************************************************)
Kind == {"join", "update", "leave", "disconnect", "close"}
Task == Socket \X Kind

User == {UserOf[k] : k \in Socket}

\* A load creates its own Y.Doc, named by the task and by which of its loads
\* it is: joinSession may load a second time.
Doc == Task \X {1, 2}

ASSUME ConstantsAssumption ==
    /\ PodOf \in [Socket -> Pod]
    /\ Requests \subseteq {"update", "leave", "close"}
    /\ DropMidJoin \in BOOLEAN
    /\ MaxFaults \in Nat /\ MaxCrashes \in Nat
    /\ None \notin Doc

VARIABLES
    pc,         \* where each task is: the await it is waiting in
    cur,        \* the document object a task holds across an await
    fallback,   \* joins whose restoreSession failed (they call getOrLoad again)
    conn,       \* connected sockets
    room,       \* sockets in the Socket.IO room of the session
    answer,     \* what initial-state carried for a socket, None before
    doc,        \* #_activeDocs / #_activeAwareness entry of a pod, or None
    meta,       \* does the pod have a #_activeSessionMetadata entry?
    state,      \* does the pod have a #_sessionStates entry?
    timers,     \* running pairs of persistence and healing intervals
    sub,        \* document of the listener in #_sessionSubscriptions, or None
    listeners,  \* 'redis-message' listeners attached for the session
    chan,       \* is the pod subscribed at Redis to the doc and awareness channels?
    ctlSub,     \* is the pod subscribed at Redis to the control channel?
    ctl,        \* 'message' listeners for the control channel
    ctlq,       \* DESTROY messages Redis has sent to the pod, not yet handled
    cleaning,   \* cleanupSessionMemory calls of DESTROY callbacks in flight
    loaded,     \* documents the MongoDB snapshot (if any) was applied to
    ready,      \* documents whose getOrLoadSessionState returned
    dropped,    \* documents a leave or a close took out of the maps
    refused,    \* documents whose listener a rejected call may have left deaf
    parts,      \* the Redis set session:participants
    faults, crashes

client   == <<conn, room, answer>>
registry == <<doc, meta>>
loops    == <<state, timers>>
feed     == <<sub, listeners, chan>>
control  == <<ctlSub, ctl, ctlq, cleaning>>
history  == <<loaded, ready, dropped, refused>>
budget   == <<faults, crashes>>
vars == <<pc, cur, fallback, client, registry, loops, feed, control, history,
          parts, budget>>

\* The awaits of each handler; a finished one is "done", or "failed" when its
\* connection or its pod was lost with it.
PC == {"idle", "find", "sadd", "check", "cleanup", "load", "subscribe",
       "snapshot", "meta", "control", "status", "publish", "srem", "count",
       "destroy", "release", "saving", "write", "done", "failed"}
Load == {"load", "subscribe", "snapshot", "meta", "control"}
Phase(kind) ==
    {"idle", "done", "failed"} \cup
    IF kind = "join" THEN {"find", "sadd", "check", "cleanup", "status"} \cup Load
    ELSE IF kind = "update" THEN {"publish"} \cup Load
    ELSE IF kind = "close" THEN {"find", "saving", "write"}
    ELSE {"srem", "count", "destroy", "release", "saving"}

JoinOf(k) == <<k, "join">>
P(t) == PodOf[t[1]]          \* the pod a task runs on
TasksOn(p) == {t \in Task : P(t) = p}

\* socketManager registers the socket's event handlers after joinSession
\* returned; an event of a socket without handlers is lost.
Listening(k) == k \in conn /\ pc[JoinOf(k)] = "done"

\* cleanupSessionMemory calls on a pod that wait for their UNSUBSCRIBE reply.
Cleaning(p) == \/ cleaning[p] > 0
               \/ \E t \in TasksOn(p) : pc[t] = "cleanup"

TypeOK ==
    /\ pc \in [Task -> PC] /\ \A t \in Task : pc[t] \in Phase(t[2])
    /\ cur \in [Task -> Doc \cup {None}]
    /\ fallback \subseteq Task
    /\ conn \subseteq Socket
    /\ room \subseteq Socket
    /\ answer \in [Socket -> {None, "bare", "restored"}]
    /\ doc \in [Pod -> Doc \cup {None}]
    /\ meta \in [Pod -> BOOLEAN]
    /\ state \in [Pod -> BOOLEAN]
    /\ timers \in [Pod -> Nat]
    /\ sub \in [Pod -> Doc \cup {None}]
    /\ listeners \in [Pod -> Nat]
    /\ chan \in [Pod -> BOOLEAN]
    /\ ctlSub \in [Pod -> BOOLEAN]
    /\ ctl \in [Pod -> Nat]
    /\ ctlq \in [Pod -> Nat]
    /\ cleaning \in [Pod -> Nat]
    /\ loaded \subseteq Doc
    /\ ready \subseteq Doc
    /\ dropped \subseteq Doc /\ refused \subseteq Doc
    /\ parts \subseteq User
    /\ faults \in Nat /\ crashes \in Nat

Init ==
    /\ pc = [t \in Task |-> "idle"]
    /\ cur = [t \in Task |-> None]
    /\ fallback = {}
    /\ conn = {} /\ room = {} /\ answer = [k \in Socket |-> None]
    /\ doc = [p \in Pod |-> None] /\ meta = [p \in Pod |-> FALSE]
    /\ state = [p \in Pod |-> FALSE] /\ timers = [p \in Pod |-> 0]
    /\ sub = [p \in Pod |-> None] /\ listeners = [p \in Pod |-> 0]
    /\ chan = [p \in Pod |-> FALSE]
    /\ ctlSub = [p \in Pod |-> FALSE] /\ ctl = [p \in Pod |-> 0]
    /\ ctlq = [p \in Pod |-> 0] /\ cleaning = [p \in Pod |-> 0]
    /\ loaded = {} /\ ready = {} /\ dropped = {} /\ refused = {}
    /\ parts = {}
    /\ faults = 0 /\ crashes = 0

-----------------------------------------------------------------------------
(* Pieces shared by the handlers. *)

Goto(t, label) == pc' = [pc EXCEPT ![t] = label]

\* Mutant of InitSessionLoops: intervals are started without looking for an
\* entry.
InitSessionLoopsAgain(p) ==
    /\ state' = [state EXCEPT ![p] = TRUE]
    /\ timers' = [timers EXCEPT ![p] = @ + 1]

\* initSessionLoops: nothing if the pod already has a #_sessionStates entry.
InitSessionLoops(p) ==
    IF state[p]
    THEN UNCHANGED loops
    ELSE /\ state' = [state EXCEPT ![p] = TRUE]
         /\ timers' = [timers EXCEPT ![p] = @ + 1]

\* Mutant of BeginCleanup: intervals are cleared without looking for an entry.
BeginCleanupBlindly(p) ==
    /\ state' = [state EXCEPT ![p] = FALSE]
    /\ timers' = [timers EXCEPT ![p] = @ - 1]
    /\ chan' = [chan EXCEPT ![p] = FALSE]

\* The synchronous start of cleanupSessionMemory: the intervals of the entry
\* are cleared, the entry goes, and UNSUBSCRIBE is sent and awaited.
BeginCleanup(p) ==
    /\ state' = [state EXCEPT ![p] = FALSE]
    /\ timers' = [timers EXCEPT ![p] = IF state[p] THEN @ - 1 ELSE @]
    /\ chan' = [chan EXCEPT ![p] = FALSE]

\* The entries of the document, its awareness and its metadata are deleted,
\* whichever objects they hold by now.
DropEntries(p) ==
    /\ doc' = [doc EXCEPT ![p] = None]
    /\ meta' = [meta EXCEPT ![p] = FALSE]

\* A leave or a close drops them and leaves the listener where it is.
Abandon(p) ==
    /\ DropEntries(p)
    /\ dropped' = dropped \cup ({doc[p]} \ {None})

\* Mutants of FinishCleanup: the listener is detached but not forgotten; the
\* document stays in the maps.
FinishCleanupKeepsSub(p) ==
    /\ listeners' = [listeners EXCEPT ![p] = IF sub[p] = None THEN @ ELSE @ - 1]
    /\ UNCHANGED sub
    /\ DropEntries(p)
FinishCleanupKeepsDoc(p) ==
    /\ sub' = [sub EXCEPT ![p] = None]
    /\ listeners' = [listeners EXCEPT ![p] = IF sub[p] = None THEN @ ELSE @ - 1]
    /\ UNCHANGED registry

\* What cleanupSessionMemory does once UNSUBSCRIBE was answered.
FinishCleanup(p) ==
    /\ sub' = [sub EXCEPT ![p] = None]
    /\ listeners' = [listeners EXCEPT ![p] = IF sub[p] = None THEN @ ELSE @ - 1]
    /\ DropEntries(p)

\* Mutant of SubscribeToSession: no check for a double subscription.
SubscribeAgain(p, d) ==
    /\ sub' = [sub EXCEPT ![p] = d]
    /\ listeners' = [listeners EXCEPT ![p] = @ + 1]
    /\ chan' = [chan EXCEPT ![p] = TRUE]

\* subscribeToSession for the listener of document d; "avoid double
\* subscription": nothing if a listener is registered.
SubscribeToSession(p, d) ==
    IF sub[p] # None
    THEN UNCHANGED feed
    ELSE /\ sub' = [sub EXCEPT ![p] = d]
         /\ listeners' = [listeners EXCEPT ![p] = @ + 1]
         /\ chan' = [chan EXCEPT ![p] = TRUE]

\* joinSession sends initial-state, encoded from the document d it holds.
Answer(k, d) ==
    answer' = [answer EXCEPT ![k] = IF d \in loaded THEN "restored" ELSE "bare"]

\* The server side of the sockets S is gone.  The 'disconnect' handler runs
\* only where it was registered in time.
Disconnected(S, pcs) ==
    /\ conn' = conn \ S
    /\ room' = room \ S
    /\ pc' = [t \in Task |->
                IF /\ t[2] = "disconnect"
                   /\ t[1] \in S /\ Listening(t[1]) /\ pc[t] = "idle"
                THEN "srem" ELSE pcs[t]]

-----------------------------------------------------------------------------
(* joinSession. *)

\* A client connects; handleConnection calls joinSession, which reads the
\* session record.
Connect(k) ==
    /\ pc[JoinOf(k)] = "idle"
    /\ conn' = conn \cup {k}
    /\ Goto(JoinOf(k), "find")
    /\ UNCHANGED <<cur, fallback, room, answer, registry, loops, feed, control,
                   history, parts, budget>>

\* The record is 'ended': the socket is disconnected.
JoinRefuse(t) ==
    /\ t[2] = "join" /\ pc[t] = "find"
    /\ Disconnected({t[1]}, [pc EXCEPT ![t] = "failed"])
    /\ UNCHANGED <<cur, fallback, answer, registry, loops, feed, control,
                   history, parts, budget>>

\* The socket enters the room (if it is still there) and SADD is sent.
JoinAdmit(t) ==
    /\ t[2] = "join" /\ pc[t] = "find"
    /\ room' = room \cup ({t[1]} \cap conn)
    /\ Goto(t, "sadd")
    /\ UNCHANGED <<cur, fallback, conn, answer, registry, loops, feed, control,
                   history, parts, budget>>

\* Redis adds the user to the participant set.
JoinAdd(t) ==
    /\ t[2] = "join" /\ pc[t] = "sadd"
    /\ parts' = parts \cup {UserOf[t[1]]}
    /\ Goto(t, "check")
    /\ UNCHANGED <<cur, fallback, client, registry, loops, feed, control,
                   history, budget>>

\* A document is in memory: it is sent as it is.
JoinServe(t) ==
    /\ t[2] = "join" /\ pc[t] = "check"
    /\ doc[P(t)] # None
    /\ Answer(t[1], doc[P(t)])
    /\ Goto(t, "status")
    /\ UNCHANGED <<cur, fallback, conn, room, registry, loops, feed, control,
                   history, parts, budget>>

\* None is: restoreSession starts with cleanupSessionMemory.
JoinRestore(t) ==
    /\ t[2] = "join" /\ pc[t] = "check"
    /\ doc[P(t)] = None
    /\ BeginCleanup(P(t))
    /\ Goto(t, "cleanup")
    /\ UNCHANGED <<cur, fallback, client, registry, sub, listeners, control,
                   history, parts, budget>>

JoinCleaned(t) ==
    /\ t[2] = "join" /\ pc[t] = "cleanup"
    /\ FinishCleanup(P(t))
    /\ Goto(t, "load")
    /\ UNCHANGED <<cur, fallback, client, loops, chan, control, history, parts,
                   budget>>

\* UNSUBSCRIBE rejects: Redis may have executed it or not, and the listener
\* stays registered.
UnsubscribeRejected(p) ==
    /\ chan' \in {chan, [chan EXCEPT ![p] = sub[p] # None]}
    /\ refused' = refused \cup ({sub[p]} \ {None})
    /\ UNCHANGED ctlSub

\* Some other task of its pod waits for the same SUBSCRIBE.
AlsoSubscribing(t) == \E u \in TasksOn(P(t)) \ {t} : pc[u] = "control"

\* A call of getOrLoadSessionState rejects.  The listener was registered
\* before SUBSCRIBE was sent and stays registered; the channels are subscribed
\* if Redis executed it all the same, or by a later load.  The control channel
\* is subscribed if an earlier load has done it.
LoadRejected(t) ==
    \/ /\ pc[t] = "subscribe"
       /\ chan' \in {chan, [chan EXCEPT ![P(t)] = @ /\ sub[P(t)] # cur[t]]}
       /\ refused' = refused \cup {cur[t]}
       /\ UNCHANGED ctlSub
    \/ /\ pc[t] = "control"
       /\ ctlSub' \in {ctlSub, [ctlSub EXCEPT ![P(t)] =
                                    ctl[P(t)] > 0 \/ AlsoSubscribing(t)]}
       /\ UNCHANGED <<chan, refused>>
    \/ pc[t] \notin {"subscribe", "control"} /\ UNCHANGED <<chan, ctlSub, refused>>

\* An await of restoreSession rejects: it returns null and joinSession calls
\* getOrLoadSessionState itself.  Nothing of the failed load is undone.
RestoreFails(t) ==
    /\ t[2] = "join" /\ pc[t] \in {"cleanup"} \cup (Load \ {"load"})
    /\ t \notin fallback
    /\ faults < MaxFaults
    /\ faults' = faults + 1
    /\ fallback' = fallback \cup {t}
    /\ cur' = [cur EXCEPT ![t] = None]
    /\ IF pc[t] = "cleanup" THEN UnsubscribeRejected(P(t)) ELSE LoadRejected(t)
    /\ Goto(t, "load")
    /\ UNCHANGED <<client, registry, loops, sub, listeners, ctl, ctlq, cleaning,
                   loaded, ready, dropped, parts, crashes>>

\* Mutant of JoinFails: the socket is not disconnected.
JoinFailsSilently(t) ==
    /\ t[2] = "join"
    /\ \/ pc[t] \in {"find", "sadd", "check"}
       \/ t \in fallback /\ pc[t] \in Load \ {"load"}
    /\ faults < MaxFaults
    /\ faults' = faults + 1
    /\ LoadRejected(t)
    /\ Goto(t, "failed")
    /\ cur' = [cur EXCEPT ![t] = None]
    /\ UNCHANGED <<fallback, client, registry, loops, sub, listeners, ctl, ctlq,
                   cleaning, loaded, ready, dropped, parts, crashes>>

\* Any other rejection: the socket gets an error and is disconnected; the
\* user stays in the participant set if SADD had been executed.
JoinFails(t) ==
    /\ t[2] = "join"
    /\ \/ pc[t] \in {"find", "sadd", "check"}
       \/ t \in fallback /\ pc[t] \in Load \ {"load"}
    /\ faults < MaxFaults
    /\ faults' = faults + 1
    /\ LoadRejected(t)
    /\ Disconnected({t[1]}, [pc EXCEPT ![t] = "failed"])
    /\ cur' = [cur EXCEPT ![t] = None]
    /\ UNCHANGED <<fallback, answer, registry, loops, sub, listeners, ctl, ctlq,
                   cleaning, loaded, ready, dropped, parts, crashes>>

\* The status update is over (it never fails the join) and the socket's event
\* handlers are registered.
JoinReturns(t) ==
    /\ t[2] = "join" /\ pc[t] = "status"
    /\ Goto(t, "done")
    /\ UNCHANGED <<cur, fallback, client, registry, loops, feed, control,
                   history, parts, budget>>

-----------------------------------------------------------------------------
(* getOrLoadSessionState, called by restoreSession, by joinSession as a     *)
(* fallback, and by updateDocument.                                         *)

\* What the caller does at once with the document it got: joinSession sends
\* it, updateDocument applies the update and publishes it.
Resume(t, d) ==
    IF t[2] = "join"
    THEN Answer(t[1], d) /\ Goto(t, "status")
    ELSE UNCHANGED answer /\ Goto(t, "publish")

\* The pod has a document; only missing loops are started.
LoadPresent(t) ==
    /\ pc[t] = "load"
    /\ doc[P(t)] # None
    /\ InitSessionLoops(P(t))
    /\ Resume(t, doc[P(t)])
    /\ UNCHANGED <<cur, fallback, conn, room, registry, feed, control, history,
                   parts, budget>>

\* The document the current load of a task makes.
OwnDoc(t) == <<t, IF t \in fallback THEN 2 ELSE 1>>

\* A new document enters the maps before anything is awaited; SUBSCRIBE is
\* awaited unless subscribeToSession returned early.
LoadNew(t) ==
    /\ pc[t] = "load"
    /\ doc[P(t)] = None
    /\ LET d == OwnDoc(t)
       IN /\ doc' = [doc EXCEPT ![P(t)] = d]
          /\ cur' = [cur EXCEPT ![t] = d]
          /\ SubscribeToSession(P(t), d)
    /\ Goto(t, IF sub[P(t)] = None THEN "subscribe" ELSE "snapshot")
    /\ UNCHANGED <<fallback, client, meta, loops, control, history, parts,
                   budget>>

\* Redis has subscribed the pod; the latest snapshot is asked for.
LoadSubscribed(t) ==
    /\ pc[t] = "subscribe"
    /\ Goto(t, "snapshot")
    /\ UNCHANGED <<cur, fallback, client, registry, loops, feed, control, history,
                   parts, budget>>

\* The MongoDB snapshot (if there is one) is applied to it.
LoadSnapshot(t) ==
    /\ pc[t] = "snapshot"
    /\ loaded' = loaded \cup {cur[t]}
    /\ Goto(t, "meta")
    /\ UNCHANGED <<cur, fallback, client, registry, loops, feed, control, ready,
                   dropped, refused, parts, budget>>

\* The metadata is known; SUBSCRIBE to the control channel is sent.
LoadMetadata(t) ==
    /\ pc[t] = "meta"
    /\ meta' = [meta EXCEPT ![P(t)] = TRUE]
    /\ ctlSub' = [ctlSub EXCEPT ![P(t)] = TRUE]
    /\ Goto(t, "control")
    /\ UNCHANGED <<cur, fallback, client, doc, loops, feed, ctl, ctlq, cleaning,
                   history, parts, budget>>

\* Once subscribed, one more 'message' listener is attached (none is ever
\* removed), the loops are started and the caller goes on.
LoadControl(t) ==
    /\ pc[t] = "control"
    /\ ctl' = [ctl EXCEPT ![P(t)] = @ + 1]
    /\ InitSessionLoops(P(t))
    /\ ready' = ready \cup {cur[t]}
    /\ Resume(t, cur[t])
    /\ cur' = [cur EXCEPT ![t] = None]
    /\ UNCHANGED <<fallback, conn, room, registry, feed, ctlSub, ctlq, cleaning,
                   loaded, dropped, refused, parts, budget>>

-----------------------------------------------------------------------------
(* updateDocument. *)

\* A 'doc-update' event; getOrLoadSessionState is called at once.
Update(k) ==
    LET t == <<k, "update">>
    IN /\ "update" \in Requests
       /\ Listening(k)
       /\ pc[t] = "idle"
       /\ Goto(t, "load")
       /\ UNCHANGED <<cur, fallback, client, registry, loops, feed, control,
                      history, parts, budget>>

\* The publish was answered (isDirty is set here, see DocSync).
UpdateReturns(t) ==
    /\ pc[t] = "publish"
    /\ Goto(t, "done")
    /\ UNCHANGED <<cur, fallback, client, registry, loops, feed, control,
                   history, parts, budget>>

-----------------------------------------------------------------------------
(* leaveSession, run by the events 'leave-session' and 'disconnect'. *)

\* 'leave-session': the socket leaves the room but stays connected.
Leave(k) ==
    LET t == <<k, "leave">>
    IN /\ "leave" \in Requests
       /\ Listening(k)
       /\ pc[t] = "idle"
       /\ room' = room \ {k}
       /\ Goto(t, "srem")
       /\ UNCHANGED <<cur, fallback, conn, answer, registry, loops, feed,
                      control, history, parts, budget>>

\* Mutant of LeaveRemove: SREM is forgotten.
LeaveRemoveNobody(t) ==
    /\ pc[t] = "srem"
    /\ Goto(t, "count")
    /\ UNCHANGED <<cur, fallback, client, registry, loops, feed, control,
                   history, parts, budget>>

\* Redis removes the user from the participant set.
LeaveRemove(t) ==
    /\ pc[t] = "srem"
    /\ parts' = parts \ {UserOf[t[1]]}
    /\ Goto(t, "count")
    /\ UNCHANGED <<cur, fallback, client, registry, loops, feed, control,
                   history, budget>>

\* SCARD is answered; only a leaver that reads 0 cleans up.
LeaveCount(t) ==
    /\ pc[t] = "count"
    /\ Goto(t, IF parts = {} THEN "destroy" ELSE "done")
    /\ UNCHANGED <<cur, fallback, client, registry, loops, feed, control,
                   history, parts, budget>>

\* Mutant of LeaveDestroy: only the leaver's own pod hears of it.
LeaveDestroyLocally(t) ==
    /\ pc[t] = "destroy"
    /\ ctlq' = [ctlq EXCEPT ![P(t)] = @ + (IF ctlSub[P(t)] THEN 1 ELSE 0)]
    /\ Goto(t, "release")
    /\ UNCHANGED <<cur, fallback, client, registry, loops, feed, ctlSub, ctl,
                   cleaning, history, parts, budget>>

\* The record is updated and DESTROY is published: Redis sends it to every
\* pod that is subscribed now.
LeaveDestroy(t) ==
    /\ pc[t] = "destroy"
    /\ ctlq' = [p \in Pod |-> ctlq[p] + (IF ctlSub[p] THEN 1 ELSE 0)]
    /\ Goto(t, "release")
    /\ UNCHANGED <<cur, fallback, client, registry, loops, feed, ctlSub, ctl,
                   cleaning, history, parts, budget>>

\* A rejection on the way to the publish is swallowed.
DestroySwallowed(t) ==
    /\ pc[t] = "destroy"
    /\ faults < MaxFaults
    /\ faults' = faults + 1
    /\ Goto(t, "release")
    /\ UNCHANGED <<cur, fallback, client, registry, loops, feed, control,
                   history, parts, crashes>>

\* The leaver takes the pod's document to save it; without one there is
\* nothing to save and the entries are dropped at once.
LeaveRelease(t) ==
    /\ pc[t] = "release"
    /\ IF doc[P(t)] = None
       THEN DropEntries(P(t)) /\ Goto(t, "done") /\ UNCHANGED cur
       ELSE /\ cur' = [cur EXCEPT ![t] = doc[P(t)]]
            /\ Goto(t, "saving")
            /\ UNCHANGED registry
    /\ UNCHANGED <<fallback, client, loops, feed, control, history, parts,
                   budget>>

\* The final snapshot was saved, or failed to be: the entries are dropped,
\* whichever document they hold now.
LeaveReleased(t) ==
    /\ t[2] \in {"leave", "disconnect"} /\ pc[t] = "saving"
    /\ Abandon(P(t))
    /\ cur' = [cur EXCEPT ![t] = None]
    /\ Goto(t, "done")
    /\ UNCHANGED <<fallback, client, loops, feed, control, loaded, ready, refused,
                   parts, budget>>

\* A rejection before the count is known ends the handler; SREM may or may
\* not have been executed.
LeaveFails(t) ==
    /\ pc[t] \in {"srem", "count"}
    /\ faults < MaxFaults
    /\ faults' = faults + 1
    /\ parts' \in {parts, parts \ (IF pc[t] = "srem" THEN {UserOf[t[1]]} ELSE {})}
    /\ Goto(t, "done")
    /\ UNCHANGED <<cur, fallback, client, registry, loops, feed, control,
                   history, crashes>>

-----------------------------------------------------------------------------
(* closeSession. *)

\* 'close-session' from the owner (from anyone else it changes nothing).
Close(k) ==
    LET t == <<k, "close">>
    IN /\ "close" \in Requests
       /\ UserOf[k] = Owner
       /\ Listening(k)
       /\ pc[t] = "idle"
       /\ Goto(t, "find")
       /\ UNCHANGED <<cur, fallback, client, registry, loops, feed, control,
                      history, parts, budget>>

\* The record was found; the pod's document, if any, is taken to be saved.
CloseFind(t) ==
    /\ t[2] = "close" /\ pc[t] = "find"
    /\ cur' = [cur EXCEPT ![t] = doc[P(t)]]
    /\ Goto(t, IF doc[P(t)] = None THEN "write" ELSE "saving")
    /\ UNCHANGED <<fallback, client, registry, loops, feed, control, history,
                   parts, budget>>

CloseSaved(t) ==
    /\ t[2] = "close" /\ pc[t] = "saving"
    /\ Abandon(P(t))
    /\ cur' = [cur EXCEPT ![t] = None]
    /\ Goto(t, "write")
    /\ UNCHANGED <<fallback, client, loops, feed, control, loaded, ready, refused,
                   parts, budget>>

\* The record is ended; every socket in the room is disconnected.
CloseKick(t) ==
    /\ t[2] = "close" /\ pc[t] = "write"
    /\ Disconnected(room, [pc EXCEPT ![t] = "done"])
    /\ UNCHANGED <<cur, fallback, answer, registry, loops, feed, control,
                   history, parts, budget>>

CloseFails(t) ==
    /\ t[2] = "close" /\ pc[t] \in {"find", "saving", "write"}
    /\ faults < MaxFaults
    /\ faults' = faults + 1
    /\ cur' = [cur EXCEPT ![t] = None]
    /\ Goto(t, "done")
    /\ UNCHANGED <<fallback, client, registry, loops, feed, control, history,
                   parts, crashes>>

-----------------------------------------------------------------------------
(* The DESTROY callback, and the environment. *)

\* A DESTROY message reaches a pod: every listener attached for the session
\* (one per load since the pod started) starts a cleanup.
DestroyReceived(p) ==
    /\ ctlq[p] > 0
    /\ ctlq' = [ctlq EXCEPT ![p] = @ - 1]
    /\ cleaning' = [cleaning EXCEPT ![p] = @ + ctl[p]]
    /\ IF ctl[p] = 0 THEN UNCHANGED <<loops, chan>> ELSE BeginCleanup(p)
    /\ UNCHANGED <<pc, cur, fallback, client, registry, sub, listeners, ctlSub,
                   ctl, history, parts, budget>>

DestroyCleaned(p) ==
    /\ cleaning[p] > 0
    /\ cleaning' = [cleaning EXCEPT ![p] = @ - 1]
    /\ FinishCleanup(p)
    /\ UNCHANGED <<pc, cur, fallback, client, loops, chan, ctlSub, ctl, ctlq,
                   history, parts, budget>>

\* A client goes away, or its connection does.
Drop(k) ==
    /\ k \in conn
    /\ DropMidJoin \/ Listening(k)
    /\ Disconnected({k}, pc)
    /\ UNCHANGED <<cur, fallback, answer, registry, loops, feed, control,
                   history, parts, budget>>

\* A pod crashes, or exits because a promise rejected and nobody caught it
\* (updateDocument and the DESTROY callback have no catch), and starts again.
\* Its sockets are gone and no handler of theirs ever runs.
Crash(p) ==
    /\ crashes < MaxCrashes
    /\ crashes' = crashes + 1
    /\ pc' = [t \in Task |-> IF P(t) = p /\ pc[t] # "idle"
                             THEN "failed" ELSE pc[t]]
    /\ cur' = [t \in Task |-> IF P(t) = p THEN None ELSE cur[t]]
    /\ conn' = {k \in conn : PodOf[k] # p}
    /\ room' = {k \in room : PodOf[k] # p}
    /\ DropEntries(p)
    /\ state' = [state EXCEPT ![p] = FALSE]
    /\ timers' = [timers EXCEPT ![p] = 0]
    /\ sub' = [sub EXCEPT ![p] = None]
    /\ listeners' = [listeners EXCEPT ![p] = 0]
    /\ chan' = [chan EXCEPT ![p] = FALSE]
    /\ ctlSub' = [ctlSub EXCEPT ![p] = FALSE]
    /\ ctl' = [ctl EXCEPT ![p] = 0]
    /\ ctlq' = [ctlq EXCEPT ![p] = 0]
    /\ cleaning' = [cleaning EXCEPT ![p] = 0]
    /\ UNCHANGED <<fallback, answer, history, parts, faults>>

-----------------------------------------------------------------------------
\* The next step of a running handler.
Step(t) ==
    \/ JoinRefuse(t) \/ JoinAdmit(t) \/ JoinAdd(t) \/ JoinServe(t)
    \/ JoinRestore(t) \/ JoinCleaned(t) \/ JoinReturns(t)
    \/ LoadPresent(t) \/ LoadNew(t) \/ LoadSubscribed(t) \/ LoadSnapshot(t)
    \/ LoadMetadata(t) \/ LoadControl(t) \/ UpdateReturns(t)
    \/ LeaveRemove(t) \/ LeaveCount(t) \/ LeaveDestroy(t) \/ LeaveRelease(t)
    \/ LeaveReleased(t)
    \/ CloseFind(t) \/ CloseSaved(t) \/ CloseKick(t)

\* A call to Redis or MongoDB that a running handler awaits is rejected.
Fault(t) ==
    \/ RestoreFails(t) \/ JoinFails(t) \/ DestroySwallowed(t) \/ LeaveFails(t)
    \/ CloseFails(t)

\* What clients do.
Event(k) == Connect(k) \/ Update(k) \/ Leave(k) \/ Close(k) \/ Drop(k)

PodStep(p) == DestroyReceived(p) \/ DestroyCleaned(p)

Next ==
    \/ \E t \in Task : Step(t) \/ Fault(t)
    \/ \E k \in Socket : Event(k)
    \/ \E p \in Pod : PodStep(p) \/ Crash(p)

Spec == Init /\ [][Next]_vars

\* Node's event loop runs a continuation whose reply has come, and Redis and
\* MongoDB answer (or reject, a fault).  Nothing makes clients act.
Fairness == /\ \A t \in Task : WF_vars(Step(t))
            /\ \A p \in Pod : WF_vars(PodStep(p))

FairSpec == Spec /\ Fairness

-----------------------------------------------------------------------------
(* Safety. *)

\* Every running pair of intervals belongs to the pod's #_sessionStates entry:
\* no cleanup, overlapping another one or a load, leaves intervals running
\* that nobody can clear, and none are started twice (initSessionLoops,
\* cleanupSessionMemory).
NoOrphanTimer == \A p \in Pod : timers[p] = IF state[p] THEN 1 ELSE 0

\* Every attached 'redis-message' listener is the one #_sessionSubscriptions
\* remembers, so that unsubscribeFromSession can detach it, although several
\* cleanups and loads overlap.
NoOrphanListener == \A p \in Pod : listeners[p] = IF sub[p] = None THEN 0 ELSE 1

\* A pod that keeps a listener registered, so that subscribeToSession would
\* return early, is subscribed at Redis unless a cleanup that will remove the
\* listener is still running, or the SUBSCRIBE or an UNSUBSCRIBE of this very
\* listener was rejected: overlapping loads and cleanups, failures and crashes
\* elsewhere never make "avoid double subscription" return early for a session
\* that hears nothing.
NeverDeaf ==
    \A p \in Pod : sub[p] # None /\ ~chan[p] => Cleaning(p) \/ sub[p] \in refused

\* What it takes to serve the document of pod p: its metadata, its loops, a
\* listener that was registered for this document and is subscribed, and a
\* listener that will hear DESTROY.  The listener may be that of an earlier
\* document only if a leave or a close has dropped that one, and deaf only if a
\* call about it was rejected.
Served(p) ==
    /\ meta[p]
    /\ state[p]
    /\ sub[p] = doc[p] \/ sub[p] \in dropped
    /\ chan[p] \/ sub[p] \in refused
    /\ ctlSub[p] /\ ctl[p] > 0

\* A document that was loaded completely and is in memory while no cleanup
\* runs is served, whatever loads, restores and cleanups overlapped its load.
LoadedDocServed == \A p \in Pod : doc[p] \in ready /\ ~Cleaning(p) => Served(p)

-----------------------------------------------------------------------------
(* Progress, under FairSpec. *)

\* Every client that connects gets an initial-state or loses its connection:
\* no failure leaves it waiting (joinSession's catch and its fallback).
JoinAnswered ==
    \A k \in Socket :
        pc[JoinOf(k)] = "find" ~> (answer[k] # None \/ k \notin conn)

\* No handler is running and no message is in flight.
Quiet == /\ \A t \in Task : pc[t] \in {"idle", "done", "failed"}
         /\ \A p \in Pod : ctlq[p] = 0 /\ cleaning[p] = 0

Unused(p) == /\ doc[p] = None /\ ~meta[p]
             /\ sub[p] = None /\ ~state[p]

\* When nobody is connected any more, every pod gives up its document, its
\* metadata, its loops and its listener.
Released ==
    (conn = {}) ~> (conn # {} \/ \A p \in Pod : Unused(p))

\* The sockets whose join is over and which neither left nor disconnected.
Joined == {k \in conn : pc[JoinOf(k)] = "done" /\ pc[<<k, "leave">>] = "idle"}

\* At rest the participant set is exactly the users with a joined socket.
ParticipantsExact == Quiet => parts = {UserOf[k] : k \in Joined}

\* No two sockets are one user's.
OneSocketEach == \A k, l \in Socket : UserOf[k] = UserOf[l] => k = l

\* Once everybody has gone and nothing is running, no pod has kept the
\* document, its metadata, its loops or its listener (control listeners stay for
\* good): the DESTROY of the leave that found the set empty reached every pod
\* that had something to give up, whatever was loading when it was sent.
ReleasedAtRest == Quiet /\ conn = {} => \A p \in Pod : Unused(p)

-----------------------------------------------------------------------------
(* What comments and the README say and the code does not do. *)

\* "handles rapid reconnects": a user whose newer socket has joined keeps the
\* session's document in memory when an older socket's leave is over.
ReconnectKeepsSession ==
    Quiet => \A k \in Joined : doc[PodOf[k]] # None
=============================================================================
