--------------------------- MODULE SessionRecord ---------------------------
(***************************************************************************)
(* The session records of ONE owner in MongoDB and who writes them:        *)
(* createSession, the status updates of joinSession and leaveSession,      *)
(* closeSession (services/session.service.ts, db/repos/session.repo.ts)    *)
(* and the periodic job of index.ts.                                       *)
(*                                                                         *)
(* Every status update reads the record, decides, and writes only the      *)
(* status.  What the handlers do to the document is SessionMemory; the     *)
(* participant set is here because leaveSession decides by its size.       *)
(* $pull on the record's own participants field changes nothing: no code   *)
(* ever adds to it.  An action is the code between two awaits with the     *)
(* effect of the call whose reply it consumes.                             *)
(***************************************************************************)
EXTENDS Integers, FiniteSets

CONSTANTS
    Session,    \* records that may be created (the bound on insertions)
    Client,     \* sockets; each connects at most once
    UserOf,     \* the user of each
    OwnerSocket,\* the sockets of the owner
    Creator,    \* calls of createSession
    MaxFaults,  \* bound: rejected calls to MongoDB or Redis
    None

Kind == {"join", "leave", "disconnect", "close"}
Task == Client \X Kind
User == {UserOf[k] : k \in Client}
STATUS == {"active", "offline", "ended"}

ASSUME ConstantsAssumption ==
    /\ UserOf \in [Client -> User]
    /\ OwnerSocket \subseteq Client
    /\ MaxFaults \in Nat
    /\ None \notin Session \cup STATUS
    /\ None \notin [status : STATUS, closed : BOOLEAN, expired : BOOLEAN,
                    token : BOOLEAN]

VARIABLES
    rec,     \* the record of each session, None before it is inserted
    parts,   \* the Redis set session:participants of each
    at,      \* the session a socket's invite token names
    conn,    \* connected sockets
    pc,      \* where each handler is
    write,   \* the status a handler has decided to write
    cpc,     \* where each createSession is
    made,    \* the session it inserted
    faults

sockets == <<at, conn>>
tasks == <<pc, write>>
creation == <<cpc, made>>
vars == <<rec, parts, sockets, tasks, creation, faults>>

\* SessionSchema; expired stands for endsAt <= now.
Record == [status : STATUS, closed : BOOLEAN, expired : BOOLEAN, token : BOOLEAN]

Phase(kind) ==
    {"idle", "done", "failed"} \cup
    IF kind = "join" THEN {"find", "sadd", "read", "write"}
    ELSE IF kind = "close" THEN {"first", "second"}
    ELSE {"srem", "count", "read", "write"}

TypeOK ==
    /\ rec \in [Session -> Record \cup {None}]
    /\ parts \in [Session -> SUBSET User]
    /\ at \in [Client -> Session \cup {None}]
    /\ conn \subseteq Client
    /\ pc \in [Task -> UNION {Phase(kind) : kind \in Kind}]
    /\ \A t \in Task : pc[t] \in Phase(t[2])
    /\ write \in [Task -> STATUS \cup {None}]
    /\ cpc \in [Creator -> {"idle", "find", "insert", "token", "done"}]
    /\ made \in [Creator -> Session \cup {None}]
    /\ faults \in Nat

\* A record of an earlier call of createSession.
Standing == [status |-> "active", closed |-> FALSE, expired |-> FALSE, token |-> TRUE]

Init ==
    /\ rec \in [Session -> {None, Standing}]
    /\ parts = [s \in Session |-> {}]
    /\ at = [k \in Client |-> None] /\ conn = {}
    /\ pc = [t \in Task |-> "idle"] /\ write = [t \in Task |-> None]
    /\ cpc = [c \in Creator |-> "idle"] /\ made = [c \in Creator |-> None]
    /\ faults = 0

-----------------------------------------------------------------------------
Goto(t, label) == pc' = [pc EXCEPT ![t] = label]
Rec(t) == rec[at[t[1]]]
Set(s, st) == rec' = [rec EXCEPT ![s].status = st]

Created(s) == rec[s] # None
Live(s) == Created(s) /\ rec[s].status \in {"active", "offline"}

\* handleConnection registers the handlers when joinSession has returned.
Listening(k) == k \in conn /\ pc[<<k, "join">>] = "done"

\* The sockets S are disconnected; their 'disconnect' handlers run where they
\* were registered in time.
Disconnected(S, pcs) ==
    /\ conn' = conn \ S
    /\ pc' = [t \in Task |->
                IF /\ t[2] = "disconnect"
                   /\ t[1] \in S /\ Listening(t[1]) /\ pc[t] = "idle"
                THEN "srem" ELSE pcs[t]]

\* The sockets in the Socket.IO room of session s.
Room(s) == {k \in conn : /\ at[k] = s
                         /\ pc[<<k, "join">>] \in {"sadd", "read", "write", "done"}
                         /\ pc[<<k, "leave">>] = "idle"}

-----------------------------------------------------------------------------
(* createSession. *)

Create(c) ==
    /\ cpc[c] = "idle"
    /\ cpc' = [cpc EXCEPT ![c] = "find"]
    /\ UNCHANGED <<rec, parts, sockets, tasks, made, faults>>

\* The owner has a live session: the token its record holds is returned,
\* whatever it is.  Otherwise a record is inserted next.
CreateFind(c) ==
    /\ cpc[c] = "find"
    /\ \/ \E s \in Session :
            /\ Live(s)
            /\ cpc' = [cpc EXCEPT ![c] = "done"]
       \/ /\ ~ \E s \in Session : Live(s)
          /\ cpc' = [cpc EXCEPT ![c] = "insert"]
    /\ UNCHANGED <<rec, parts, sockets, tasks, made, faults>>

\* Mutant of NewRecord: the schema gives the status no default.
NewRecordBare == [status |-> None, closed |-> FALSE, expired |-> FALSE, token |-> FALSE]

\* The defaults of SessionSchema: active, 24 hours to live, no token.
NewRecord == [status |-> "active", closed |-> FALSE, expired |-> FALSE, token |-> FALSE]

CreateInsert(c) ==
    /\ cpc[c] = "insert"
    /\ \E s \in Session :
         /\ ~ Created(s)
         /\ rec' = [rec EXCEPT ![s] = NewRecord]
         /\ made' = [made EXCEPT ![c] = s]
    /\ cpc' = [cpc EXCEPT ![c] = "token"]
    /\ UNCHANGED <<parts, sockets, tasks, faults>>

CreateToken(c) ==
    /\ cpc[c] = "token"
    /\ rec' = [rec EXCEPT ![made[c]].token = TRUE]
    /\ cpc' = [cpc EXCEPT ![c] = "done"]
    /\ UNCHANGED <<parts, sockets, tasks, made, faults>>

\* A rejection: what was inserted stays, without a token.
CreateFails(c) ==
    /\ cpc[c] \in {"find", "insert", "token"}
    /\ faults < MaxFaults
    /\ faults' = faults + 1
    /\ cpc' = [cpc EXCEPT ![c] = "done"]
    /\ UNCHANGED <<rec, parts, sockets, tasks, made>>

-----------------------------------------------------------------------------
(* joinSession and leaveSession. *)

\* A client connects with the invite token of session s.
Connect(k, s) ==
    /\ pc[<<k, "join">>] = "idle"
    /\ Created(s) /\ rec[s].token
    /\ at' = [at EXCEPT ![k] = s]
    /\ conn' = conn \cup {k}
    /\ Goto(<<k, "join">>, "find")
    /\ UNCHANGED <<rec, parts, write, creation, faults>>

\* The record is read: an ended session refuses the socket.
JoinFind(t) ==
    /\ t[2] = "join" /\ pc[t] = "find"
    /\ IF Rec(t).status = "ended"
       THEN Disconnected({t[1]}, [pc EXCEPT ![t] = "failed"])
       ELSE Goto(t, "sadd") /\ UNCHANGED conn
    /\ UNCHANGED <<rec, parts, at, write, creation, faults>>

\* SADD.  The document is then loaded and sent (SessionMemory).
JoinAdd(t) ==
    /\ pc[t] = "sadd"
    /\ parts' = [parts EXCEPT ![at[t[1]]] = @ \cup {UserOf[t[1]]}]
    /\ Goto(t, "read")
    /\ UNCHANGED <<rec, sockets, write, creation, faults>>

\* A rejection before the status update disconnects the socket.
JoinFails(t) ==
    /\ t[2] = "join" /\ pc[t] \in {"find", "sadd", "read"}
    /\ faults < MaxFaults
    /\ faults' = faults + 1
    /\ Disconnected({t[1]}, [pc EXCEPT ![t] = "failed"])
    /\ UNCHANGED <<rec, parts, at, write, creation>>

\* 'leave-session', and a client that goes away or loses its connection.
Leave(k) ==
    /\ Listening(k)
    /\ pc[<<k, "leave">>] = "idle"
    /\ Goto(<<k, "leave">>, "srem")
    /\ UNCHANGED <<rec, parts, sockets, write, creation, faults>>
Drop(k) ==
    /\ k \in conn
    /\ Disconnected({k}, pc)
    /\ UNCHANGED <<rec, parts, at, write, creation, faults>>

LeaveRemove(t) ==
    /\ pc[t] = "srem"
    /\ parts' = [parts EXCEPT ![at[t[1]]] = @ \ {UserOf[t[1]]}]
    /\ Goto(t, "count")
    /\ UNCHANGED <<rec, sockets, write, creation, faults>>

\* Mutant of LeaveCount: the leaver counts itself.
LeaveCountOne(t) ==
    /\ pc[t] = "count"
    /\ Goto(t, IF Cardinality(parts[at[t[1]]]) = 1 THEN "read" ELSE "done")
    /\ UNCHANGED <<rec, parts, sockets, write, creation, faults>>

\* SCARD: only who leaves an empty room updates the status.
LeaveCount(t) ==
    /\ pc[t] = "count"
    /\ Goto(t, IF parts[at[t[1]]] = {} THEN "read" ELSE "done")
    /\ UNCHANGED <<rec, parts, sockets, write, creation, faults>>

LeaveFails(t) ==
    /\ pc[t] \in {"srem", "count"}
    /\ faults < MaxFaults
    /\ faults' = faults + 1
    /\ \/ UNCHANGED parts
       \/ /\ pc[t] = "srem"
          /\ parts' = [parts EXCEPT ![at[t[1]]] = @ \ {UserOf[t[1]]}]
    /\ Goto(t, "done")
    /\ UNCHANGED <<rec, sockets, write, creation>>

\* The status a join wants the record r to have; a closed record that has not
\* expired is left alone.
JoinStatus(r) == IF ~ r.closed /\ ~ r.expired THEN "active"
                 ELSE IF r.expired THEN "ended" ELSE r.status

\* The status a leave wants it to have.
LeaveStatus(r) == IF r.closed \/ r.expired THEN "ended" ELSE "offline"

Wanted(t) == IF t[2] = "join" THEN JoinStatus(Rec(t)) ELSE LeaveStatus(Rec(t))

\* The record is read again and the decision is made.
StatusRead(t) ==
    /\ pc[t] = "read"
    /\ IF Wanted(t) = Rec(t).status
       THEN Goto(t, "done") /\ UNCHANGED write
       ELSE /\ Goto(t, "write")
            /\ write' = [write EXCEPT ![t] = Wanted(t)]
    /\ UNCHANGED <<rec, parts, sockets, creation, faults>>

\* updateSessionDetails writes the status, whatever the record holds by now.
StatusWrite(t) ==
    /\ pc[t] = "write"
    /\ Set(at[t[1]], write[t])
    /\ write' = [write EXCEPT ![t] = None]
    /\ Goto(t, "done")
    /\ UNCHANGED <<parts, sockets, creation, faults>>

\* A rejection of either is swallowed.
StatusFails(t) ==
    /\ pc[t] \in {"read", "write"}
    /\ faults < MaxFaults
    /\ faults' = faults + 1
    /\ write' = [write EXCEPT ![t] = None]
    /\ Goto(t, "done")
    /\ UNCHANGED <<rec, parts, sockets, creation>>

-----------------------------------------------------------------------------
(* closeSession, expiry and the periodic job. *)

\* 'close-session' from a socket of the owner; the record is found and the
\* snapshot saved (SessionMemory) on the way to the first write.
Close(k) ==
    /\ k \in OwnerSocket /\ Listening(k)
    /\ pc[<<k, "close">>] = "idle"
    /\ Goto(<<k, "close">>, "first")
    /\ UNCHANGED <<rec, parts, sockets, write, creation, faults>>

\* SessionRepo.closeSession: the status only.
CloseFirst(t) ==
    /\ pc[t] = "first"
    /\ Set(at[t[1]], "ended")
    /\ Goto(t, "second")
    /\ UNCHANGED <<parts, sockets, write, creation, faults>>

\* updateSessionDetails: status, isClosed and endsAt; the room is emptied.
CloseSecond(t) ==
    /\ pc[t] = "second"
    /\ LET s == at[t[1]]
       IN /\ rec' = [rec EXCEPT ![s] = [@ EXCEPT !.status = "ended",
                                                 !.closed = TRUE,
                                                 !.expired = TRUE]]
          /\ Disconnected(Room(s), [pc EXCEPT ![t] = "done"])
    /\ UNCHANGED <<parts, at, write, creation, faults>>

CloseFails(t) ==
    /\ pc[t] \in {"first", "second"}
    /\ faults < MaxFaults
    /\ faults' = faults + 1
    /\ Goto(t, "done")
    /\ UNCHANGED <<rec, parts, sockets, write, creation>>

\* endsAt passes.
Expire(s) ==
    /\ Created(s) /\ ~ rec[s].expired
    /\ rec' = [rec EXCEPT ![s].expired = TRUE]
    /\ UNCHANGED <<parts, sockets, tasks, creation, faults>>

\* Mutant of Sweep: only active sessions are looked at.
SweepActive(s) ==
    /\ Created(s) /\ rec[s].status = "active" /\ rec[s].expired
    /\ Set(s, "ended")
    /\ UNCHANGED <<parts, sockets, tasks, creation, faults>>

\* The periodic job of any pod: markExpiredSessionsEnded, for each record.
Sweep(s) ==
    /\ Created(s) /\ rec[s].status # "ended" /\ rec[s].expired
    /\ Set(s, "ended")
    /\ UNCHANGED <<parts, sockets, tasks, creation, faults>>

-----------------------------------------------------------------------------
Step(t) ==
    \/ JoinFind(t) \/ JoinAdd(t) \/ LeaveRemove(t) \/ LeaveCount(t)
    \/ StatusRead(t) \/ StatusWrite(t) \/ CloseFirst(t) \/ CloseSecond(t)

Fault(t) == JoinFails(t) \/ LeaveFails(t) \/ StatusFails(t) \/ CloseFails(t)

CreateStep(c) == CreateFind(c) \/ CreateInsert(c) \/ CreateToken(c)

Next ==
    \/ \E t \in Task : Step(t) \/ Fault(t)
    \/ \E k \in Client : \/ \E s \in Session : Connect(k, s)
                         \/ Leave(k) \/ Drop(k) \/ Close(k)
    \/ \E c \in Creator : Create(c) \/ CreateStep(c) \/ CreateFails(c)
    \/ \E s \in Session : Expire(s) \/ Sweep(s)

Spec == Init /\ [][Next]_vars

\* MongoDB and Redis answer and the periodic job runs.  Nothing makes clients
\* act or time pass.
Fairness ==
    /\ WF_vars(\/ \E t \in Task : Step(t)
               \/ \E c \in Creator : CreateStep(c))
    /\ WF_vars(\E s \in Session : Sweep(s))

FairSpec == Spec /\ Fairness

-----------------------------------------------------------------------------
(* Safety. *)

Leaving(s) == {t \in Task : t[2] \in {"leave", "disconnect"} /\ at[t[1]] = s}

\* Some leaveSession of session s is over, and none is running.
Left(s) == /\ \E t \in Leaving(s) : pc[t] = "done"
           /\ \A t \in Leaving(s) : pc[t] \in {"idle", "done"}

OneSocketEach == \A k, l \in Client : UserOf[k] = UserOf[l] => k = l

\* When the last participant has left, the session is not active any more,
\* however the reads and writes of joins, leaves, closes and the periodic job
\* interleave: as long as no call is rejected and no user has two sockets, the
\* stale write that wins is never one that says active.
InactiveWhenLeft ==
    \A s \in Session :
        OneSocketEach /\ faults = 0 /\ Left(s) /\ parts[s] = {}
            => rec[s].status # "active"

-----------------------------------------------------------------------------
(* Progress, under FairSpec. *)

\* A session that expired or was closed is ended for good in the end, although
\* a status decided before may still be written over it.
EndsForGood ==
    \A s \in Session :
        (Created(s) /\ rec[s].expired) ~> [](Created(s) /\ rec[s].status = "ended")

=============================================================================
