------------------------- MODULE SessionRecordProofs -------------------------
(* Proofs, for every set of sessions, sockets and creators, about            *)
(* SessionRecord.                                                            *)
EXTENDS SessionRecord, TLAPS

\* A handler that has begun works on a session that was created.
Placed == \A t \in Task : pc[t] # "idle"
            => at[t[1]] \in Session /\ Created(at[t[1]])

\* So does a createSession that has inserted its record.
MadeOne == \A c \in Creator : cpc[c] = "token"
             => made[c] \in Session /\ Created(made[c])

\* A handler about to write has decided what.
Decided == \A t \in Task : pc[t] = "write" => write[t] \in STATUS

Inv == TypeOK /\ Placed /\ MadeOne /\ Decided

-----------------------------------------------------------------------------
(* Types. *)

\* No record is None: a session that was created has one.
LEMMA RecordType ==
    ASSUME TypeOK, NEW s \in Session, Created(s)
    PROVE  rec[s] \in Record
  BY DEF TypeOK, Created

\* The user of a socket is a user.
LEMMA UserType == \A k \in Client : UserOf[k] \in User
  BY DEF User

\* The fields of a record have their types, and it is not None.
LEMMA NotNone == None \notin Record /\ None \notin STATUS /\ None \notin Session
  BY ConstantsAssumption DEF Record

\* The join of the socket of a task is a task of that socket.
LEMMA JoinTask == \A t \in Task : /\ t[1] \in Client /\ t[2] \in Kind
                                  /\ <<t[1], "join">> \in Task
                                  /\ <<t[1], "join">>[1] = t[1]
                                  /\ t[2] = "join" => t = <<t[1], "join">>
  BY DEF Task, Kind

\* The initial states satisfy the invariant.
LEMMA InvInit == Init => Inv
<1> SUFFICES ASSUME Init PROVE Inv
  OBVIOUS
<1>1. rec \in [Session -> Record \cup {None}]
  <2>1. Standing \in Record
    BY DEF Standing, Record, STATUS
  <2> QED BY <2>1 DEF Init
<1>2. \A t \in Task : pc[t] = "idle" /\ pc[t] \in Phase(t[2])
  BY DEF Init, Phase
<1>3. pc \in [Task -> UNION {Phase(kind) : kind \in Kind}]
  <2>1. "idle" \in Phase("join") /\ "join" \in Kind
    BY DEF Phase, Kind
  <2> QED BY <2>1 DEF Init
<1>4. TypeOK
  BY <1>1, <1>2, <1>3 DEF Init, TypeOK
<1> QED BY <1>2, <1>4 DEF Init, Inv, Placed, MadeOne, Decided

\* Every step preserves it.
LEMMA InvStep == Inv /\ [Next]_vars => Inv'
<1> USE RecordType, UserType, NotNone DEF Inv, TypeOK, Placed, MadeOne, Decided, Phase, Kind, Record, STATUS,
        Created, sockets, tasks, creation, Goto
<1> SUFFICES ASSUME Inv, [Next]_vars PROVE Inv'
  OBVIOUS
<1>1. ASSUME NEW t \in Task, Step(t) PROVE Inv'
  <2>0. t[1] \in Client /\ t[2] \in Kind
    BY DEF Task
  <2>1. CASE JoinFind(t)
    BY <2>0, <2>1 DEF JoinFind, Disconnected
  <2>2. CASE JoinAdd(t)
    BY <2>0, <2>2 DEF JoinAdd
  <2>3. CASE LeaveRemove(t)
    BY <2>0, <2>3 DEF LeaveRemove
  <2>4. CASE LeaveCount(t)
    BY <2>0, <2>4 DEF LeaveCount
  <2>5. CASE StatusRead(t)
    BY <2>0, <2>5 DEF StatusRead, Wanted, Rec, JoinStatus, LeaveStatus
  <2>6. CASE StatusWrite(t)
    BY <2>0, <2>6 DEF StatusWrite, Set
  <2>7. CASE CloseFirst(t)
    BY <2>0, <2>7 DEF CloseFirst, Set
  <2>8. CASE CloseSecond(t)
    <3> DEFINE s == at[t[1]]
    <3>1. s \in Session /\ Created(s) /\ rec[s] \in Record
      BY <2>0, <2>8 DEF CloseSecond
    <3>2. rec' \in [Session -> Record \cup {None}] /\ \A z \in Session : Created(z) => Created(z)'
      <4> DEFINE r == [rec[s] EXCEPT !.status = "ended", !.closed = TRUE, !.expired = TRUE]
      <4>1. rec' = [rec EXCEPT ![s] = r]
        BY <2>8, Zenon DEF CloseSecond
      <4>2. r \in Record
        BY <3>1
      <4>3. r # None
        BY <4>2, NotNone
      <4> HIDE DEF r
      <4> QED
        BY <3>1, <4>1, <4>2, <4>3
    <3>3. conn' \subseteq Client /\ pc' \in [Task -> UNION {Phase(kind) : kind \in Kind}]
      BY <2>0, <2>8 DEF CloseSecond, Disconnected
    <3>4. \A u \in Task : pc'[u] \in Phase(u[2])
      BY <2>0, <2>8 DEF CloseSecond, Disconnected
    <3>5. \A u \in Task : pc'[u] # "idle" => at[u[1]] \in Session /\ Created(at[u[1]])
      <4>1. \A u \in Task : Listening(u[1]) => at[u[1]] \in Session /\ Created(at[u[1]])
        BY JoinTask DEF Listening
      <4> QED
        BY <2>0, <2>8, <4>1 DEF CloseSecond, Disconnected
    <3>6. \A u \in Task : pc'[u] = "write" => pc[u] = "write"
      BY <2>0, <2>8 DEF CloseSecond, Disconnected
    <3>7. UNCHANGED <<parts, at, write, creation, faults>>
      BY <2>8 DEF CloseSecond
    <3> HIDE DEF s
    <3> QED
      BY <3>2, <3>3, <3>4, <3>5, <3>6, <3>7
  <2> QED
    BY <1>1, <2>1, <2>2, <2>3, <2>4, <2>5, <2>6, <2>7, <2>8 DEF Step
<1>2. ASSUME NEW t \in Task, Fault(t) PROVE Inv'
  <2>0. t[1] \in Client /\ t[2] \in Kind
    BY DEF Task
  <2>1. CASE JoinFails(t)
    BY <2>0, <2>1 DEF JoinFails, Disconnected
  <2>2. CASE LeaveFails(t)
    BY <2>0, <2>2 DEF LeaveFails
  <2>3. CASE StatusFails(t)
    BY <2>0, <2>3 DEF StatusFails
  <2>4. CASE CloseFails(t)
    BY <2>0, <2>4 DEF CloseFails
  <2> QED
    BY <1>2, <2>1, <2>2, <2>3, <2>4 DEF Fault
<1>3. ASSUME NEW k \in Client, (\E s \in Session : Connect(k, s)) \/ Leave(k) \/ Drop(k) \/ Close(k) PROVE Inv'
  <2>0. \A kind \in Kind : <<k, kind>> \in Task /\ <<k, kind>>[1] = k /\ <<k, kind>>[2] = kind
    BY DEF Task
  <2>1. CASE \E s \in Session : Connect(k, s)
    BY <2>0, <2>1 DEF Connect
  <2>2. CASE Leave(k)
    BY <2>0, <2>2, JoinTask DEF Leave, Listening
  <2>3. CASE Drop(k)
    BY <2>0, <2>3, JoinTask DEF Drop, Disconnected, Listening
  <2>4. CASE Close(k)
    BY <2>0, <2>4, JoinTask DEF Close, Listening
  <2> QED
    BY <1>3, <2>1, <2>2, <2>3, <2>4
<1>4. ASSUME NEW c \in Creator, Create(c) \/ CreateStep(c) \/ CreateFails(c) PROVE Inv'
  <2>1. CASE Create(c)
    BY <2>1 DEF Create
  <2>2. CASE CreateFind(c)
    BY <2>2 DEF CreateFind
  <2>3. CASE CreateInsert(c)
    <3>1. PICK s \in Session : /\ ~ Created(s)
                              /\ rec' = [rec EXCEPT ![s] = NewRecord]
                              /\ made' = [made EXCEPT ![c] = s]
      BY <2>3 DEF CreateInsert
    <3>2. NewRecord \in Record /\ NewRecord # None
      <4>1. NewRecord \in Record
        BY DEF NewRecord
      <4> QED
        BY <4>1, NotNone
    <3>3. rec' \in [Session -> Record \cup {None}] /\ rec'[s] # None
      BY <3>1, <3>2
    <3>4. \A z \in Session : Created(z) => Created(z)'
      BY <3>1, <3>2
    <3> QED
      BY <1>4, <2>3, <3>1, <3>3, <3>4 DEF CreateInsert
  <2>4. CASE CreateToken(c)
    <3>1. made[c] \in Session /\ Created(made[c]) /\ rec[made[c]] \in Record
      BY <1>4, <2>4 DEF CreateToken
    <3>2. rec' = [rec EXCEPT ![made[c]] = [@ EXCEPT !.token = TRUE]]
      BY <2>4 DEF CreateToken
    <3>3. [rec[made[c]] EXCEPT !.token = TRUE] \in Record
      BY <3>1
    <3>4. rec' \in [Session -> Record \cup {None}] /\ \A z \in Session : Created(z) => Created(z)'
      BY <3>1, <3>2, <3>3
    <3> QED
      BY <1>4, <2>4, <3>4 DEF CreateToken
  <2>5. CASE CreateFails(c)
    BY <2>5 DEF CreateFails
  <2> QED
    BY <1>4, <2>1, <2>2, <2>3, <2>4, <2>5 DEF CreateStep
<1>5. ASSUME NEW s \in Session, Expire(s) \/ Sweep(s) PROVE Inv'
  <2>1. CASE Expire(s)
    BY <2>1 DEF Expire
  <2>2. CASE Sweep(s)
    BY <2>2 DEF Sweep, Set
  <2> QED
    BY <1>5, <2>1, <2>2
<1>6. CASE UNCHANGED vars
  BY <1>6 DEF vars
<1> QED
  BY <1>1, <1>2, <1>3, <1>4, <1>5, <1>6 DEF Next

-----------------------------------------------------------------------------
(* The status of a session that everybody has left. *)

\* No handler of a socket starts before its join is over.
NotYet == \A t \in Task :
    t[2] # "join" /\ pc[<<t[1], "join">>] # "done" => pc[t] = "idle"

\* A leave never decides to write that a session is active.
LeaveWrites == \A t \in Task :
    t[2] \in {"leave", "disconnect"} /\ pc[t] = "write"
        => write[t] \in {"offline", "ended"}

\* A join that is about to look at the status keeps its user in the set.
Present == OneSocketEach => \A t \in Task :
    t[2] = "join" /\ pc[t] \in {"read", "write"}
        => UserOf[t[1]] \in parts[at[t[1]]]

\* In a session that somebody left and nobody is in, a leave is still on its
\* way to the status unless the status is not active.
Pending == {"count", "read", "write"}
Settled == faults = 0 /\ OneSocketEach => \A s \in Session :
    parts[s] = {} /\ (\E t \in Leaving(s) : pc[t] \notin {"idle", "srem"})
        => \/ rec[s].status # "active"
           \/ \E t \in Leaving(s) : pc[t] \in Pending

Order == NotYet /\ LeaveWrites

\* Every step preserves the order of a socket's handlers.
LEMMA OrderStep == Inv /\ Order /\ [Next]_vars => Order'
<1> USE JoinTask DEF Inv, TypeOK, Order, NotYet, LeaveWrites, Phase, Kind, STATUS,
        sockets, tasks, creation, Goto
<1> SUFFICES ASSUME Inv, Order, [Next]_vars PROVE Order'
  OBVIOUS
<1>1. ASSUME NEW t \in Task, Step(t) PROVE Order'
  <2>0. t[1] \in Client /\ t[2] \in Kind
    BY DEF Task
  <2>1. CASE JoinFind(t)
    <3>1. t = <<t[1], "join">> /\ ~ Listening(t[1])
      BY <2>0, <2>1 DEF JoinFind, Listening
    <3>2. \A u \in Task : pc'[u] = IF u = t THEN pc'[t] ELSE pc[u]
      BY <2>0, <2>1, <3>1 DEF JoinFind, Disconnected
    <3>3. pc'[t] \in {"failed", "sadd"} /\ pc[t] = "find" /\ t[2] = "join"
      BY <2>0, <2>1, <3>1 DEF JoinFind, Disconnected
    <3>4. UNCHANGED <<rec, parts, at, write, faults>>
      BY <2>1 DEF JoinFind
    <3> QED
      BY <3>2, <3>3, <3>4
  <2>2. CASE JoinAdd(t)
    BY <2>0, <2>2 DEF JoinAdd
  <2>3. CASE LeaveRemove(t)
    BY <2>0, <2>3 DEF LeaveRemove
  <2>4. CASE LeaveCount(t)
    BY <2>0, <2>4 DEF LeaveCount
  <2>5. CASE StatusRead(t)
    BY <2>0, <2>5 DEF StatusRead, Wanted, Rec, JoinStatus, LeaveStatus
  <2>6. CASE StatusWrite(t)
    BY <2>0, <2>6 DEF StatusWrite, Set
  <2>7. CASE CloseFirst(t)
    BY <2>0, <2>7 DEF CloseFirst, Set
  <2>8. CASE CloseSecond(t)
    BY <2>0, <2>8 DEF CloseSecond, Disconnected, Listening
  <2> QED
    BY <1>1, <2>1, <2>2, <2>3, <2>4, <2>5, <2>6, <2>7, <2>8 DEF Step
<1>2. ASSUME NEW t \in Task, Fault(t) PROVE Order'
  <2>0. t[1] \in Client /\ t[2] \in Kind
    BY DEF Task
  <2>1. CASE JoinFails(t)
    BY <2>0, <2>1 DEF JoinFails, Disconnected, Listening
  <2>2. CASE LeaveFails(t)
    BY <2>0, <2>2 DEF LeaveFails
  <2>3. CASE StatusFails(t)
    BY <2>0, <2>3 DEF StatusFails
  <2>4. CASE CloseFails(t)
    BY <2>0, <2>4 DEF CloseFails
  <2> QED
    BY <1>2, <2>1, <2>2, <2>3, <2>4 DEF Fault
<1>3. ASSUME NEW k \in Client, (\E s \in Session : Connect(k, s)) \/ Leave(k) \/ Drop(k) \/ Close(k) PROVE Order'
  <2>0. \A kind \in Kind : <<k, kind>> \in Task /\ <<k, kind>>[1] = k /\ <<k, kind>>[2] = kind
    BY DEF Task
  <2>1. CASE \E s \in Session : Connect(k, s)
    BY <2>0, <2>1 DEF Connect
  <2>2. CASE Leave(k)
    BY <2>0, <2>2 DEF Leave, Listening
  <2>3. CASE Drop(k)
    BY <2>0, <2>3 DEF Drop, Disconnected, Listening
  <2>4. CASE Close(k)
    BY <2>0, <2>4 DEF Close, Listening
  <2> QED
    BY <1>3, <2>1, <2>2, <2>3, <2>4
<1>4. ASSUME NEW c \in Creator, Create(c) \/ CreateStep(c) \/ CreateFails(c) PROVE Order'
  <2>1. CASE Create(c)
    BY <2>1 DEF Create
  <2>2. CASE CreateFind(c)
    BY <2>2 DEF CreateFind
  <2>3. CASE CreateInsert(c)
    BY <2>3 DEF CreateInsert, Created, NewRecord
  <2>4. CASE CreateToken(c)
    BY <2>4 DEF CreateToken
  <2>5. CASE CreateFails(c)
    BY <2>5 DEF CreateFails
  <2> QED
    BY <1>4, <2>1, <2>2, <2>3, <2>4, <2>5 DEF CreateStep
<1>5. ASSUME NEW s \in Session, Expire(s) \/ Sweep(s) PROVE Order'
  <2>1. CASE Expire(s)
    BY <2>1 DEF Expire
  <2>2. CASE Sweep(s)
    BY <2>2 DEF Sweep, Set
  <2> QED
    BY <1>5, <2>1, <2>2
<1>6. CASE UNCHANGED vars
  BY <1>6 DEF vars
<1> QED
  BY <1>1, <1>2, <1>3, <1>4, <1>5, <1>6 DEF Next

\* Every step keeps a joining user in the participant set.
LEMMA PresentStep == Inv /\ Order /\ Present /\ [Next]_vars => Present'
<1> USE JoinTask DEF Inv, TypeOK, Order, NotYet, LeaveWrites, Phase, Kind, STATUS, Present, OneSocketEach,
        sockets, tasks, creation, Goto
<1> SUFFICES ASSUME Inv, Order, Present, [Next]_vars PROVE Present'
  OBVIOUS
<1>1. ASSUME NEW t \in Task, Step(t) PROVE Present'
  <2>0. t[1] \in Client /\ t[2] \in Kind
    BY DEF Task
  <2>1. CASE JoinFind(t)
    <3>1. t = <<t[1], "join">> /\ ~ Listening(t[1])
      BY <2>0, <2>1 DEF JoinFind, Listening
    <3>2. \A u \in Task : pc'[u] = IF u = t THEN pc'[t] ELSE pc[u]
      BY <2>0, <2>1, <3>1 DEF JoinFind, Disconnected
    <3>3. pc'[t] \in {"failed", "sadd"} /\ pc[t] = "find" /\ t[2] = "join"
      BY <2>0, <2>1, <3>1 DEF JoinFind, Disconnected
    <3>4. UNCHANGED <<rec, parts, at, write, faults>>
      BY <2>1 DEF JoinFind
    <3> QED
      BY <3>2, <3>3, <3>4
  <2>2. CASE JoinAdd(t)
    BY <2>0, <2>2 DEF JoinAdd, Placed
  <2>3. CASE LeaveRemove(t)
    <3>1. SUFFICES ASSUME OneSocketEach, NEW u \in Task, u[2] = "join", pc'[u] \in {"read", "write"}
                   PROVE  UserOf[u[1]] \in parts'[at'[u[1]]]
      OBVIOUS
    <3>2. t[2] # "join" /\ pc[t] \in {"srem", "count"} /\ at' = at
      BY <2>0, <2>3 DEF LeaveRemove
    <3>3. pc'[u] = pc[u]
      BY <2>3, <3>1, <3>2 DEF LeaveRemove
    <3>4. pc[<<t[1], "join">>] = "done" /\ u = <<u[1], "join">>
      BY <3>1, <3>2
    <3>5. u[1] # t[1] /\ u[1] \in Client
      BY <3>1, <3>3, <3>4
    <3>6. UserOf[u[1]] # UserOf[t[1]]
      BY <2>0, <3>1, <3>5
    <3>7. UserOf[u[1]] \in parts[at[u[1]]]
      BY <3>1, <3>3
    <3>8. at[u[1]] \in Session /\ at[t[1]] \in Session
      BY <3>1, <3>2, <3>3 DEF Placed
    <3> QED
      BY <2>3, <3>2, <3>6, <3>7, <3>8 DEF LeaveRemove
  <2>4. CASE LeaveCount(t)
    BY <2>0, <2>4 DEF LeaveCount
  <2>5. CASE StatusRead(t)
    BY <2>0, <2>5 DEF StatusRead, Wanted, Rec, JoinStatus, LeaveStatus
  <2>6. CASE StatusWrite(t)
    BY <2>0, <2>6 DEF StatusWrite, Set
  <2>7. CASE CloseFirst(t)
    BY <2>0, <2>7 DEF CloseFirst, Set
  <2>8. CASE CloseSecond(t)
    BY <2>0, <2>8 DEF CloseSecond, Disconnected, Listening
  <2> QED
    BY <1>1, <2>1, <2>2, <2>3, <2>4, <2>5, <2>6, <2>7, <2>8 DEF Step
<1>2. ASSUME NEW t \in Task, Fault(t) PROVE Present'
  <2>0. t[1] \in Client /\ t[2] \in Kind
    BY DEF Task
  <2>1. CASE JoinFails(t)
    BY <2>0, <2>1 DEF JoinFails, Disconnected, Listening
  <2>2. CASE LeaveFails(t)
    <3>1. SUFFICES ASSUME OneSocketEach, NEW u \in Task, u[2] = "join", pc'[u] \in {"read", "write"}
                   PROVE  UserOf[u[1]] \in parts'[at'[u[1]]]
      OBVIOUS
    <3>2. t[2] # "join" /\ pc[t] \in {"srem", "count"} /\ at' = at
      BY <2>0, <2>2 DEF LeaveFails
    <3>3. pc'[u] = pc[u]
      BY <2>2, <3>1, <3>2 DEF LeaveFails
    <3>4. pc[<<t[1], "join">>] = "done" /\ u = <<u[1], "join">>
      BY <3>1, <3>2
    <3>5. u[1] # t[1] /\ u[1] \in Client
      BY <3>1, <3>3, <3>4
    <3>6. UserOf[u[1]] # UserOf[t[1]]
      BY <2>0, <3>1, <3>5
    <3>7. UserOf[u[1]] \in parts[at[u[1]]]
      BY <3>1, <3>3
    <3>8. at[u[1]] \in Session /\ at[t[1]] \in Session
      BY <3>1, <3>2, <3>3 DEF Placed
    <3> QED
      BY <2>2, <3>2, <3>6, <3>7, <3>8 DEF LeaveFails
  <2>3. CASE StatusFails(t)
    BY <2>0, <2>3 DEF StatusFails
  <2>4. CASE CloseFails(t)
    BY <2>0, <2>4 DEF CloseFails
  <2> QED
    BY <1>2, <2>1, <2>2, <2>3, <2>4 DEF Fault
<1>3. ASSUME NEW k \in Client, (\E s \in Session : Connect(k, s)) \/ Leave(k) \/ Drop(k) \/ Close(k) PROVE Present'
  <2>0. \A kind \in Kind : <<k, kind>> \in Task /\ <<k, kind>>[1] = k /\ <<k, kind>>[2] = kind
    BY DEF Task
  <2>1. CASE \E s \in Session : Connect(k, s)
    <3>1. pc[<<k, "join">>] = "idle" /\ pc'[<<k, "join">>] = "find"
      BY <2>0, <2>1 DEF Connect
    <3>2. \A u \in Task : u[2] = "join" /\ pc'[u] \in {"read", "write"}
                        => u[1] # k /\ pc'[u] = pc[u] /\ at'[u[1]] = at[u[1]]
      BY <2>0, <2>1, <3>1 DEF Connect
    <3>3. parts' = parts
      BY <2>1 DEF Connect
    <3> QED
      BY <3>2, <3>3
  <2>2. CASE Leave(k)
    BY <2>0, <2>2 DEF Leave, Listening
  <2>3. CASE Drop(k)
    BY <2>0, <2>3 DEF Drop, Disconnected, Listening
  <2>4. CASE Close(k)
    BY <2>0, <2>4 DEF Close, Listening
  <2> QED
    BY <1>3, <2>1, <2>2, <2>3, <2>4
<1>4. ASSUME NEW c \in Creator, Create(c) \/ CreateStep(c) \/ CreateFails(c) PROVE Present'
  <2>1. CASE Create(c)
    BY <2>1 DEF Create
  <2>2. CASE CreateFind(c)
    BY <2>2 DEF CreateFind
  <2>3. CASE CreateInsert(c)
    BY <2>3 DEF CreateInsert, Created, NewRecord
  <2>4. CASE CreateToken(c)
    BY <2>4 DEF CreateToken
  <2>5. CASE CreateFails(c)
    BY <2>5 DEF CreateFails
  <2> QED
    BY <1>4, <2>1, <2>2, <2>3, <2>4, <2>5 DEF CreateStep
<1>5. ASSUME NEW s \in Session, Expire(s) \/ Sweep(s) PROVE Present'
  <2>1. CASE Expire(s)
    BY <2>1 DEF Expire
  <2>2. CASE Sweep(s)
    BY <2>2 DEF Sweep, Set
  <2> QED
    BY <1>5, <2>1, <2>2
<1>6. CASE UNCHANGED vars
  BY <1>6 DEF vars
<1> QED
  BY <1>1, <1>2, <1>3, <1>4, <1>5, <1>6 DEF Next

\* Every step keeps a session that everybody left on its way out of active.
LEMMA SettledStep == Inv /\ Order /\ Present /\ Settled /\ [Next]_vars => Settled'
<1> USE JoinTask DEF Inv, TypeOK, Placed, Settled, Leaving, Pending, Order, NotYet, Present, Phase, Kind, STATUS,
        sockets, tasks, creation, Goto
<1> SUFFICES ASSUME Inv, Order, Present, Settled, [Next]_vars PROVE Settled'
  OBVIOUS
<1>1. ASSUME NEW t \in Task, Step(t) PROVE Settled'
  <2>0. t[1] \in Client /\ t[2] \in Kind
    BY DEF Task
  <2>1. CASE JoinFind(t)
    <3>1. t = <<t[1], "join">> /\ ~ Listening(t[1])
      BY <2>0, <2>1 DEF JoinFind, Listening
    <3>2. \A u \in Task : pc'[u] = IF u = t THEN pc'[t] ELSE pc[u]
      BY <2>0, <2>1, <3>1 DEF JoinFind, Disconnected
    <3>3. pc'[t] \in {"failed", "sadd"} /\ pc[t] = "find" /\ t[2] = "join"
      BY <2>0, <2>1, <3>1 DEF JoinFind, Disconnected
    <3>4. UNCHANGED <<rec, parts, at, write, faults>>
      BY <2>1 DEF JoinFind
    <3> QED
      BY <3>2, <3>3, <3>4
  <2>2. CASE JoinAdd(t)
    BY <2>0, <2>2 DEF JoinAdd
  <2>3. CASE LeaveRemove(t)
    BY <2>0, <2>3 DEF LeaveRemove
  <2>4. CASE LeaveCount(t)
    BY <2>0, <2>4 DEF LeaveCount
  <2>5. CASE StatusRead(t)
    BY <2>0, <2>5 DEF StatusRead, Wanted, Rec, JoinStatus, LeaveStatus
  <2>6. CASE StatusWrite(t)
    <3>1. CASE t[2] = "join"
      <4>1. faults = 0 /\ OneSocketEach => parts'[at'[t[1]]] # {}
        BY <2>0, <2>6, <3>1 DEF StatusWrite
      <4> QED
        BY <2>0, <2>6, <3>1, <4>1 DEF StatusWrite, Set
    <3>2. CASE t[2] # "join"
      <4>1. t[2] \in {"leave", "disconnect"} /\ write[t] \in {"offline", "ended"}
        BY <2>0, <2>6, <3>2 DEF StatusWrite, LeaveWrites
      <4>2. at[t[1]] \in Session /\ rec[at[t[1]]] \in Record
        BY <2>0, <2>6, RecordType DEF StatusWrite
      <4>3. rec'[at[t[1]]].status # "active"
        BY <2>6, <4>1, <4>2 DEF StatusWrite, Set, Record
      <4>4. \A s \in Session : s # at[t[1]] => rec'[s] = rec[s]
        BY <2>6, <4>2 DEF StatusWrite, Set
      <4> QED
        BY <2>0, <2>6, <4>1, <4>2, <4>3, <4>4 DEF StatusWrite
    <3> QED
      BY <3>1, <3>2
  <2>7. CASE CloseFirst(t)
    BY <2>0, <2>7 DEF CloseFirst, Set
  <2>8. CASE CloseSecond(t)
    <3>1. \A u \in Task : pc'[u] \notin {"idle", "srem"} /\ u[2] \in {"leave", "disconnect"}
                         => pc'[u] = pc[u]
      BY <2>0, <2>8 DEF CloseSecond, Disconnected
    <3>2. \A u \in Task : pc[u] \in Pending /\ u[2] \in {"leave", "disconnect"} => pc'[u] = pc[u]
      BY <2>0, <2>8 DEF CloseSecond, Disconnected
    <3>3. at' = at /\ parts' = parts /\ faults' = faults
      BY <2>8 DEF CloseSecond
    <3>4. at[t[1]] \in Session /\ rec[at[t[1]]] \in Record
      BY <2>0, <2>8, RecordType DEF CloseSecond
    <3>5. rec'[at[t[1]]].status # "active" /\ \A s \in Session : s # at[t[1]] => rec'[s] = rec[s]
      BY <2>8, <3>4 DEF CloseSecond, Record
    <3> QED
      BY <3>1, <3>2, <3>3, <3>4, <3>5
  <2> QED
    BY <1>1, <2>1, <2>2, <2>3, <2>4, <2>5, <2>6, <2>7, <2>8 DEF Step
<1>2. ASSUME NEW t \in Task, Fault(t) PROVE Settled'
  <2>0. t[1] \in Client /\ t[2] \in Kind
    BY DEF Task
  <2>1. CASE JoinFails(t)
    BY <2>0, <2>1 DEF JoinFails, Disconnected, Listening
  <2>2. CASE LeaveFails(t)
    BY <2>0, <2>2 DEF LeaveFails
  <2>3. CASE StatusFails(t)
    BY <2>0, <2>3 DEF StatusFails
  <2>4. CASE CloseFails(t)
    BY <2>0, <2>4 DEF CloseFails
  <2> QED
    BY <1>2, <2>1, <2>2, <2>3, <2>4 DEF Fault
<1>3. ASSUME NEW k \in Client, (\E s \in Session : Connect(k, s)) \/ Leave(k) \/ Drop(k) \/ Close(k) PROVE Settled'
  <2>0. \A kind \in Kind : <<k, kind>> \in Task /\ <<k, kind>>[1] = k /\ <<k, kind>>[2] = kind
    BY DEF Task
  <2>1. CASE \E s \in Session : Connect(k, s)
    BY <2>0, <2>1 DEF Connect
  <2>2. CASE Leave(k)
    BY <2>0, <2>2 DEF Leave, Listening
  <2>3. CASE Drop(k)
    <3>1. \A u \in Task : pc'[u] \notin {"idle", "srem"} /\ u[2] \in {"leave", "disconnect"}
                         => pc'[u] = pc[u]
      BY <2>0, <2>3 DEF Drop, Disconnected
    <3>2. \A u \in Task : pc[u] \in Pending /\ u[2] \in {"leave", "disconnect"} => pc'[u] = pc[u]
      BY <2>0, <2>3 DEF Drop, Disconnected
    <3>3. at' = at /\ parts' = parts /\ faults' = faults
      BY <2>3 DEF Drop
    <3>4. rec' = rec
      BY <2>3 DEF Drop
    <3> QED
      BY <3>1, <3>2, <3>3, <3>4
  <2>4. CASE Close(k)
    BY <2>0, <2>4 DEF Close, Listening
  <2> QED
    BY <1>3, <2>1, <2>2, <2>3, <2>4
<1>4. ASSUME NEW c \in Creator, Create(c) \/ CreateStep(c) \/ CreateFails(c) PROVE Settled'
  <2>1. CASE Create(c)
    BY <2>1 DEF Create
  <2>2. CASE CreateFind(c)
    BY <2>2 DEF CreateFind
  <2>3. CASE CreateInsert(c)
    BY <2>3 DEF CreateInsert, Created, NewRecord
  <2>4. CASE CreateToken(c)
    BY <2>4 DEF CreateToken
  <2>5. CASE CreateFails(c)
    BY <2>5 DEF CreateFails
  <2> QED
    BY <1>4, <2>1, <2>2, <2>3, <2>4, <2>5 DEF CreateStep
<1>5. ASSUME NEW s \in Session, Expire(s) \/ Sweep(s) PROVE Settled'
  <2>1. CASE Expire(s)
    BY <2>1 DEF Expire
  <2>2. CASE Sweep(s)
    BY <2>2 DEF Sweep, Set
  <2> QED
    BY <1>5, <2>1, <2>2
<1>6. CASE UNCHANGED vars
  BY <1>6 DEF vars
<1> QED
  BY <1>1, <1>2, <1>3, <1>4, <1>5, <1>6 DEF Next

-----------------------------------------------------------------------------
(* The theorems. *)

\* The invariant holds in every behaviour.
LEMMA InvAlways == Spec => []Inv
  BY InvInit, InvStep, PTL DEF Spec

\* In every behaviour of every instance the records, the sets and the handlers
\* keep their types.
THEOREM TypeCorrect == Spec => []TypeOK
<1>1. Inv => TypeOK
  BY DEF Inv
<1> QED
  BY <1>1, InvAlways, PTL

\* Without rejected calls and second sockets, a session that everybody has
\* left is not active, whichever stale status was written last.
THEOREM LeftNotActive == Spec => []InactiveWhenLeft
<1>1. Init => Order /\ Present /\ Settled
  BY DEF Init, Order, NotYet, LeaveWrites, Present, Settled, Leaving, Task, Kind
<1>2. Spec => [](Order /\ Present /\ Settled)
  BY <1>1, InvAlways, OrderStep, PresentStep, SettledStep, PTL DEF Spec
<1>3. Settled => InactiveWhenLeft
  BY DEF Settled, InactiveWhenLeft, Left, Leaving, Pending
<1> QED
  BY <1>2, <1>3, PTL
=============================================================================
