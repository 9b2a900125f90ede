------------------------- MODULE SessionMemoryProofs -------------------------
(* Proofs, for every set of pods and sockets, about SessionMemory. *)
EXTENDS SessionMemory, TLAPS

\* A task that loads holds the document object it created.
HeldDoc == \A t \in Task : pc[t] \in Load \ {"load"} => cur[t] = OwnDoc(t)

Inv1 == TypeOK /\ HeldDoc /\ NoOrphanTimer /\ NoOrphanListener

\* The socket, the pod and the kind of a task.
LEMMA TaskPlace ==
    ASSUME NEW t \in Task
    PROVE  /\ t[1] \in Socket /\ P(t) \in Pod /\ t[2] \in Kind
  BY ConstantsAssumption DEF P, Task

\* The user of a socket is a user.
LEMMA UserType == \A k \in Socket : UserOf[k] \in User
  BY DEF User

\* What a load creates is a document, and not None.
LEMMA DocType == \A t \in Task : OwnDoc(t) \in Doc /\ OwnDoc(t) # None
  BY ConstantsAssumption DEF Doc, OwnDoc

\* A task that loads holds a document.
LEMMA HeldDocType ==
    ASSUME HeldDoc, NEW t \in Task, pc[t] \in Load \ {"load"}
    PROVE  cur[t] \in Doc /\ cur[t] # None /\ cur[t] = OwnDoc(t)
  BY DocType DEF HeldDoc

\* initSessionLoops starts intervals only with an entry that owns them.
LEMMA InitSessionLoopsOK ==
    ASSUME TypeOK, NoOrphanTimer, NEW p \in Pod, InitSessionLoops(p)
    PROVE  /\ state' \in [Pod -> BOOLEAN] /\ timers' \in [Pod -> Nat]
           /\ NoOrphanTimer'
<1> USE DEF TypeOK, NoOrphanTimer, InitSessionLoops, loops
<1>1. CASE state[p]
  BY <1>1
<1>2. CASE ~state[p]
  <2>1. /\ state' = [state EXCEPT ![p] = TRUE]
        /\ timers' = [timers EXCEPT ![p] = @ + 1]
    BY <1>2
  <2>2. timers[p] = 0
    BY <1>2
  <2> QED
    BY <2>1, <2>2
<1> QED
  BY <1>1, <1>2

\* The start of a cleanup stops exactly the intervals the entry owns.
LEMMA BeginCleanupOK ==
    ASSUME TypeOK, NoOrphanTimer, NEW p \in Pod, BeginCleanup(p)
    PROVE  /\ state' \in [Pod -> BOOLEAN] /\ timers' \in [Pod -> Nat]
           /\ chan' \in [Pod -> BOOLEAN]
           /\ NoOrphanTimer'
<1> USE DEF TypeOK, NoOrphanTimer, BeginCleanup
<1>1. CASE state[p]
  <2>1. timers' = [timers EXCEPT ![p] = @ - 1] /\ timers[p] = 1
    BY <1>1
  <2> QED
    BY <2>1
<1>2. CASE ~state[p]
  <2>1. timers' = timers /\ timers[p] = 0
    BY <1>2
  <2> QED
    BY <2>1
<1> QED
  BY <1>1, <1>2

\* subscribeToSession attaches a listener only if none is remembered.
LEMMA SubscribeOK ==
    ASSUME TypeOK, NoOrphanListener, NEW p \in Pod, NEW d \in Doc,
           SubscribeToSession(p, d)
    PROVE  /\ sub' \in [Pod -> Doc \cup {None}] /\ listeners' \in [Pod -> Nat]
           /\ chan' \in [Pod -> BOOLEAN]
           /\ NoOrphanListener'
           /\ sub'[p] # None
<1> USE ConstantsAssumption DEF TypeOK, NoOrphanListener, SubscribeToSession, feed
<1>1. CASE sub[p] # None
  BY <1>1
<1>2. CASE sub[p] = None
  <2>1. /\ sub' = [sub EXCEPT ![p] = d]
        /\ listeners' = [listeners EXCEPT ![p] = @ + 1]
        /\ chan' = [chan EXCEPT ![p] = TRUE]
        /\ listeners[p] = 0 /\ d # None
    BY <1>2
  <2>2. listeners' \in [Pod -> Nat]
    BY <2>1
  <2>3. NoOrphanListener'
    BY <2>1
  <2> QED
    BY <2>1, <2>2, <2>3
<1> QED
  BY <1>1, <1>2

\* What a rejected call of a load leaves: no channel goes deaf but that of the
\* refused listener, and a control channel somebody relies on stays subscribed.
LEMMA LoadRejectedOK ==
    ASSUME TypeOK, HeldDoc, NEW t \in Task, LoadRejected(t)
    PROVE  /\ chan' \in [Pod -> BOOLEAN] /\ ctlSub' \in [Pod -> BOOLEAN]
           /\ refused \subseteq refused' /\ refused' \subseteq Doc
           /\ \A p \in Pod : chan[p] => chan'[p] \/ sub[p] \in refused'
           /\ \A p \in Pod : ctlSub[p] /\ ctl[p] > 0 => ctlSub'[p]
           /\ \A u \in Task \ {t} : pc[u] = "control" /\ ctlSub[P(u)] => ctlSub'[P(u)]
<1> USE TaskPlace DEF TypeOK, LoadRejected
<1>1. CASE pc[t] = "subscribe"
  <2>1. cur[t] \in Doc
    BY <1>1, HeldDocType DEF Load
  <2>2. /\ chan' \in {chan, [chan EXCEPT ![P(t)] = @ /\ sub[P(t)] # cur[t]]}
        /\ refused' = refused \cup {cur[t]} /\ UNCHANGED ctlSub
    BY <1>1
  <2> QED
    BY <2>1, <2>2
<1>2. CASE pc[t] = "control"
  <2>1. /\ ctlSub' \in {ctlSub, [ctlSub EXCEPT ![P(t)] = ctl[P(t)] > 0 \/ AlsoSubscribing(t)]}
        /\ UNCHANGED <<chan, refused>>
    BY <1>2
  <2>2. \A u \in Task \ {t} : pc[u] = "control" /\ P(u) = P(t) => AlsoSubscribing(t)
    BY DEF AlsoSubscribing, TasksOn
  <2>3. AlsoSubscribing(t) \in BOOLEAN
    BY DEF AlsoSubscribing
  <2> QED
    BY <2>1, <2>2, <2>3
<1>3. CASE pc[t] \notin {"subscribe", "control"}
  BY <1>3
<1> QED
  BY <1>1, <1>2, <1>3

\* A rejected UNSUBSCRIBE can leave only the listener it was for deaf.
LEMMA UnsubscribeRejectedOK ==
    ASSUME TypeOK, NEW p \in Pod, UnsubscribeRejected(p)
    PROVE  /\ chan' \in [Pod -> BOOLEAN] /\ UNCHANGED ctlSub
           /\ refused \subseteq refused' /\ refused' \subseteq Doc
           /\ sub[p] # None => sub[p] \in refused'
           /\ \A q \in Pod \ {p} : chan'[q] = chan[q]
  BY DEF TypeOK, UnsubscribeRejected

\* The initial states satisfy the first invariant.
LEMMA Inv1Init == Init => Inv1
  BY DEF Init, Inv1, TypeOK, HeldDoc, NoOrphanTimer, NoOrphanListener, Phase, PC, Kind, Load

\* Every step preserves it.
LEMMA Inv1Step == Inv1 /\ [Next]_vars => Inv1'
<1> USE UserType, DocType DEF Inv1, TypeOK, HeldDoc, NoOrphanTimer, NoOrphanListener, Phase, PC, Kind,
            Load, OwnDoc, client, registry, loops, feed, control, history, budget, Goto
<1> SUFFICES ASSUME Inv1, [Next]_vars PROVE Inv1'
  OBVIOUS
<1>1. ASSUME NEW t \in Task, Step(t) PROVE Inv1'
  <2>0. t[1] \in Socket /\ P(t) \in Pod /\ t[2] \in Kind
    BY TaskPlace
  <2>1. CASE JoinRefuse(t)
    BY <2>0, <2>1 DEF JoinRefuse, Disconnected
  <2>2. CASE JoinAdmit(t)
    BY <2>0, <2>2 DEF JoinAdmit
  <2>3. CASE JoinAdd(t)
    BY <2>0, <2>3 DEF JoinAdd
  <2>4. CASE JoinServe(t)
    BY <2>0, <2>4 DEF JoinServe, Answer
  <2>5. CASE JoinRestore(t)
    BY <2>0, <2>5 DEF JoinRestore, BeginCleanup
  <2>6. CASE JoinCleaned(t)
    BY <2>0, <2>6 DEF JoinCleaned, FinishCleanup, DropEntries
  <2>7. CASE JoinReturns(t)
    BY <2>0, <2>7 DEF JoinReturns
  <2>8. CASE LoadPresent(t)
    <3>1. CASE t[2] = "join"
      <4>1. TypeOK'
        <5>1. pc' \in [Task -> PC] /\ \A u \in Task : pc'[u] \in Phase(u[2])
          BY <2>0, <2>8, <3>1 DEF LoadPresent, Resume
        <5>2. state' \in [Pod -> BOOLEAN] /\ timers' \in [Pod -> Nat]
          BY <2>0, <2>8, InitSessionLoopsOK DEF LoadPresent
        <5>3. answer' \in [Socket -> {None, "bare", "restored"}]
          BY <2>0, <2>8, <3>1 DEF LoadPresent, Resume, Answer
        <5> QED
          BY <2>0, <2>8, <3>1, <5>1, <5>2, <5>3 DEF LoadPresent
      <4>2. HeldDoc'
        BY <2>0, <2>8, <3>1 DEF LoadPresent, InitSessionLoops, Resume, Answer
      <4>3. NoOrphanTimer' /\ NoOrphanListener'
        BY <2>0, <2>8, <3>1 DEF LoadPresent, InitSessionLoops, Resume, Answer
      <4> QED
        BY <4>1, <4>2, <4>3
    <3>2. CASE t[2] # "join"
      <4>1. TypeOK'
        <5>1. pc' \in [Task -> PC] /\ \A u \in Task : pc'[u] \in Phase(u[2])
          BY <2>0, <2>8, <3>2 DEF LoadPresent, Resume
        <5>2. state' \in [Pod -> BOOLEAN] /\ timers' \in [Pod -> Nat]
          BY <2>0, <2>8, InitSessionLoopsOK DEF LoadPresent
        <5>3. answer' \in [Socket -> {None, "bare", "restored"}]
          BY <2>0, <2>8, <3>2 DEF LoadPresent, Resume
        <5> QED
          BY <2>0, <2>8, <3>2, <5>1, <5>2, <5>3 DEF LoadPresent
      <4>2. HeldDoc'
        BY <2>0, <2>8, <3>2 DEF LoadPresent, InitSessionLoops, Resume
      <4>3. NoOrphanTimer' /\ NoOrphanListener'
        BY <2>0, <2>8, <3>2 DEF LoadPresent, InitSessionLoops, Resume
      <4> QED
        BY <4>1, <4>2, <4>3
    <3> QED
      BY <3>1, <3>2
  <2>9. CASE LoadNew(t)
    <3>1. TypeOK'
      <4>1. pc' \in [Task -> PC] /\ \A u \in Task : pc'[u] \in Phase(u[2])
        BY <2>0, <2>9 DEF LoadNew
      <4>2. doc' \in [Pod -> Doc \cup {None}] /\ cur' \in [Task -> Doc \cup {None}]
        BY <2>0, <2>9 DEF LoadNew
      <4>3. sub' \in [Pod -> Doc \cup {None}]
        BY <2>0, <2>9 DEF LoadNew, SubscribeToSession
      <4>4. listeners' \in [Pod -> Nat] /\ chan' \in [Pod -> BOOLEAN]
        BY <2>0, <2>9, SubscribeOK DEF LoadNew
      <4> QED
        BY <2>0, <2>9, <4>1, <4>2, <4>3, <4>4 DEF LoadNew
    <3>2. HeldDoc'
      BY <2>0, <2>9 DEF LoadNew, SubscribeToSession
    <3>3. NoOrphanTimer' /\ NoOrphanListener'
      BY <2>0, <2>9 DEF LoadNew, SubscribeToSession
    <3> QED
      BY <3>1, <3>2, <3>3
  <2>10. CASE LoadSnapshot(t)
    BY <2>0, <2>10, HeldDocType DEF LoadSnapshot
  <2>11. CASE LoadMetadata(t)
    BY <2>0, <2>11 DEF LoadMetadata
  <2>12. CASE LoadControl(t)
    <3>1. CASE t[2] = "join"
      <4>1. TypeOK'
        <5>1. pc' \in [Task -> PC] /\ \A u \in Task : pc'[u] \in Phase(u[2])
          BY <2>0, <2>12, <3>1, HeldDocType DEF LoadControl, Resume
        <5>2. state' \in [Pod -> BOOLEAN] /\ timers' \in [Pod -> Nat]
          BY <2>0, <2>12, InitSessionLoopsOK DEF LoadControl
        <5>3. answer' \in [Socket -> {None, "bare", "restored"}]
          BY <2>0, <2>12, <3>1, HeldDocType DEF LoadControl, Resume, Answer
        <5>4. ctl' \in [Pod -> Nat] /\ ready' \subseteq Doc /\ cur' \in [Task -> Doc \cup {None}]
          BY <2>0, <2>12, HeldDocType DEF LoadControl
        <5> QED
          BY <2>12, <5>1, <5>2, <5>3, <5>4 DEF LoadControl
      <4>2. HeldDoc'
        BY <2>0, <2>12, <3>1, HeldDocType DEF LoadControl, InitSessionLoops, Resume, Answer
      <4>3. NoOrphanTimer' /\ NoOrphanListener'
        BY <2>0, <2>12, <3>1, HeldDocType DEF LoadControl, InitSessionLoops, Resume, Answer
      <4> QED
        BY <4>1, <4>2, <4>3
    <3>2. CASE t[2] # "join"
      <4>1. TypeOK'
        <5>1. pc' \in [Task -> PC] /\ \A u \in Task : pc'[u] \in Phase(u[2])
          BY <2>0, <2>12, <3>2, HeldDocType DEF LoadControl, Resume
        <5>2. state' \in [Pod -> BOOLEAN] /\ timers' \in [Pod -> Nat]
          BY <2>0, <2>12, InitSessionLoopsOK DEF LoadControl
        <5>3. answer' \in [Socket -> {None, "bare", "restored"}]
          BY <2>0, <2>12, <3>2, HeldDocType DEF LoadControl, Resume
        <5>4. ctl' \in [Pod -> Nat] /\ ready' \subseteq Doc /\ cur' \in [Task -> Doc \cup {None}]
          BY <2>0, <2>12, HeldDocType DEF LoadControl
        <5> QED
          BY <2>12, <5>1, <5>2, <5>3, <5>4 DEF LoadControl
      <4>2. HeldDoc'
        BY <2>0, <2>12, <3>2, HeldDocType DEF LoadControl, InitSessionLoops, Resume
      <4>3. NoOrphanTimer' /\ NoOrphanListener'
        BY <2>0, <2>12, <3>2, HeldDocType DEF LoadControl, InitSessionLoops, Resume
      <4> QED
        BY <4>1, <4>2, <4>3
    <3> QED
      BY <3>1, <3>2
  <2>13. CASE UpdateReturns(t)
    BY <2>0, <2>13 DEF UpdateReturns
  <2>14. CASE LeaveRemove(t)
    BY <2>0, <2>14 DEF LeaveRemove
  <2>15. CASE LeaveCount(t)
    BY <2>0, <2>15 DEF LeaveCount
  <2>16. CASE LeaveDestroy(t)
    BY <2>0, <2>16 DEF LeaveDestroy
  <2>17. CASE LeaveRelease(t)
    <3>1. CASE doc[P(t)] = None
      <4>1. TypeOK'
        <5>1. pc' \in [Task -> PC] /\ \A u \in Task : pc'[u] \in Phase(u[2])
          BY <2>0, <2>17, <3>1 DEF LeaveRelease
        <5>2. doc' \in [Pod -> Doc \cup {None}] /\ meta' \in [Pod -> BOOLEAN]
          BY <2>0, <2>17, <3>1 DEF LeaveRelease, DropEntries
        <5> QED
          BY <2>0, <2>17, <3>1, <5>1, <5>2 DEF LeaveRelease
      <4>2. HeldDoc'
        BY <2>0, <2>17, <3>1 DEF LeaveRelease, DropEntries
      <4>3. NoOrphanTimer' /\ NoOrphanListener'
        BY <2>0, <2>17, <3>1 DEF LeaveRelease, DropEntries
      <4> QED
        BY <4>1, <4>2, <4>3
    <3>2. CASE doc[P(t)] # None
      BY <2>0, <2>17, <3>2 DEF LeaveRelease
    <3> QED
      BY <3>1, <3>2
  <2>18. CASE LeaveReleased(t)
    BY <2>0, <2>18 DEF LeaveReleased, Abandon, DropEntries
  <2>19. CASE CloseFind(t)
    BY <2>0, <2>19 DEF CloseFind
  <2>20. CASE CloseSaved(t)
    BY <2>0, <2>20 DEF CloseSaved, Abandon, DropEntries
  <2>21. CASE CloseKick(t)
    BY <2>0, <2>21 DEF CloseKick, Disconnected
  <2>22. CASE LoadSubscribed(t)
    BY <2>0, <2>22 DEF LoadSubscribed
  <2> QED
    BY <1>1, <2>1, <2>2, <2>3, <2>4, <2>5, <2>6, <2>7, <2>8, <2>9, <2>10, <2>11, <2>12, <2>13, <2>14, <2>15, <2>16, <2>17, <2>18, <2>19, <2>20, <2>21, <2>22 DEF Step
<1>2. ASSUME NEW t \in Task, Fault(t) PROVE Inv1'
  <2>0. t[1] \in Socket /\ P(t) \in Pod /\ t[2] \in Kind
    BY TaskPlace
  <2>1. CASE RestoreFails(t)
    <3>1. /\ chan' \in [Pod -> BOOLEAN] /\ ctlSub' \in [Pod -> BOOLEAN]
          /\ refused' \subseteq Doc
      BY <2>0, <2>1, LoadRejectedOK, UnsubscribeRejectedOK DEF RestoreFails
    <3> QED
      BY <2>0, <2>1, <3>1 DEF RestoreFails
  <2>2. CASE JoinFails(t)
    <3>1. /\ chan' \in [Pod -> BOOLEAN] /\ ctlSub' \in [Pod -> BOOLEAN]
          /\ refused' \subseteq Doc
      BY <2>0, <2>2, LoadRejectedOK DEF JoinFails
    <3> QED
      BY <2>0, <2>2, <3>1 DEF JoinFails, Disconnected
  <2>3. CASE DestroySwallowed(t)
    BY <2>0, <2>3 DEF DestroySwallowed
  <2>4. CASE LeaveFails(t)
    BY <2>0, <2>4 DEF LeaveFails
  <2>5. CASE CloseFails(t)
    BY <2>0, <2>5 DEF CloseFails
  <2> QED
    BY <1>2, <2>1, <2>2, <2>3, <2>4, <2>5 DEF Fault
<1>3. ASSUME NEW k \in Socket, Event(k) PROVE Inv1'
  <2>0. \A kind \in Kind : <<k, kind>> \in Task /\ <<k, kind>>[2] = kind
    BY DEF Task
  <2>1. CASE Connect(k)
    BY <2>0, <2>1 DEF Connect, JoinOf
  <2>2. CASE Update(k)
    BY <2>0, <2>2 DEF Update
  <2>3. CASE Leave(k)
    BY <2>0, <2>3 DEF Leave
  <2>4. CASE Close(k)
    BY <2>0, <2>4 DEF Close
  <2>5. CASE Drop(k)
    BY <2>0, <2>5 DEF Drop, Disconnected
  <2> QED
    BY <1>3, <2>1, <2>2, <2>3, <2>4, <2>5 DEF Event
<1>4. ASSUME NEW p \in Pod, PodStep(p) \/ Crash(p) PROVE Inv1'
  <2>1. CASE DestroyReceived(p)
    <3>1. CASE ctl[p] = 0
      BY <2>1, <3>1 DEF DestroyReceived
    <3>2. CASE ctl[p] # 0
      <4>1. TypeOK'
        <5>1. state' \in [Pod -> BOOLEAN] /\ timers' \in [Pod -> Nat] /\ chan' \in [Pod -> BOOLEAN]
          BY <2>1, <3>2, BeginCleanupOK DEF DestroyReceived
        <5>2. ctlq' \in [Pod -> Nat] /\ cleaning' \in [Pod -> Nat]
          BY <2>1, <3>2 DEF DestroyReceived
        <5> QED
          BY <2>1, <3>2, <5>1, <5>2 DEF DestroyReceived
      <4>2. HeldDoc'
        BY <2>1, <3>2 DEF DestroyReceived, BeginCleanup
      <4>3. NoOrphanTimer' /\ NoOrphanListener'
        BY <2>1, <3>2 DEF DestroyReceived, BeginCleanup
      <4> QED
        BY <4>1, <4>2, <4>3
    <3> QED
      BY <3>1, <3>2
  <2>2. CASE DestroyCleaned(p)
    BY <1>4, <2>2 DEF DestroyCleaned, FinishCleanup, DropEntries
  <2>3. CASE Crash(p)
    BY <1>4, <2>3 DEF Crash, DropEntries
  <2> QED
    BY <1>4, <2>1, <2>2, <2>3 DEF PodStep
<1>5. CASE UNCHANGED vars
  BY <1>5 DEF vars
<1> QED
  BY <1>1, <1>2, <1>3, <1>4, <1>5 DEF Next

-----------------------------------------------------------------------------
(* A listener is registered without its channels being subscribed only       *)
(* between the two halves of a cleanup, or after a rejected call about it.   *)

\* No step leaves a registered listener deaf without a cleanup running or a
\* rejection.
LEMMA NeverDeafStep == Inv1 /\ NeverDeaf /\ [Next]_vars => NeverDeaf'
<1> USE DEF Inv1, TypeOK, NeverDeaf, Cleaning, TasksOn,
            client, registry, loops, feed, control, history, budget, Goto
<1> SUFFICES ASSUME Inv1, NeverDeaf, [Next]_vars PROVE NeverDeaf'
  OBVIOUS
<1>1. ASSUME NEW t \in Task, Step(t) PROVE NeverDeaf'
  <2>0. t[1] \in Socket /\ P(t) \in Pod /\ t[2] \in Kind
    BY TaskPlace
  <2>1. CASE JoinRefuse(t)
    BY <2>0, <2>1 DEF JoinRefuse, Disconnected
  <2>2. CASE JoinAdmit(t)
    BY <2>0, <2>2 DEF JoinAdmit
  <2>3. CASE JoinAdd(t)
    BY <2>0, <2>3 DEF JoinAdd
  <2>4. CASE JoinServe(t)
    BY <2>0, <2>4 DEF JoinServe, Answer
  <2>5. CASE JoinRestore(t)
    BY <2>0, <2>5 DEF JoinRestore, BeginCleanup
  <2>6. CASE JoinCleaned(t)
    BY <2>0, <2>6 DEF JoinCleaned, FinishCleanup, DropEntries
  <2>7. CASE JoinReturns(t)
    BY <2>0, <2>7 DEF JoinReturns
  <2>8. CASE LoadPresent(t)
    BY <2>0, <2>8 DEF LoadPresent, InitSessionLoops, Resume, Answer
  <2>9. CASE LoadNew(t)
    BY <2>0, <2>9 DEF LoadNew, SubscribeToSession
  <2>10. CASE LoadSnapshot(t)
    BY <2>0, <2>10 DEF LoadSnapshot
  <2>11. CASE LoadMetadata(t)
    BY <2>0, <2>11 DEF LoadMetadata
  <2>12. CASE LoadControl(t)
    BY <2>0, <2>12 DEF LoadControl, InitSessionLoops, Resume, Answer
  <2>13. CASE UpdateReturns(t)
    BY <2>0, <2>13 DEF UpdateReturns
  <2>14. CASE LeaveRemove(t)
    BY <2>0, <2>14 DEF LeaveRemove
  <2>15. CASE LeaveCount(t)
    BY <2>0, <2>15 DEF LeaveCount
  <2>16. CASE LeaveDestroy(t)
    BY <2>0, <2>16 DEF LeaveDestroy
  <2>17. CASE LeaveRelease(t)
    BY <2>0, <2>17 DEF LeaveRelease, DropEntries
  <2>18. CASE LeaveReleased(t)
    BY <2>0, <2>18 DEF LeaveReleased, Abandon, DropEntries
  <2>19. CASE CloseFind(t)
    BY <2>0, <2>19 DEF CloseFind
  <2>20. CASE CloseSaved(t)
    BY <2>0, <2>20 DEF CloseSaved, Abandon, DropEntries
  <2>21. CASE CloseKick(t)
    BY <2>0, <2>21 DEF CloseKick, Disconnected
  <2>22. CASE LoadSubscribed(t)
    BY <2>0, <2>22 DEF LoadSubscribed
  <2> QED
    BY <1>1, <2>1, <2>2, <2>3, <2>4, <2>5, <2>6, <2>7, <2>8, <2>9, <2>10, <2>11, <2>12, <2>13, <2>14, <2>15, <2>16, <2>17, <2>18, <2>19, <2>20, <2>21, <2>22 DEF Step
<1>2. ASSUME NEW t \in Task, Fault(t) PROVE NeverDeaf'
  <2>0. t[1] \in Socket /\ P(t) \in Pod /\ t[2] \in Kind
    BY TaskPlace
  <2>1. CASE RestoreFails(t)
    <3>1. UNCHANGED <<sub, cleaning>> /\ pc' = [pc EXCEPT ![t] = "load"]
      BY <2>1 DEF RestoreFails
    <3>2. CASE pc[t] = "cleanup"
      BY <2>0, <2>1, <3>1, <3>2, UnsubscribeRejectedOK DEF RestoreFails
    <3>3. CASE pc[t] # "cleanup"
      <4>1. /\ refused \subseteq refused'
            /\ \A p \in Pod : chan[p] => chan'[p] \/ sub[p] \in refused'
        BY <2>0, <2>1, <3>3, LoadRejectedOK DEF RestoreFails
      <4> QED
        BY <2>0, <3>1, <3>3, <4>1
    <3> QED
      BY <3>2, <3>3
  <2>2. CASE JoinFails(t)
    <3>1. /\ UNCHANGED <<sub, cleaning>> /\ pc[t] # "cleanup"
          /\ \A u \in Task : pc[u] = "cleanup" => pc'[u] = "cleanup"
      BY <2>0, <2>2 DEF JoinFails, Disconnected, Load
    <3>2. /\ refused \subseteq refused'
          /\ \A p \in Pod : chan[p] => chan'[p] \/ sub[p] \in refused'
      BY <2>0, <2>2, LoadRejectedOK DEF JoinFails
    <3> QED
      BY <2>0, <3>1, <3>2
  <2>3. CASE DestroySwallowed(t)
    BY <2>0, <2>3 DEF DestroySwallowed
  <2>4. CASE LeaveFails(t)
    BY <2>0, <2>4 DEF LeaveFails
  <2>5. CASE CloseFails(t)
    BY <2>0, <2>5 DEF CloseFails
  <2> QED
    BY <1>2, <2>1, <2>2, <2>3, <2>4, <2>5 DEF Fault
<1>3. ASSUME NEW k \in Socket, Event(k) PROVE NeverDeaf'
  <2>0. \A kind \in Kind : <<k, kind>> \in Task /\ <<k, kind>>[2] = kind
    BY DEF Task
  <2>1. CASE Connect(k)
    BY <2>0, <2>1 DEF Connect
  <2>2. CASE Update(k)
    BY <2>0, <2>2 DEF Update
  <2>3. CASE Leave(k)
    BY <2>0, <2>3 DEF Leave
  <2>4. CASE Close(k)
    BY <2>0, <2>4 DEF Close
  <2>5. CASE Drop(k)
    BY <2>0, <2>5 DEF Drop, Disconnected
  <2> QED
    BY <1>3, <2>1, <2>2, <2>3, <2>4, <2>5 DEF Event
<1>4. ASSUME NEW p \in Pod, PodStep(p) \/ Crash(p) PROVE NeverDeaf'
  <2>1. CASE DestroyReceived(p)
    <3>1. CASE ctl[p] = 0
      BY <2>1, <3>1 DEF DestroyReceived
    <3>2. CASE ctl[p] # 0
      <4>1. UNCHANGED <<pc, sub, refused>> /\ chan' = [chan EXCEPT ![p] = FALSE]
        BY <2>1, <3>2 DEF DestroyReceived, BeginCleanup
      <4>2. cleaning' = [cleaning EXCEPT ![p] = @ + ctl[p]] /\ ctl[p] \in Nat /\ cleaning[p] \in Nat
        BY <2>1 DEF DestroyReceived
      <4>3. cleaning'[p] > 0 /\ \A q \in Pod \ {p} : cleaning'[q] = cleaning[q]
        BY <3>2, <4>2
      <4> QED
        BY <4>1, <4>3
    <3> QED
      BY <3>1, <3>2
  <2>2. CASE DestroyCleaned(p)
    BY <1>4, <2>2 DEF DestroyCleaned, FinishCleanup, DropEntries
  <2>3. CASE Crash(p)
    BY <1>4, <2>3 DEF Crash, DropEntries
  <2> QED
    BY <1>4, <2>1, <2>2, <2>3 DEF PodStep
<1>5. CASE UNCHANGED vars
  BY <1>5 DEF vars
<1> QED
  BY <1>1, <1>2, <1>3, <1>4, <1>5 DEF Next

-----------------------------------------------------------------------------
(* A document that was loaded completely is served.                          *)

\* A document in memory belongs to a load of its own pod, and a listener is
\* registered with it.
Housed == \A p \in Pod : doc[p] # None => P(doc[p][1]) = p /\ sub[p] # None

\* The listener of a pod is that of its document, or a leave or a close has
\* dropped the document it is for.
Bound == \A p \in Pod : sub[p] # None => sub[p] = doc[p] \/ sub[p] \in dropped

\* A load is over once its document is ready.
ReadyIsOver == \A d \in ready : pc[d[1]] \in {"status", "publish", "done", "failed"}

\* The last await of a load: if its document is still in memory, so is its
\* metadata, and DESTROY will be heard.
AlmostReady == \A t \in Task :
    pc[t] = "control" /\ doc[P(t)] = cur[t] => meta[P(t)] /\ ctlSub[P(t)]

\* A document that is ready is served, or a DESTROY callback is removing it.
ReadyServed == \A p \in Pod : doc[p] \in ready =>
    /\ meta[p] /\ ctlSub[p] /\ ctl[p] > 0
    /\ state[p] \/ cleaning[p] > 0

Inv2 == Housed /\ Bound /\ ReadyIsOver /\ AlmostReady /\ ReadyServed

\* The pod of a task is a pod and the document it creates is a document.
LEMMA Places ==
    /\ \A t \in Task : P(t) \in Pod /\ OwnDoc(t) \in Doc /\ OwnDoc(t)[1] = t
    /\ \A d \in Doc : d[1] \in Task /\ d # None
  BY TaskPlace, ConstantsAssumption DEF Doc, OwnDoc

\* Every step preserves the second invariant.
LEMMA Inv2Step == Inv1 /\ Inv2 /\ [Next]_vars => Inv2'
<1> USE Places DEF Inv1, TypeOK, Inv2, Housed, Bound, ReadyIsOver, AlmostReady, ReadyServed,
            client, registry, loops, feed, control, history, budget, Goto
<1> SUFFICES ASSUME Inv1, Inv2, [Next]_vars PROVE Inv2'
  OBVIOUS
<1>1. ASSUME NEW t \in Task, Step(t) PROVE Inv2'
  <2>0. t[1] \in Socket /\ P(t) \in Pod /\ t[2] \in Kind
    BY TaskPlace
  <2>1. CASE JoinRefuse(t)
    BY <2>0, <2>1 DEF JoinRefuse, Disconnected
  <2>2. CASE JoinAdmit(t)
    BY <2>0, <2>2 DEF JoinAdmit
  <2>3. CASE JoinAdd(t)
    BY <2>0, <2>3 DEF JoinAdd
  <2>4. CASE JoinServe(t)
    BY <2>0, <2>4 DEF JoinServe, Answer
  <2>5. CASE JoinRestore(t)
    BY <2>0, <2>5 DEF JoinRestore, BeginCleanup
  <2>6. CASE JoinCleaned(t)
    <3>1. /\ \A u \in Task : u # t => pc'[u] = pc[u]
          /\ pc[t] = "cleanup" /\ pc'[t] = "load"
      BY <2>0, <2>6 DEF JoinCleaned
    <3>2. /\ doc' = [doc EXCEPT ![P(t)] = None] /\ meta' = [meta EXCEPT ![P(t)] = FALSE]
          /\ sub' = [sub EXCEPT ![P(t)] = None]
          /\ UNCHANGED <<state, ctlSub, ctl, cleaning, ready, dropped, cur>>
      BY <2>6 DEF JoinCleaned, FinishCleanup, DropEntries
    <3>3. Housed' /\ Bound' /\ ReadyServed'
      BY <2>0, <3>2
    <3>4. ReadyIsOver'
      BY <3>1, <3>2
    <3>5. AlmostReady'
      BY <2>0, <3>1, <3>2, HeldDocType DEF Load
    <3> QED
      BY <3>3, <3>4, <3>5
  <2>7. CASE JoinReturns(t)
    BY <2>0, <2>7 DEF JoinReturns
  <2>8. CASE LoadPresent(t)
    <3>1. \A u \in Task : pc[u] # "load" => pc'[u] = pc[u]
      BY <2>0, <2>8 DEF LoadPresent, Resume
    <3>2. pc'[t] \in {"status", "publish"}
      BY <2>0, <2>8 DEF LoadPresent, Resume
    <3>3. \A p \in Pod : state[p] => state'[p]
      BY <2>0, <2>8 DEF LoadPresent, InitSessionLoops
    <3>4. UNCHANGED <<doc, meta, sub, ctlSub, ctl, cleaning, ready, dropped, cur>>
      BY <2>8 DEF LoadPresent
    <3>5. \A u \in Task : u # t => pc'[u] = pc[u]
      BY <2>0, <2>8 DEF LoadPresent, Resume
    <3> QED
      BY <2>0, <2>8, <3>1, <3>2, <3>3, <3>4, <3>5 DEF LoadPresent
  <2>9. CASE LoadNew(t)
    <3>1. /\ \A u \in Task : u # t => pc'[u] = pc[u] /\ cur'[u] = cur[u]
          /\ pc[t] = "load" /\ pc'[t] \in {"subscribe", "snapshot"}
          /\ doc[P(t)] = None /\ doc' = [doc EXCEPT ![P(t)] = OwnDoc(t)]
          /\ UNCHANGED <<meta, state, ctlSub, ctl, cleaning, ready, dropped>>
      BY <2>0, <2>9 DEF LoadNew
    <3>2. /\ \A p \in Pod \ {P(t)} : sub'[p] = sub[p]
          /\ sub'[P(t)] = IF sub[P(t)] = None THEN OwnDoc(t) ELSE sub[P(t)]
      BY <2>0, <2>9 DEF LoadNew, SubscribeToSession
    <3>3. OwnDoc(t) \notin ready
      BY <3>1
    <3>4. Housed' /\ Bound'
      BY <2>0, <3>1, <3>2
    <3>5. ReadyIsOver' /\ ReadyServed'
      BY <2>0, <3>1, <3>3
    <3>6. AlmostReady'
      <4> SUFFICES ASSUME NEW u \in Task, pc'[u] = "control", doc'[P(u)] = cur'[u]
                   PROVE  meta'[P(u)] /\ ctlSub'[P(u)]
        OBVIOUS
      <4>1. u # t /\ pc[u] = "control" /\ cur'[u] = OwnDoc(u)
        BY <3>1, HeldDocType DEF Load
      <4>2. OwnDoc(u) # OwnDoc(t)
        BY <4>1
      <4> QED
        BY <2>0, <3>1, <4>1, <4>2
    <3> QED
      BY <3>4, <3>5, <3>6
  <2>10. CASE LoadSnapshot(t)
    BY <2>0, <2>10 DEF LoadSnapshot
  <2>11. CASE LoadMetadata(t)
    BY <2>0, <2>11 DEF LoadMetadata
  <2>12. CASE LoadControl(t)
    <3>1. /\ pc[t] = "control" /\ pc'[t] \in {"status", "publish"}
          /\ \A u \in Task : u # t => pc'[u] = pc[u] /\ cur'[u] = cur[u]
      BY <2>0, <2>12 DEF LoadControl, Resume
    <3>2. /\ \A p \in Pod : state[p] => state'[p]
          /\ state'[P(t)]
      BY <2>0, <2>12 DEF LoadControl, InitSessionLoops
    <3>3. /\ UNCHANGED <<doc, meta, sub, ctlSub, cleaning, dropped>>
          /\ ready' = ready \cup {cur[t]}
          /\ \A p \in Pod : ctl'[p] >= ctl[p] /\ ctl'[p] \in Nat
          /\ ctl'[P(t)] > 0
      BY <2>0, <2>12 DEF LoadControl
    <3>4. cur[t] = OwnDoc(t)
      BY <3>1, HeldDocType DEF Load
    <3>5. Housed' /\ Bound' /\ ReadyIsOver' /\ AlmostReady'
      BY <2>0, <3>1, <3>3, <3>4
    <3>6. ReadyServed'
      BY <2>0, <3>1, <3>2, <3>3, <3>4
    <3> QED
      BY <3>5, <3>6
  <2>13. CASE UpdateReturns(t)
    BY <2>0, <2>13 DEF UpdateReturns
  <2>14. CASE LeaveRemove(t)
    BY <2>0, <2>14 DEF LeaveRemove
  <2>15. CASE LeaveCount(t)
    BY <2>0, <2>15 DEF LeaveCount
  <2>16. CASE LeaveDestroy(t)
    BY <2>0, <2>16 DEF LeaveDestroy
  <2>17. CASE LeaveRelease(t)
    <3>1. CASE doc[P(t)] = None
      <4>1. pc[t] = "release" /\ pc' = [pc EXCEPT ![t] = "done"] /\ DropEntries(P(t))
        BY <2>17, <3>1 DEF LeaveRelease
      <4>2. UNCHANGED <<state, sub, ctlSub, ctl, cleaning, ready, dropped, cur>>
        BY <2>17, <3>1 DEF LeaveRelease
      <4>3. \A u \in Task : u # t => pc'[u] = pc[u]
        BY <4>1
      <4>4. pc'[t] = "done"
        BY <2>0, <4>1
      <4>5. \A p \in Pod : /\ doc'[p] = doc[p]
                           /\ p # P(t) => meta'[p] = meta[p]
        BY <2>0, <3>1, <4>1 DEF DropEntries
      <4>6. Housed' /\ Bound'
        BY <4>2, <4>5
      <4>7. ReadyIsOver'
        BY <4>1, <4>2, <4>3, <4>4
      <4>8. AlmostReady'
        BY <2>0, <3>1, <4>2, <4>3, <4>4, <4>5, HeldDocType DEF Load
      <4>9. ReadyServed'
        BY <2>0, <3>1, <4>2, <4>5
      <4> QED
        BY <4>6, <4>7, <4>8, <4>9
    <3>2. CASE doc[P(t)] # None
      <4>1. /\ pc' = [pc EXCEPT ![t] = "saving"] /\ pc[t] = "release"
            /\ \A u \in Task : u # t => cur'[u] = cur[u]
            /\ UNCHANGED <<doc, meta, state, sub, ctlSub, ctl, cleaning, ready, dropped>>
        BY <2>17, <3>2 DEF LeaveRelease
      <4>2. Housed' /\ Bound' /\ ReadyServed'
        BY <4>1
      <4>3. ReadyIsOver'
        BY <4>1
      <4>4. AlmostReady'
        BY <4>1
      <4> QED
        BY <4>2, <4>3, <4>4
    <3> QED
      BY <3>1, <3>2
  <2>18. CASE LeaveReleased(t)
    <3>1. /\ \A u \in Task : u # t => pc'[u] = pc[u] /\ cur'[u] = cur[u]
          /\ pc[t] = "saving" /\ pc'[t] = "done"
      BY <2>0, <2>18 DEF LeaveReleased
    <3>2. /\ doc' = [doc EXCEPT ![P(t)] = None] /\ meta' = [meta EXCEPT ![P(t)] = FALSE]
          /\ dropped' = dropped \cup ({doc[P(t)]} \ {None})
          /\ UNCHANGED <<state, sub, ctlSub, ctl, cleaning, ready>>
      BY <2>18 DEF LeaveReleased, Abandon, DropEntries
    <3>3. Housed' /\ Bound' /\ ReadyServed'
      BY <2>0, <3>2
    <3>4. ReadyIsOver'
      BY <3>1, <3>2
    <3>5. AlmostReady'
      BY <2>0, <3>1, <3>2, HeldDocType DEF Load
    <3> QED
      BY <3>3, <3>4, <3>5
  <2>19. CASE CloseFind(t)
    BY <2>0, <2>19 DEF CloseFind
  <2>20. CASE CloseSaved(t)
    <3>1. /\ \A u \in Task : u # t => pc'[u] = pc[u] /\ cur'[u] = cur[u]
          /\ pc[t] = "saving" /\ pc'[t] = "write"
      BY <2>0, <2>20 DEF CloseSaved
    <3>2. /\ doc' = [doc EXCEPT ![P(t)] = None] /\ meta' = [meta EXCEPT ![P(t)] = FALSE]
          /\ dropped' = dropped \cup ({doc[P(t)]} \ {None})
          /\ UNCHANGED <<state, sub, ctlSub, ctl, cleaning, ready>>
      BY <2>20 DEF CloseSaved, Abandon, DropEntries
    <3>3. Housed' /\ Bound' /\ ReadyServed'
      BY <2>0, <3>2
    <3>4. ReadyIsOver'
      BY <3>1, <3>2
    <3>5. AlmostReady'
      BY <2>0, <3>1, <3>2, HeldDocType DEF Load
    <3> QED
      BY <3>3, <3>4, <3>5
  <2>21. CASE CloseKick(t)
    BY <2>0, <2>21 DEF CloseKick, Disconnected
  <2>22. CASE LoadSubscribed(t)
    BY <2>0, <2>22 DEF LoadSubscribed
  <2> QED
    BY <1>1, <2>1, <2>2, <2>3, <2>4, <2>5, <2>6, <2>7, <2>8, <2>9, <2>10, <2>11, <2>12, <2>13, <2>14, <2>15, <2>16, <2>17, <2>18, <2>19, <2>20, <2>21, <2>22 DEF Step
<1>2. ASSUME NEW t \in Task, Fault(t) PROVE Inv2'
  <2>0. t[1] \in Socket /\ P(t) \in Pod /\ t[2] \in Kind
    BY TaskPlace
  <2>1. CASE RestoreFails(t)
    <3>1. /\ UNCHANGED <<doc, meta, state, sub, ctl, cleaning, ready, dropped>>
          /\ \A u \in Task : u # t => pc'[u] = pc[u] /\ cur'[u] = cur[u]
          /\ pc'[t] = "load" /\ pc[t] \in {"cleanup"} \cup Load
      BY <2>0, <2>1 DEF RestoreFails
    <3>2. /\ \A p \in Pod : ctlSub[p] /\ ctl[p] > 0 => ctlSub'[p]
          /\ \A u \in Task \ {t} : pc[u] = "control" /\ ctlSub[P(u)] => ctlSub'[P(u)]
      BY <2>0, <2>1, LoadRejectedOK, UnsubscribeRejectedOK DEF RestoreFails
    <3>3. Housed' /\ Bound' /\ ReadyServed'
      BY <3>1, <3>2
    <3>4. ReadyIsOver'
      BY <3>1 DEF Load
    <3>5. AlmostReady'
      BY <3>1, <3>2
    <3> QED
      BY <3>3, <3>4, <3>5
  <2>2. CASE JoinFails(t)
    <3>1. /\ UNCHANGED <<doc, meta, state, sub, ctl, cleaning, ready, dropped>>
          /\ \A u \in Task : u # t => cur'[u] = cur[u]
          /\ pc'[t] = "failed"
      BY <2>0, <2>2 DEF JoinFails, Disconnected
    <3>2. \A u \in Task : u # t => pc'[u] = pc[u] \/ (pc[u] = "idle" /\ pc'[u] = "srem")
      <4>1. Disconnected({t[1]}, [pc EXCEPT ![t] = "failed"])
        BY <2>2 DEF JoinFails
      <4> QED
        BY <2>0, <4>1 DEF Disconnected
    <3>3. /\ \A p \in Pod : ctlSub[p] /\ ctl[p] > 0 => ctlSub'[p]
          /\ \A u \in Task \ {t} : pc[u] = "control" /\ ctlSub[P(u)] => ctlSub'[P(u)]
      BY <2>0, <2>2, LoadRejectedOK DEF JoinFails
    <3>4. Housed' /\ Bound' /\ ReadyServed'
      BY <3>1, <3>3
    <3>5. ReadyIsOver'
      BY <3>1, <3>2
    <3>6. AlmostReady'
      BY <3>1, <3>2, <3>3
    <3> QED
      BY <3>4, <3>5, <3>6
  <2>3. CASE DestroySwallowed(t)
    BY <2>0, <2>3 DEF DestroySwallowed
  <2>4. CASE LeaveFails(t)
    BY <2>0, <2>4 DEF LeaveFails
  <2>5. CASE CloseFails(t)
    BY <2>0, <2>5 DEF CloseFails
  <2> QED
    BY <1>2, <2>1, <2>2, <2>3, <2>4, <2>5 DEF Fault
<1>3. ASSUME NEW k \in Socket, Event(k) PROVE Inv2'
  <2>0. \A kind \in Kind : <<k, kind>> \in Task /\ <<k, kind>>[2] = kind
    BY DEF Task
  <2>1. CASE Connect(k)
    BY <2>0, <2>1 DEF Connect
  <2>2. CASE Update(k)
    BY <2>0, <2>2 DEF Update
  <2>3. CASE Leave(k)
    BY <2>0, <2>3 DEF Leave
  <2>4. CASE Close(k)
    BY <2>0, <2>4 DEF Close
  <2>5. CASE Drop(k)
    BY <2>0, <2>5 DEF Drop, Disconnected
  <2> QED
    BY <1>3, <2>1, <2>2, <2>3, <2>4, <2>5 DEF Event
<1>4. ASSUME NEW p \in Pod, PodStep(p) \/ Crash(p) PROVE Inv2'
  <2>1. CASE DestroyReceived(p)
    BY <1>4, <2>1 DEF DestroyReceived, BeginCleanup
  <2>2. CASE DestroyCleaned(p)
    <3>1. /\ doc' = [doc EXCEPT ![p] = None] /\ meta' = [meta EXCEPT ![p] = FALSE]
          /\ sub' = [sub EXCEPT ![p] = None]
          /\ cleaning' = [cleaning EXCEPT ![p] = @ - 1]
          /\ UNCHANGED <<pc, state, ctlSub, ctl, ready, dropped, cur>>
      BY <2>2 DEF DestroyCleaned, FinishCleanup, DropEntries
    <3>2. Housed' /\ Bound' /\ ReadyServed'
      BY <1>4, <3>1
    <3>3. ReadyIsOver'
      BY <3>1
    <3>4. AlmostReady'
      BY <3>1, HeldDocType DEF Load
    <3> QED
      BY <3>2, <3>3, <3>4
  <2>3. CASE Crash(p)
    BY <1>4, <2>3 DEF Crash, DropEntries
  <2> QED
    BY <1>4, <2>1, <2>2, <2>3 DEF PodStep
<1>5. CASE UNCHANGED vars
  BY <1>5 DEF vars
<1> QED
  BY <1>1, <1>2, <1>3, <1>4, <1>5 DEF Next

-----------------------------------------------------------------------------
(* The theorems. *)

\* The first invariant holds in every behaviour.
LEMMA Inv1Always == Spec => []Inv1
  BY Inv1Init, Inv1Step, PTL DEF Spec

\* In every behaviour of every instance the variables keep their types and
\* every handler is in an await of its own code.
THEOREM TypeCorrect == Spec => []TypeOK
<1>1. Inv1 => TypeOK
  BY DEF Inv1
<1> QED
  BY <1>1, Inv1Always, PTL

\* However cleanups and loads overlap, no interval runs that nobody can clear.
THEOREM TimersOwned == Spec => []NoOrphanTimer
<1>1. Inv1 => NoOrphanTimer
  BY DEF Inv1
<1> QED
  BY <1>1, Inv1Always, PTL

\* However cleanups and loads overlap, no listener is left attached that
\* unsubscribeFromSession has forgotten.
THEOREM ListenersOwned == Spec => []NoOrphanListener
<1>1. Inv1 => NoOrphanListener
  BY DEF Inv1
<1> QED
  BY <1>1, Inv1Always, PTL

\* The early return of subscribeToSession never leaves a session deaf, unless a
\* call about its own listener was rejected.
THEOREM DeafOnlyInCleanup == Spec => []NeverDeaf
<1>1. Init => NeverDeaf
  BY DEF Init, NeverDeaf
<1> QED
  BY <1>1, Inv1Always, NeverDeafStep, PTL DEF Spec

\* A completely loaded document in memory has everything that serves it; its
\* listener is its own, or was left by a leave or a close.
THEOREM LoadedServed == Spec => []LoadedDocServed
<1>1. Init => Inv2
  <2>1. \A p \in Pod : Init => doc[p] = None /\ sub[p] = None
    BY DEF Init
  <2> QED
    BY <2>1 DEF Init, Inv2, Housed, Bound, ReadyIsOver, AlmostReady, ReadyServed
<1>2. Spec => []Inv2
  BY <1>1, Inv1Always, Inv2Step, PTL DEF Spec
<1>3. Inv1 /\ Inv2 /\ NeverDeaf => LoadedDocServed
  <2> SUFFICES ASSUME Inv1, Inv2, NeverDeaf,
                      NEW p \in Pod, doc[p] \in ready, ~Cleaning(p)
               PROVE  Served(p)
    BY DEF LoadedDocServed
  <2>1. doc[p] # None
    BY Places DEF Inv1, TypeOK
  <2>2. sub[p] # None /\ (sub[p] = doc[p] \/ sub[p] \in dropped)
    BY <2>1 DEF Inv2, Housed, Bound
  <2>3. chan[p] \/ sub[p] \in refused
    BY <2>2 DEF NeverDeaf
  <2>4. meta[p] /\ ctlSub[p] /\ ctl[p] > 0 /\ (state[p] \/ cleaning[p] > 0)
    BY DEF Inv2, ReadyServed
  <2> QED
    BY <2>2, <2>3, <2>4 DEF Served, Cleaning
<1> QED
  BY <1>2, <1>3, Inv1Always, DeafOnlyInCleanup, PTL
=============================================================================
