------------------------ MODULE SessionReleaseProofs ------------------------
(* Proofs about SessionMemory, for every set of pods and sockets: what the    *)
(* participant set says, and what DESTROY leaves behind, when no call is      *)
(* rejected, no pod crashes and no client vanishes in the middle of its join. *)
EXTENDS SessionMemoryProofs

\* No call was rejected and no pod crashed so far.
Orderly == faults = 0 /\ crashes = 0

LeaveKind == {"leave", "disconnect"}
\* joinSession after its SADD.
Added == {"check", "cleanup", "status", "done"} \cup Load
\* leaveSession after its SREM.
Removed == {"count", "destroy", "release", "saving", "done"}
Gone(k) == \E t \in Task : t[1] = k /\ t[2] \in LeaveKind /\ pc[t] \in Removed

-----------------------------------------------------------------------------
(* The participant set.                                                      *)

\* A socket leaves or disconnects only after its join; a leave never fails.
LeavesLater == \A t \in Task :
    t[2] \in LeaveKind /\ pc[t] # "idle" => /\ pc[t] # "failed"
                                            /\ pc[JoinOf(t[1])] = "done"

\* Connected are the sockets with a join that was not refused and without a
\* 'disconnect'.
ConnExact == \A t \in Task : t[2] = "disconnect" =>
    (t[1] \in conn <=> pc[JoinOf(t[1])] \notin {"idle", "failed"} /\ pc[t] = "idle")

\* A user is a participant from the SADD of the join to the first SREM.
PartsExact == \A k \in Socket :
    UserOf[k] \in parts <=> pc[JoinOf(k)] \in Added /\ ~Gone(k)

\* closeSession is not called.
NoClose == \A t \in Task : t[2] = "close" => pc[t] = "idle"

Inv3 == Orderly => LeavesLater /\ ConnExact /\ PartsExact /\ NoClose

-----------------------------------------------------------------------------
(* What is left behind.                                                      *)

Loading(t) == t[2] = "join" /\ pc[t] \in Load \ {"load"}

\* Only joins load when no client sends an update.
NoUpdate == \A t \in Task : t[2] = "update" => pc[t] = "idle"

\* A pod that keeps something of the session will hear DESTROY, now or at the
\* end of the load that is under way.
Hears(p) == ctlSub[p] /\ ctl[p] > 0
Heard == \A p \in Pod : ~Unused(p) => Hears(p) \/ \E t \in TasksOn(p) : Loading(t)
AtControl == \A t \in Task : pc[t] = "control" => ctlSub[P(t)]

\* With nobody in the set and no leaver on the way to its publish, DESTROY is
\* on its way to what is left.
NoLeaver == \A t \in Task : t[2] \in LeaveKind => pc[t] \notin {"srem", "count", "destroy"}
Swept == parts = {} /\ NoLeaver => \A p \in Pod :
    /\ state[p] => ctlq[p] > 0
    /\ doc[p] # None \/ meta[p] \/ sub[p] # None => ctlq[p] > 0 \/ cleaning[p] > 0

Inv4 == Orderly => NoUpdate /\ Heard /\ AtControl /\ Swept
-----------------------------------------------------------------------------
(* The participant set: proofs.                                              *)

\* When one user has one socket, the client stays until its join is over and
\* the owner does not close the session.
Undisturbed == OneSocketEach /\ ~DropMidJoin /\ "close" \notin Requests

\* The join of a socket is a task of that socket.
LEMMA JoinTask == \A k \in Socket : JoinOf(k) \in Task /\ JoinOf(k)[1] = k
                                      /\ JoinOf(k)[2] = "join"
  BY DEF JoinOf, Task, Kind

\* The join of a socket is its only task of that kind.
LEMMA JoinOnly == \A t \in Task : t[2] = "join" => t = JoinOf(t[1])
  BY DEF JoinOf, Task

\* A task is a socket and a kind.
LEMMA TaskPair == \A t, u \in Task : t = u <=> t[1] = u[1] /\ t[2] = u[2]
  BY DEF Task

\* An orderly state was reached by orderly steps only.
LEMMA OrderlySteps ==
    ASSUME Inv1, [Next]_vars, Orderly'
    PROVE  /\ Orderly
           /\ \/ \E t \in Task : Step(t)
              \/ \E k \in Socket : Event(k)
              \/ \E p \in Pod : PodStep(p)
              \/ UNCHANGED vars
<1> USE DEF Inv1, TypeOK, Orderly, budget
<1>1. \A t \in Task : ~Fault(t)
  BY DEF Fault, RestoreFails, JoinFails, DestroySwallowed, LeaveFails, CloseFails
<1>2. \A p \in Pod : ~Crash(p)
  BY DEF Crash
<1>3. ASSUME NEW t \in Task, Step(t) PROVE Orderly
  BY <1>3 DEF Step, JoinRefuse, JoinAdmit, JoinAdd, JoinServe, JoinRestore, JoinCleaned,
     JoinReturns, LoadPresent, LoadNew, LoadSubscribed, LoadSnapshot, LoadMetadata, LoadControl, UpdateReturns,
     LeaveRemove, LeaveCount, LeaveDestroy, LeaveRelease, LeaveReleased, CloseFind, CloseSaved,
     CloseKick
<1>4. ASSUME NEW k \in Socket, Event(k) PROVE Orderly
  BY <1>4 DEF Event, Connect, Update, Leave, Close, Drop
<1>5. ASSUME NEW p \in Pod, PodStep(p) PROVE Orderly
  BY <1>5 DEF PodStep, DestroyReceived, DestroyCleaned
<1>6. CASE UNCHANGED vars
  BY <1>6 DEF vars
<1> QED
  BY <1>1, <1>2, <1>3, <1>4, <1>5, <1>6 DEF Next

\* The initial states satisfy the invariant of the participant set.
LEMMA Inv3Init == Init => Inv3
<1> USE JoinTask, TaskPlace DEF Init, Kind
<1>1. Init => LeavesLater /\ ConnExact /\ NoClose
  BY DEF LeavesLater, ConnExact, NoClose, LeaveKind
<1>2. Init => PartsExact
  BY DEF PartsExact, Gone, Removed, LeaveKind, Added, Load
<1> QED
  BY <1>1, <1>2 DEF Inv3

\* A handler that goes on to its next await says nothing new about who is in.
Onward(t, l) ==
    /\ Goto(t, l)
    /\ UNCHANGED <<conn, parts>>
    /\ pc[t] \notin {"idle", "failed", "done"} /\ l \notin {"idle", "failed"}
    /\ t[2] = "join" => (pc[t] \in Added <=> l \in Added)
    /\ t[2] \in LeaveKind => (pc[t] \in Removed <=> l \in Removed)

\* It keeps what the participant set says.
LEMMA GoesOn ==
    ASSUME TypeOK, LeavesLater, ConnExact, PartsExact, NoClose,
           NEW t \in Task, NEW l, Onward(t, l)
    PROVE  LeavesLater' /\ ConnExact' /\ PartsExact' /\ NoClose'
<1>1. \A u \in Task : pc'[u] = IF u = t THEN l ELSE pc[u]
  BY DEF Onward, Goto, TypeOK
<1>2. pc[t] \notin {"idle", "failed", "done"} /\ l \notin {"idle", "failed"}
  BY DEF Onward
<1>3. \A u \in Task : /\ pc'[u] = "idle" <=> pc[u] = "idle"
                      /\ pc'[u] = "failed" <=> pc[u] = "failed"
                      /\ pc[u] = "done" => pc'[u] = "done"
  BY <1>1, <1>2
<1>4. \A k \in Socket : /\ JoinOf(k) \in Task
                        /\ pc'[JoinOf(k)] \in Added <=> pc[JoinOf(k)] \in Added
  BY <1>1, JoinTask DEF Onward
<1>5. \A u \in Task : u[2] \in LeaveKind => (pc'[u] \in Removed <=> pc[u] \in Removed)
  BY <1>1 DEF Onward
<1>6. LeavesLater'
  BY <1>3, JoinTask, TaskPlace DEF LeavesLater
<1>7. ConnExact'
  BY <1>3, <1>4, TaskPlace DEF ConnExact, Onward
<1>8. PartsExact'
  BY <1>4, <1>5 DEF PartsExact, Gone, Onward
<1>9. NoClose'
  BY <1>3 DEF NoClose
<1> QED
  BY <1>6, <1>7, <1>8, <1>9

\* Most steps of handlers do no more than that.
Ordinary(t) ==
    \/ JoinAdmit(t) \/ JoinServe(t) \/ JoinRestore(t) \/ JoinCleaned(t) \/ JoinReturns(t)
    \/ LoadPresent(t) \/ LoadNew(t) \/ LoadSubscribed(t) \/ LoadSnapshot(t)
    \/ LoadMetadata(t) \/ LoadControl(t) \/ UpdateReturns(t)
    \/ LeaveCount(t) \/ LeaveDestroy(t) \/ LeaveRelease(t) \/ LeaveReleased(t)
    \/ CloseFind(t) \/ CloseSaved(t)

\* They only go on.
LEMMA OrdinaryGoesOn ==
    ASSUME TypeOK, NEW t \in Task, Ordinary(t)
    PROVE  \E l : Onward(t, l)
<1> USE DEF Onward, Added, Load, Removed, LeaveKind, client
<1>0. /\ pc[t] \in {"publish", "find", "saving", "write"} => t[2] # "join" \/ pc[t] = "find"
      /\ pc[t] \in {"publish", "find", "write"} \cup Load => t[2] \notin LeaveKind
      /\ pc[t] \in {"count", "destroy", "release"} => t[2] # "join"
  BY TaskPlace DEF TypeOK, Phase, Kind
<1>1. ASSUME JoinAdmit(t) PROVE Onward(t, "sadd")
  BY <1>0, <1>1 DEF JoinAdmit
<1>2. ASSUME JoinServe(t) PROVE Onward(t, "status")
  BY <1>0, <1>2 DEF JoinServe
<1>3. ASSUME JoinRestore(t) PROVE Onward(t, "cleanup")
  BY <1>0, <1>3 DEF JoinRestore
<1>4. ASSUME JoinCleaned(t) PROVE Onward(t, "load")
  BY <1>0, <1>4 DEF JoinCleaned
<1>5. ASSUME JoinReturns(t) PROVE Onward(t, "done")
  BY <1>0, <1>5 DEF JoinReturns
<1>6. ASSUME LoadPresent(t) PROVE Onward(t, IF t[2] = "join" THEN "status" ELSE "publish")
  BY <1>0, <1>6 DEF LoadPresent, Resume, Answer
<1>7. ASSUME LoadNew(t) PROVE Onward(t, IF sub[P(t)] = None THEN "subscribe" ELSE "snapshot")
  BY <1>0, <1>7 DEF LoadNew
<1>8. ASSUME LoadSubscribed(t) PROVE Onward(t, "snapshot")
  BY <1>0, <1>8 DEF LoadSubscribed
<1>9. ASSUME LoadSnapshot(t) PROVE Onward(t, "meta")
  BY <1>0, <1>9 DEF LoadSnapshot
<1>10. ASSUME LoadMetadata(t) PROVE Onward(t, "control")
  BY <1>0, <1>10 DEF LoadMetadata
<1>11. ASSUME LoadControl(t) PROVE Onward(t, IF t[2] = "join" THEN "status" ELSE "publish")
  BY <1>0, <1>11 DEF LoadControl, Resume, Answer
<1>12. ASSUME UpdateReturns(t) PROVE Onward(t, "done")
  BY <1>0, <1>12 DEF UpdateReturns
<1>13. ASSUME LeaveCount(t) PROVE Onward(t, IF parts = {} THEN "destroy" ELSE "done")
  BY <1>0, <1>13 DEF LeaveCount
<1>14. ASSUME LeaveDestroy(t) PROVE Onward(t, "release")
  BY <1>0, <1>14 DEF LeaveDestroy
<1>15. ASSUME LeaveRelease(t) PROVE Onward(t, IF doc[P(t)] = None THEN "done" ELSE "saving")
  BY <1>0, <1>15 DEF LeaveRelease
<1>16. ASSUME LeaveReleased(t) PROVE Onward(t, "done")
  BY <1>0, <1>16 DEF LeaveReleased
<1>17. ASSUME CloseFind(t) PROVE Onward(t, IF doc[P(t)] = None THEN "write" ELSE "saving")
  BY <1>0, <1>17 DEF CloseFind
<1>18. ASSUME CloseSaved(t) PROVE Onward(t, "write")
  BY <1>0, <1>18 DEF CloseSaved
<1> QED
  BY <1>1, <1>2, <1>3, <1>4, <1>5, <1>6, <1>7, <1>8, <1>9, <1>10, <1>11, <1>12, <1>13, <1>14, <1>15, <1>16, <1>17, <1>18 DEF Ordinary

\* Every step preserves it.
LEMMA Inv3Step == Undisturbed /\ Inv1 /\ Inv3 /\ [Next]_vars => Inv3'
<1> USE JoinTask, JoinOnly, TaskPair, TaskPlace, ConstantsAssumption
    DEF Inv1, TypeOK, LeaveKind, Removed, Added, Load, Kind, Phase, PC,
        client, registry, loops, feed, control, history, budget, Goto
<1> SUFFICES ASSUME Undisturbed, Inv1, Inv3, [Next]_vars, Orderly'
             PROVE  LeavesLater' /\ ConnExact' /\ PartsExact' /\ NoClose'
  BY DEF Inv3
<1>0. LeavesLater /\ ConnExact /\ PartsExact /\ NoClose
  BY OrderlySteps DEF Inv3
<1>1. ASSUME NEW t \in Task, Step(t) PROVE LeavesLater' /\ ConnExact' /\ PartsExact' /\ NoClose'
  <2>0. t[1] \in Socket /\ P(t) \in Pod /\ t[2] \in Kind
    BY TaskPlace
  <2>1. CASE JoinRefuse(t)
    BY <1>0, <2>0, <2>1 DEF JoinRefuse, Disconnected, Listening, LeavesLater, ConnExact, PartsExact, NoClose, Gone
  <2>2. CASE JoinAdd(t)
    <3>1. LeavesLater'
      BY <1>0, <2>0, <2>2 DEF JoinAdd, LeavesLater
    <3>2. ConnExact'
      BY <1>0, <2>0, <2>2 DEF JoinAdd, ConnExact
    <3>3. PartsExact'
      BY <1>0, <2>0, <2>2 DEF JoinAdd, Undisturbed, OneSocketEach, PartsExact, Gone, LeavesLater
    <3>4. NoClose'
      BY <1>0, <2>0, <2>2 DEF JoinAdd, NoClose
    <3> QED
      BY <3>1, <3>2, <3>3, <3>4
  <2>3. CASE LeaveRemove(t)
    <3>1. LeavesLater'
      BY <1>0, <2>0, <2>3 DEF LeaveRemove, LeavesLater
    <3>2. ConnExact'
      BY <1>0, <2>0, <2>3 DEF LeaveRemove, ConnExact
    <3>3. PartsExact'
      BY <1>0, <2>0, <2>3 DEF LeaveRemove, Undisturbed, OneSocketEach, PartsExact, Gone
    <3>4. NoClose'
      BY <1>0, <2>0, <2>3 DEF LeaveRemove, NoClose
    <3> QED
      BY <3>1, <3>2, <3>3, <3>4
  <2>4. CASE CloseKick(t)
    BY <1>0, <2>0, <2>4 DEF CloseKick, LeavesLater, ConnExact, PartsExact, NoClose, Gone
  <2>5. CASE Ordinary(t)
    BY <1>0, <2>5, OrdinaryGoesOn, GoesOn
  <2> QED
    BY <1>1, <2>1, <2>2, <2>3, <2>4, <2>5 DEF Step, Ordinary
<1>2. ASSUME NEW k \in Socket, Event(k) PROVE LeavesLater' /\ ConnExact' /\ PartsExact' /\ NoClose'
  <2>0. \A kind \in Kind : <<k, kind>> \in Task /\ <<k, kind>>[1] = k /\ <<k, kind>>[2] = kind
    BY DEF Task
  <2>1. CASE Connect(k)
    BY <1>0, <2>0, <2>1 DEF Connect, LeavesLater, ConnExact, PartsExact, NoClose, Gone
  <2>2. CASE Update(k)
    BY <1>0, <2>0, <2>2 DEF Update, LeavesLater, ConnExact, PartsExact, NoClose, Gone
  <2>3. CASE Leave(k)
    BY <1>0, <2>0, <2>3 DEF Leave, Listening, LeavesLater, ConnExact, PartsExact, NoClose, Gone
  <2>4. CASE Close(k)
    BY <1>0, <2>0, <2>4 DEF Close, Undisturbed, LeavesLater, ConnExact, PartsExact, NoClose, Gone
  <2>5. CASE Drop(k)
    BY <1>0, <2>0, <2>5 DEF Drop, Undisturbed, Disconnected, Listening, LeavesLater, ConnExact, PartsExact, NoClose, Gone
  <2> QED
    BY <1>2, <2>1, <2>2, <2>3, <2>4, <2>5 DEF Event
<1>3. ASSUME NEW p \in Pod, PodStep(p) PROVE LeavesLater' /\ ConnExact' /\ PartsExact' /\ NoClose'
  BY <1>0, <1>3 DEF PodStep, DestroyReceived, DestroyCleaned, LeavesLater, ConnExact, PartsExact, NoClose, Gone
<1>4. CASE UNCHANGED vars
  BY <1>0, <1>4 DEF vars, LeavesLater, ConnExact, PartsExact, NoClose, Gone
<1> QED
  BY <1>1, <1>2, <1>3, <1>4, OrderlySteps

-----------------------------------------------------------------------------
(* What is left behind: proofs.                                              *)

\* The initial states satisfy the invariant of what is left behind.
LEMMA Inv4Init == Init => Inv4
  BY TaskPlace DEF Init, Inv4, NoUpdate, Heard, Unused, AtControl, Swept

\* While the set is empty no join is between its SADD and its return.
LEMMA NobodyJoining ==
    ASSUME Inv1, LeavesLater, PartsExact, parts = {}, NEW t \in Task, t[2] = "join"
    PROVE  pc[t] \notin {"check", "cleanup", "status"} \cup Load
<1>1. t[1] \in Socket /\ JoinOf(t[1]) = t
  BY TaskPlace, JoinOnly
<1>2. pc[t] # "done" => ~Gone(t[1])
  BY <1>1 DEF Gone, LeavesLater, Removed
<1> QED
  BY <1>1, <1>2 DEF PartsExact, Added, Load

\* Every step preserves the invariant when no client sends an update.
LEMMA Inv4Step ==
    ASSUME Undisturbed, "update" \notin Requests
    PROVE  Inv1 /\ Inv3 /\ Inv4 /\ [Next]_vars => Inv4'
<1> USE TaskPair, ConstantsAssumption
    DEF Inv1, TypeOK, LeaveKind, Kind, Phase, PC, Load, NoOrphanTimer, NoOrphanListener,
        client, registry, loops, feed, control, history, budget, Goto
<1> SUFFICES ASSUME Inv1, Inv3, Inv4, [Next]_vars, Orderly'
             PROVE  NoUpdate' /\ Heard' /\ AtControl' /\ Swept'
  BY DEF Inv4
<1>0. /\ NoUpdate /\ Heard /\ AtControl /\ Swept
      /\ LeavesLater /\ PartsExact /\ NoClose
  BY OrderlySteps DEF Inv3, Inv4
<1>a. \A t \in Task : t[1] \in Socket /\ P(t) \in Pod /\ t[2] \in Kind
  BY TaskPlace
<1>b. parts = {} => \A t \in Task : t[2] = "join" =>
          pc[t] \notin {"check", "cleanup", "status"} \cup Load
  BY <1>0, NobodyJoining
<1>1. ASSUME NEW t \in Task, Step(t) PROVE NoUpdate' /\ Heard' /\ AtControl' /\ Swept'
  <2>1. CASE JoinRefuse(t)
    <3>0. ~Listening(t[1])
      BY <2>1, JoinOnly DEF JoinRefuse, Listening
    <3>1. pc' = [pc EXCEPT ![t] = "failed"]
      BY <1>a, <2>1, <3>0 DEF JoinRefuse, Disconnected
    <3> QED
      BY <1>0, <1>a, <2>1, <3>1 DEF JoinRefuse, NoUpdate, Heard, Unused, Hears, TasksOn, Loading,
         AtControl, Swept, NoLeaver
  <2>2. CASE JoinAdmit(t)
    BY <1>0, <1>a, <1>b, <2>2 DEF JoinAdmit, NoUpdate, NoClose, Heard, Unused, Hears, TasksOn, Loading, AtControl, Swept, NoLeaver
  <2>3. CASE JoinAdd(t)
    BY <1>0, <1>a, <1>b, <2>3 DEF JoinAdd, NoUpdate, NoClose, Heard, Unused, Hears, TasksOn, Loading, AtControl, Swept, NoLeaver
  <2>4. CASE JoinServe(t)
    BY <1>0, <1>a, <1>b, <2>4 DEF JoinServe, Answer, NoUpdate, NoClose, Heard, Unused, Hears, TasksOn, Loading, AtControl, Swept, NoLeaver
  <2>5. CASE JoinRestore(t)
    <3>1. NoUpdate'
      BY <1>0, <1>a, <2>5 DEF JoinRestore, NoUpdate
    <3>2. Heard'
      BY <1>0, <1>a, <2>5 DEF JoinRestore, BeginCleanup, Heard, Unused, Hears, TasksOn, Loading
    <3>3. AtControl'
      BY <1>0, <1>a, <2>5 DEF JoinRestore, AtControl
    <3>4. parts # {}
      BY <1>b, <2>5 DEF JoinRestore
    <3>5. Swept'
      BY <2>5, <3>4 DEF JoinRestore, Swept
    <3> QED
      BY <3>1, <3>2, <3>3, <3>5
  <2>6. CASE JoinCleaned(t)
    BY <1>0, <1>a, <1>b, <2>6 DEF JoinCleaned, FinishCleanup, DropEntries, NoUpdate, NoClose, Heard, Unused, Hears, TasksOn, Loading, AtControl, Swept, NoLeaver
  <2>7. CASE JoinReturns(t)
    BY <1>0, <1>a, <1>b, <2>7 DEF JoinReturns, NoUpdate, NoClose, Heard, Unused, Hears, TasksOn, Loading, AtControl, Swept, NoLeaver
  <2>8. CASE LoadPresent(t)
    BY <1>0, <1>a, <1>b, <2>8 DEF LoadPresent, Resume, Answer, InitSessionLoops, NoUpdate, NoClose, Heard, Unused, Hears, TasksOn, Loading, AtControl, Swept, NoLeaver
  <2>9. CASE LoadNew(t)
    BY <1>0, <1>a, <1>b, <2>9 DEF LoadNew, SubscribeToSession, NoUpdate, NoClose, Heard, Unused, Hears, TasksOn, Loading, AtControl, Swept, NoLeaver
  <2>10. CASE LoadSnapshot(t)
    BY <1>0, <1>a, <1>b, <2>10 DEF LoadSnapshot, NoUpdate, NoClose, Heard, Unused, Hears, TasksOn, Loading, AtControl, Swept, NoLeaver
  <2>11. CASE LoadMetadata(t)
    BY <1>0, <1>a, <1>b, <2>11 DEF LoadMetadata, NoUpdate, NoClose, Heard, Unused, Hears, TasksOn, Loading, AtControl, Swept, NoLeaver
  <2>12. CASE LoadControl(t)
    <3>1. t[2] = "join" /\ pc[t] = "control" /\ pc' = [pc EXCEPT ![t] = "status"]
      BY <1>0, <1>a, <2>12 DEF LoadControl, Resume, NoUpdate
    <3>2. parts' = parts /\ parts # {}
      BY <1>b, <2>12, <3>1 DEF LoadControl
    <3>3. /\ UNCHANGED <<doc, meta, sub, ctlSub>>
          /\ ctl' = [ctl EXCEPT ![P(t)] = @ + 1]
          /\ \A p \in Pod : p # P(t) => state'[p] = state[p]
      BY <1>a, <2>12 DEF LoadControl, InitSessionLoops
    <3>4. Heard'
      <4>1. Hears(P(t))'
        BY <1>0, <1>a, <3>1, <3>3 DEF AtControl, Hears
      <4>2. ASSUME NEW p \in Pod, p # P(t), ~Unused(p)'
            PROVE  Hears(p)' \/ \E u \in TasksOn(p) : Loading(u)'
        <5>1. Hears(p) \/ \E u \in TasksOn(p) : Loading(u)
          BY <1>0, <3>3, <4>2 DEF Heard, Unused
        <5> QED
          BY <1>a, <3>1, <3>3, <4>2, <5>1 DEF Hears, TasksOn, Loading
      <4> QED
        BY <4>1, <4>2 DEF Heard, TasksOn, P
    <3> QED
      BY <1>0, <1>a, <3>1, <3>2, <3>3, <3>4 DEF NoUpdate, AtControl, Swept
  <2>13. CASE UpdateReturns(t)
    BY <1>0, <1>a, <1>b, <2>13 DEF UpdateReturns, NoUpdate, NoClose, Heard, Unused, Hears, TasksOn, Loading, AtControl, Swept, NoLeaver
  <2>14. CASE LeaveRemove(t)
    BY <1>0, <1>a, <1>b, <2>14 DEF LeaveRemove, NoUpdate, NoClose, Heard, Unused, Hears, TasksOn, Loading, AtControl, Swept, NoLeaver
  <2>15. CASE LeaveCount(t)
    BY <1>0, <1>a, <1>b, <2>15 DEF LeaveCount, NoUpdate, NoClose, Heard, Unused, Hears, TasksOn, Loading, AtControl, Swept, NoLeaver
  <2>16. CASE LeaveDestroy(t)
    BY <1>0, <1>a, <1>b, <2>16 DEF LeaveDestroy, NoUpdate, NoClose, Heard, Unused, Hears, TasksOn, Loading, AtControl, Swept, NoLeaver
  <2>17. CASE LeaveRelease(t)
    <3>1. NoUpdate'
      BY <1>0, <1>a, <1>b, <2>17 DEF LeaveRelease, DropEntries, NoUpdate
    <3>2. Heard'
      BY <1>0, <1>a, <1>b, <2>17 DEF LeaveRelease, DropEntries, Heard, Unused, Hears, TasksOn, Loading
    <3>3. AtControl'
      BY <1>0, <1>a, <1>b, <2>17 DEF LeaveRelease, DropEntries, AtControl
    <3>4. Swept'
      BY <1>0, <1>a, <1>b, <2>17 DEF LeaveRelease, DropEntries, Swept, NoLeaver
    <3> QED
      BY <3>1, <3>2, <3>3, <3>4
  <2>18. CASE LeaveReleased(t)
    BY <1>0, <1>a, <1>b, <2>18 DEF LeaveReleased, Abandon, DropEntries, NoUpdate, NoClose, Heard, Unused, Hears, TasksOn, Loading, AtControl, Swept, NoLeaver
  <2>19. CASE CloseFind(t)
    BY <1>0, <1>a, <1>b, <2>19 DEF CloseFind, NoUpdate, NoClose, Heard, Unused, Hears, TasksOn, Loading, AtControl, Swept, NoLeaver
  <2>20. CASE CloseSaved(t)
    BY <1>0, <1>a, <1>b, <2>20 DEF CloseSaved, NoUpdate, NoClose, Heard, Unused, Hears, TasksOn, Loading, AtControl, Swept, NoLeaver
  <2>21. CASE CloseKick(t)
    BY <1>0, <1>a, <1>b, <2>21 DEF CloseKick, NoUpdate, NoClose, Heard, Unused, Hears, TasksOn, Loading, AtControl, Swept, NoLeaver
  <2>22. CASE LoadSubscribed(t)
    BY <1>0, <1>a, <1>b, <2>22 DEF LoadSubscribed, NoUpdate, NoClose, Heard, Unused, Hears, TasksOn, Loading, AtControl, Swept, NoLeaver
  <2> QED
    BY <1>1, <2>1, <2>2, <2>3, <2>4, <2>5, <2>6, <2>7, <2>8, <2>9, <2>10, <2>11, <2>12, <2>13, <2>14, <2>15, <2>16, <2>17, <2>18, <2>19, <2>20, <2>21, <2>22 DEF Step
<1>2. ASSUME NEW k \in Socket, Event(k) PROVE NoUpdate' /\ Heard' /\ AtControl' /\ Swept'
  <2>0. \A kind \in Kind : <<k, kind>> \in Task /\ <<k, kind>>[1] = k /\ <<k, kind>>[2] = kind
    BY DEF Task
  <2>1. CASE Connect(k)
    BY <1>0, <1>a, <1>b, <2>0, <2>1 DEF Connect, JoinOf, NoUpdate, NoClose, Heard, Unused, Hears, TasksOn, Loading, AtControl, Swept, NoLeaver
  <2>2. CASE Update(k)
    BY <1>0, <1>a, <1>b, <2>0, <2>2 DEF Update, NoUpdate, NoClose, Heard, Unused, Hears, TasksOn, Loading, AtControl, Swept, NoLeaver
  <2>3. CASE Leave(k)
    BY <1>0, <1>a, <1>b, <2>0, <2>3 DEF Leave, NoUpdate, NoClose, Heard, Unused, Hears, TasksOn, Loading, AtControl, Swept, NoLeaver
  <2>4. CASE Close(k)
    BY <1>0, <1>a, <1>b, <2>0, <2>4 DEF Close, Undisturbed, NoUpdate, NoClose, Heard, Unused, Hears, TasksOn, Loading, AtControl, Swept, NoLeaver
  <2>5. CASE Drop(k)
    <3>1. \A u \in Task : \/ pc'[u] = pc[u]
                          \/ u[2] = "disconnect" /\ pc[u] = "idle" /\ pc'[u] = "srem"
      BY <2>5 DEF Drop, Disconnected
    <3>2. UNCHANGED <<parts, doc, meta, state, sub, ctlSub, ctl, ctlq, cleaning>>
      BY <2>5 DEF Drop
    <3>3. NoUpdate'
      BY <1>0, <3>1 DEF NoUpdate
    <3>4. Heard'
      BY <1>0, <3>1, <3>2 DEF Heard, Unused, Hears, TasksOn, P, Loading
    <3>5. AtControl'
      BY <1>0, <3>1, <3>2 DEF AtControl, P
    <3>6. Swept'
      <4>1. NoLeaver' => NoLeaver
        BY <3>1 DEF NoLeaver
      <4> QED BY <1>0, <3>2, <4>1 DEF Swept
    <3> QED
      BY <3>3, <3>4, <3>5, <3>6
  <2> QED
    BY <1>2, <2>1, <2>2, <2>3, <2>4, <2>5 DEF Event
<1>3. ASSUME NEW p \in Pod, PodStep(p) PROVE NoUpdate' /\ Heard' /\ AtControl' /\ Swept'
  <2>1. CASE DestroyReceived(p)
    BY <1>0, <1>a, <1>b, <1>3, <2>1 DEF DestroyReceived, BeginCleanup, NoUpdate, NoClose, Heard, Unused, Hears, TasksOn, Loading, AtControl, Swept, NoLeaver
  <2>2. CASE DestroyCleaned(p)
    BY <1>0, <1>a, <1>b, <1>3, <2>2 DEF DestroyCleaned, FinishCleanup, DropEntries, NoUpdate, NoClose, Heard, Unused, Hears, TasksOn, Loading, AtControl, Swept, NoLeaver
  <2> QED
    BY <1>3, <2>1, <2>2 DEF PodStep
<1>4. CASE UNCHANGED vars
  BY <1>0, <1>4 DEF vars, NoUpdate, Heard, Unused, Hears, TasksOn, Loading, AtControl, Swept, NoLeaver
<1> QED
  BY <1>1, <1>2, <1>3, <1>4, OrderlySteps

-----------------------------------------------------------------------------
(* The theorems.                                                             *)

\* The invariant of the participant set holds in every such behaviour.
LEMMA Inv3Always == ASSUME Undisturbed PROVE Spec => []Inv3
<1>1. Inv1 /\ Inv3 /\ [Next]_vars => Inv3'
  BY Inv3Step
<1> QED
  BY <1>1, Inv3Init, Inv1Always, PTL DEF Spec

\* As long as no call is rejected and no pod crashes, the participant set of a
\* session at rest is exactly the users who are in it, however their joins,
\* leaves and disconnects interleaved on any number of pods: joinSession's SADD
\* and the SREM of leaveSession are not undone or overtaken by one another.
THEOREM ParticipantsAgree ==
    ASSUME Undisturbed
    PROVE  Spec => [](Orderly => ParticipantsExact)
<1>1. Inv1 /\ Inv3 => (Orderly => ParticipantsExact)
  <2> SUFFICES ASSUME Inv1, Inv3, Orderly, Quiet
               PROVE  parts = {UserOf[k] : k \in Joined}
    BY DEF ParticipantsExact
  <2>1. LeavesLater /\ ConnExact /\ PartsExact
    BY DEF Inv3
  <2>2. \A k \in Socket : k \in Joined <=> pc[JoinOf(k)] \in Added /\ ~Gone(k)
    <3> SUFFICES ASSUME NEW k \in Socket
                 PROVE  k \in Joined <=> pc[JoinOf(k)] \in Added /\ ~Gone(k)
      OBVIOUS
    <3> DEFINE l == <<k, "leave">>
               d == <<k, "disconnect">>
    <3>1. /\ l \in Task /\ l[1] = k /\ l[2] = "leave"
          /\ d \in Task /\ d[1] = k /\ d[2] = "disconnect"
      BY DEF Task, Kind
    <3>2. k \in Joined <=> k \in conn /\ pc[JoinOf(k)] = "done" /\ pc[l] = "idle"
      BY DEF Joined, Inv1, TypeOK
    <3> HIDE DEF l, d
    <3>3. k \in conn <=> pc[JoinOf(k)] \notin {"idle", "failed"} /\ pc[d] = "idle"
      BY <2>1, <3>1 DEF ConnExact
    <3>4. pc[JoinOf(k)] \in Added <=> pc[JoinOf(k)] = "done"
      BY JoinTask DEF Quiet, Added, Load
    <3>5. ~Gone(k) <=> pc[l] = "idle" /\ pc[d] = "idle"
      <4>1. \A t \in Task : t[1] = k /\ t[2] \in LeaveKind => t = l \/ t = d
        BY <3>1, TaskPair DEF LeaveKind
      <4>2. pc[l] \in {"idle", "done"} /\ pc[d] \in {"idle", "done"}
        BY <2>1, <3>1 DEF LeavesLater, LeaveKind, Quiet
      <4> QED
        BY <3>1, <4>1, <4>2 DEF Gone, LeaveKind, Removed
    <3> QED
      BY <3>2, <3>3, <3>4, <3>5
  <2>3. parts \subseteq User /\ Joined \subseteq Socket
    BY DEF Inv1, TypeOK, Joined
  <2> QED
    BY <2>1, <2>2, <2>3 DEF PartsExact, User
<1> QED
  BY <1>1, Inv1Always, Inv3Always, PTL

\* If in addition no client sends an update, a session that everybody has left
\* leaves nothing behind on any pod: whatever a load put into a pod, before,
\* between or after the cleanups of earlier leaves, the DESTROY of the last leave
\* finds a listener for it.
THEOREM NothingLeftBehind ==
    ASSUME Undisturbed, "update" \notin Requests
    PROVE  Spec => [](Orderly => ReleasedAtRest)
<1>1. Inv1 /\ Inv3 /\ Inv4 => (Orderly => ReleasedAtRest)
  <2> SUFFICES ASSUME Inv1, Inv3, Inv4, Orderly, Quiet, conn = {}
               PROVE  \A p \in Pod : Unused(p)
    BY DEF ReleasedAtRest
  <2>1. PartsExact /\ ConnExact /\ Swept
    BY DEF Inv3, Inv4
  <2>2. \A k \in Socket : ~(pc[JoinOf(k)] \in Added /\ ~Gone(k))
    <3> SUFFICES ASSUME NEW k \in Socket, pc[JoinOf(k)] \in Added PROVE Gone(k)
      OBVIOUS
    <3> DEFINE d == <<k, "disconnect">>
    <3>1. d \in Task /\ d[1] = k /\ d[2] = "disconnect"
      BY DEF Task, Kind
    <3> HIDE DEF d
    <3>2. pc[JoinOf(k)] = "done"
      BY JoinTask DEF Quiet, Added, Load
    <3>3. pc[d] # "idle"
      BY <2>1, <3>1, <3>2 DEF ConnExact
    <3>4. pc[d] = "done"
      BY <3>1, <3>3 DEF Quiet, Inv3, LeavesLater, LeaveKind
    <3> QED
      BY <3>1, <3>4 DEF Gone, LeaveKind, Removed
  <2>3. parts = {}
    BY <2>1, <2>2 DEF PartsExact, Inv1, TypeOK, User
  <2>4. NoLeaver
    BY DEF Quiet, NoLeaver
  <2> QED
    BY <2>1, <2>3, <2>4 DEF Swept, Quiet, Unused, Inv1, TypeOK
<1>2. Inv1 /\ Inv3 /\ Inv4 /\ [Next]_vars => Inv4'
  BY Inv4Step
<1> QED
  BY <1>1, <1>2, Inv4Init, Inv1Always, Inv3Always, PTL DEF Spec
=============================================================================
