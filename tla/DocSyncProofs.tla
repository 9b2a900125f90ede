--------------------------- MODULE DocSyncProofs ---------------------------
(* Proofs, for every set of pods and edits, about DocSync. *)
EXTENDS DocSync, SequenceTheorems, TLAPS

\* Whatever holds an edit, the edit was made.
Known ==
    /\ hot \subseteq issued
    /\ \A p \in Pod : doc[p] \subseteq issued /\ pending[p] \subseteq issued
    /\ \A p \in Pod : \A i \in 1..Len(saving[p]) : saving[p][i] \subseteq issued
    /\ \A m \in net : m.ops \subseteq issued

Inv == TypeOK /\ Known

\* What is published are messages.
LEMMA PublishType ==
    \A S \in SUBSET Op : /\ Publish(S) \subseteq Message
                         /\ \A m \in Publish(S) : m.ops = S
  BY DEF Publish, Message

\* The initial states satisfy the type invariant.
LEMMA InvInit == Init => Inv
  BY DEF Init, Inv, TypeOK, Known

\* Every step preserves it.
LEMMA InvStep == Inv /\ [Next]_vars => Inv'
<1> SUFFICES ASSUME Inv, [Next]_vars PROVE Inv'
  OBVIOUS
<1> USE ConstantsAssumption, PublishType DEF Inv, TypeOK, Known, budget
<1>1. ASSUME NEW p \in Pod, NEW o \in Op, Edit(p, o) PROVE Inv'
  <2>1. {o} \in SUBSET Op /\ o \in issued' /\ issued \subseteq issued'
    BY <1>1 DEF Edit
  <2>2. net' \subseteq Message /\ \A m \in net' : m.ops \subseteq issued'
    BY <1>1, <2>1 DEF Edit
  <2>3. /\ doc' = [doc EXCEPT ![p] = @ \cup {o}]
        /\ pending' = [pending EXCEPT ![p] = @ \cup {o}]
    BY <1>1 DEF Edit
  <2>4. \A q \in Pod : doc'[q] \subseteq issued' /\ pending'[q] \subseteq issued'
    BY <2>1, <2>3
  <2>5. doc' \in [Pod -> SUBSET Op] /\ pending' \in [Pod -> SUBSET Op] /\ issued' \subseteq Op
    BY <1>1, <2>3 DEF Edit
  <2>6. UNCHANGED <<dirty, saving, hot, lost, faults, crashes, expiries>>
    BY <1>1 DEF Edit
  <2> QED
    BY <2>1, <2>2, <2>4, <2>5, <2>6
<1>2. ASSUME NEW p \in Pod, NEW o \in Op, Published(p, o) PROVE Inv'
  <2>1. {o} \in SUBSET Op /\ o \in issued
    BY <1>2 DEF Published
  <2>2. net' \subseteq Message /\ \A m \in net' : m.ops \subseteq issued
    <3>1. net' = net \cup Publish({o})
      BY <1>2 DEF Published
    <3>2. Publish({o}) \subseteq Message /\ \A m \in Publish({o}) : m.ops = {o}
      BY <2>1
    <3> QED
      BY <2>1, <3>1, <3>2
  <2>3. /\ pending' = [pending EXCEPT ![p] = @ \ {o}]
        /\ dirty' = [dirty EXCEPT ![p] = TRUE]
        /\ UNCHANGED <<issued, doc, saving, hot, lost, faults, crashes, expiries>>
    BY <1>2 DEF Published
  <2> QED
    BY <2>2, <2>3
<1>3. ASSUME NEW p \in Pod, SaveStart(p) PROVE Inv'
  BY <1>3 DEF SaveStart
<1>4. ASSUME NEW p \in Pod, SaveDone(p) PROVE Inv'
  BY <1>4 DEF SaveDone
<1>5. ASSUME NEW p \in Pod, SaveFails(p) PROVE Inv'
  BY <1>5 DEF SaveFails
<1>6. ASSUME NEW p \in Pod, Heal(p) PROVE Inv'
  <2>1. hot \ doc[p] \in SUBSET Op /\ hot \ doc[p] \subseteq issued
    OBVIOUS
  <2>2. net' \subseteq Message /\ \A m \in net' : m.ops \subseteq issued
    <3>1. net' = net \cup Publish(hot \ doc[p])
      BY <1>6 DEF Heal
    <3>2. /\ Publish(hot \ doc[p]) \subseteq Message
          /\ \A m \in Publish(hot \ doc[p]) : m.ops = hot \ doc[p]
      BY <2>1
    <3> QED
      BY <2>1, <3>1, <3>2
  <2>3. /\ doc' = [doc EXCEPT ![p] = @ \cup hot]
        /\ UNCHANGED <<issued, pending, dirty, saving, hot, lost, faults, crashes, expiries>>
    BY <1>6 DEF Heal
  <2> QED
    BY <2>2, <2>3
<1>7. ASSUME NEW p \in Pod, Crash(p) PROVE Inv'
  BY <1>7 DEF Crash
<1>8. ASSUME NEW m \in net, Deliver(m) PROVE Inv'
  BY <1>8 DEF Deliver, Message
<1>9. ASSUME NEW m \in net, Lose(m) PROVE Inv'
  BY <1>9 DEF Lose
<1>10. CASE Expire
  BY <1>10 DEF Expire
<1>11. CASE UNCHANGED vars
  BY <1>11 DEF vars
<1> QED
  BY <1>1, <1>2, <1>3, <1>4, <1>5, <1>6, <1>7, <1>8, <1>9, <1>10, <1>11 DEF Next

\* It holds in every behaviour.
LEMMA InvAlways == Spec => []Inv
  BY InvInit, InvStep, PTL DEF Spec

\* Types, for every set of pods and edits and every bound.
THEOREM TypeCorrect == Spec => []TypeOK
<1>1. Inv => TypeOK
  BY DEF Inv
<1> QED
  BY <1>1, InvAlways, PTL

-----------------------------------------------------------------------------
(* DocSync implements SharedDoc. *)

\* An initial state of DocSync is one of SharedDoc.
LEMMA RefinesInit == Init => Shared!Init
  BY DEF Init, Shared!Init

\* A step of DocSync is a step of SharedDoc or changes nothing there.
LEMMA RefinesStep == Inv /\ Inv' /\ [Next]_vars => [Shared!Next]_(Shared!vars)
<1> SUFFICES ASSUME Inv, Inv', [Next]_vars
             PROVE  Shared!Next \/ UNCHANGED <<issued, doc, hot>>
  BY DEF Shared!vars
<1> USE DEF Inv, TypeOK, Known
<1>1. ASSUME NEW p \in Pod, NEW o \in Op, Edit(p, o) PROVE Shared!Next
  <2>1. Shared!Edit(p, o)
    BY <1>1 DEF Edit, Shared!Edit
  <2> QED
    BY <2>1 DEF Shared!Next
<1>2. ASSUME NEW p \in Pod, NEW o \in Op, Published(p, o)
      PROVE  UNCHANGED <<issued, doc, hot>>
  BY <1>2 DEF Published
<1>3. ASSUME NEW p \in Pod, SaveStart(p) \/ SaveFails(p)
      PROVE  UNCHANGED <<issued, doc, hot>>
  BY <1>3 DEF SaveStart, SaveFails
<1>4. ASSUME NEW p \in Pod, SaveDone(p) PROVE Shared!Next
  <2>1. Shared!Store
    BY <1>4 DEF SaveDone, Shared!Store
  <2> QED
    BY <2>1 DEF Shared!Next
<1>5. ASSUME NEW p \in Pod, Heal(p) PROVE Shared!Next
  <2>1. doc' = [doc EXCEPT ![p] = @ \cup hot] /\ UNCHANGED <<issued, hot>>
    BY <1>5 DEF Heal
  <2>2. Shared!Learn(p)
    BY <2>1 DEF Shared!Learn
  <2> QED
    BY <2>2 DEF Shared!Next
<1>6. ASSUME NEW p \in Pod, Crash(p) PROVE Shared!Next
  <2>1. Shared!Forget(p)
    BY <1>6 DEF Crash, Shared!Forget
  <2> QED
    BY <2>1 DEF Shared!Next
<1>7. ASSUME NEW m \in net, Deliver(m) PROVE Shared!Next \/ UNCHANGED <<issued, doc, hot>>
  <2>1. CASE Connected
    <3>1. /\ doc' = [doc EXCEPT ![m.to] = @ \cup m.ops] /\ UNCHANGED <<issued, hot>>
          /\ m.to \in Pod /\ m.ops \in SUBSET issued
      BY <1>7, <2>1 DEF Deliver, Message
    <3>2. Shared!Learn(m.to)
      BY <3>1 DEF Shared!Learn
    <3> QED
      BY <3>1, <3>2 DEF Shared!Next
  <2>2. CASE ~Connected
    BY <1>7, <2>2 DEF Deliver
  <2> QED
    BY <2>1, <2>2
<1>8. ASSUME NEW m \in net, Lose(m) PROVE UNCHANGED <<issued, doc, hot>>
  BY <1>8 DEF Lose
<1>9. CASE Expire
  <2>1. Shared!Store
    BY <1>9 DEF Expire, Shared!Store
  <2> QED
    BY <2>1 DEF Shared!Next
<1>10. CASE UNCHANGED vars
  BY <1>10 DEF vars
<1> QED
  BY <1>1, <1>2, <1>3, <1>4, <1>5, <1>6, <1>7, <1>8, <1>9, <1>10 DEF Next

\* The copies of the pods and the hot snapshot implement the abstract shared
\* document: every step of DocSync is one of SharedDoc or changes nothing of it.
THEOREM Refinement == Spec => ImplementsSharedDoc
  BY InvAlways, RefinesInit, RefinesStep, PTL
     DEF Spec, ImplementsSharedDoc, Shared!Spec

-----------------------------------------------------------------------------
(* The hot snapshot of a session that one pod holds. *)

\* Of one pod that does not crash the snapshots are ordered by age: the hot one,
\* the saves in flight, the document.
InOrder ==
    \A p \in Pod :
        /\ hot \subseteq doc[p]
        /\ \A i \in 1..Len(saving[p]) :
              /\ hot \subseteq saving[p][i] /\ saving[p][i] \subseteq doc[p]
              /\ \A j \in i..Len(saving[p]) : saving[p][i] \subseteq saving[p][j]

OnePod == MaxCrashes = 0 /\ \A p, q \in Pod : p = q

\* While documents only grow and neither saves nor the hot snapshot change,
\* they stay in order.
LEMMA InOrderGrown ==
    ASSUME InOrder, UNCHANGED <<saving, hot>>, \A p \in Pod : doc[p] \subseteq doc'[p]
    PROVE  InOrder'
  BY DEF InOrder

\* A tick appends the newest.
LEMMA InOrderStart ==
    ASSUME Inv, InOrder, NEW p \in Pod, SaveStart(p), OnePod PROVE InOrder'
<1> USE DEF Inv, TypeOK, InOrder, OnePod
<1> DEFINE s == saving[p]
           n == Len(saving[p])
<1>1. /\ s \in Seq(SUBSET Op) /\ n \in Nat /\ UNCHANGED <<doc, hot>>
      /\ saving'[p] = Append(s, doc[p])
  BY DEF SaveStart
<1>2. /\ Len(saving'[p]) = n + 1 /\ saving'[p][n + 1] = doc[p]
      /\ \A i \in 1..n : saving'[p][i] = s[i]
  BY <1>1
<1>3. ASSUME NEW i \in 1..(n + 1)
      PROVE  /\ hot \subseteq saving'[p][i] /\ saving'[p][i] \subseteq doc[p]
             /\ \A j \in i..(n + 1) : saving'[p][i] \subseteq saving'[p][j]
  <2>1. CASE i = n + 1
    BY <1>1, <1>2, <2>1
  <2>2. CASE i \in 1..n
    <3>1. saving'[p][i] = s[i] /\ s[i] \subseteq doc[p] /\ hot \subseteq s[i]
      BY <1>2, <2>2
    <3>2. ASSUME NEW j \in i..(n + 1) PROVE saving'[p][i] \subseteq saving'[p][j]
      <4>1. CASE j = n + 1
        BY <1>2, <3>1, <4>1
      <4>2. CASE j # n + 1
        <5>1. j \in i..n /\ j \in 1..n
          BY <1>1, <2>2, <4>2
        <5> QED
          BY <1>2, <2>2, <3>1, <5>1
      <4> QED
        BY <4>1, <4>2
    <3> QED
      BY <3>1, <3>2
  <2> QED
    BY <1>1, <2>1, <2>2
<1> QED
  BY <1>1, <1>2, <1>3

\* The oldest save leaves the queue; if it is stored, the others are newer.
LEMMA InOrderEnd ==
    ASSUME Inv, InOrder, NEW p \in Pod, SaveDone(p) \/ SaveFails(p), OnePod
    PROVE  InOrder' /\ hot \subseteq hot'
<1> USE DEF Inv, TypeOK, InOrder, OnePod
<1> DEFINE s == saving[p]
           n == Len(saving[p])
<1>1. /\ s \in Seq(SUBSET Op) /\ s # <<>> /\ n \in Nat /\ UNCHANGED doc
      /\ saving'[p] = Tail(s) /\ (hot' = Head(s) \/ hot' = hot)
  BY DEF SaveDone, SaveFails
<1>2. /\ n >= 1 /\ Head(s) = s[1] /\ Len(saving'[p]) = n - 1
      /\ \A i \in 1..(n - 1) : saving'[p][i] = s[i + 1]
  BY <1>1
<1>3. hot \subseteq hot' /\ hot' \subseteq doc[p] /\ \A i \in 1..n : hot' \subseteq s[i]
  BY <1>1, <1>2
<1>4. ASSUME NEW i \in 1..(n - 1)
      PROVE  /\ hot' \subseteq saving'[p][i] /\ saving'[p][i] \subseteq doc[p]
             /\ \A j \in i..(n - 1) : saving'[p][i] \subseteq saving'[p][j]
  <2>1. i + 1 \in 1..n /\ saving'[p][i] = s[i + 1]
    BY <1>1, <1>2
  <2>2. ASSUME NEW j \in i..(n - 1) PROVE saving'[p][i] \subseteq saving'[p][j]
    <3>1. j \in 1..(n - 1) /\ j + 1 \in (i + 1)..n /\ saving'[p][j] = s[j + 1]
      BY <1>1, <1>2
    <3> QED
      BY <2>1, <3>1
  <2> QED
    BY <1>3, <2>1, <2>2
<1> QED
  BY <1>1, <1>2, <1>3, <1>4

\* Every step keeps them in order, and only the expiry takes edits away.
LEMMA InOrderStep ==
    ASSUME OnePod
    PROVE  Inv /\ InOrder /\ [Next]_vars =>
               InOrder' /\ (expiries' = expiries => hot \subseteq hot')
<1> SUFFICES ASSUME Inv, InOrder, [Next]_vars
             PROVE  InOrder' /\ (expiries' = expiries => hot \subseteq hot')
  OBVIOUS
<1> USE DEF Inv, TypeOK
<1>1. ASSUME NEW p \in Pod, SaveStart(p) PROVE InOrder' /\ UNCHANGED hot
  BY <1>1, InOrderStart DEF SaveStart
<1>2. ASSUME NEW p \in Pod, SaveDone(p) \/ SaveFails(p) PROVE InOrder' /\ hot \subseteq hot'
  BY <1>2, InOrderEnd
<1>3. ASSUME NEW p \in Pod,
             \/ \E o \in Op : Edit(p, o) \/ Published(p, o)
             \/ Heal(p)
      PROVE  InOrder' /\ UNCHANGED hot
  <2>1. UNCHANGED <<saving, hot>> /\ \A q \in Pod : doc[q] \subseteq doc'[q]
    BY <1>3 DEF Edit, Published, Heal
  <2> QED
    BY <2>1, InOrderGrown
<1>4. ASSUME NEW m \in net, Deliver(m) \/ Lose(m) PROVE InOrder' /\ UNCHANGED hot
  <2>1. UNCHANGED <<saving, hot>> /\ \A q \in Pod : doc[q] \subseteq doc'[q]
    BY <1>4 DEF Deliver, Lose
  <2> QED
    BY <2>1, InOrderGrown
<1>5. ASSUME NEW p \in Pod, Crash(p) PROVE FALSE
  BY <1>5 DEF Crash, OnePod
<1>6. CASE Expire
  <2>1. hot' = {} /\ UNCHANGED <<saving, doc>> /\ expiries' # expiries
    BY <1>6 DEF Expire
  <2> QED
    BY <2>1 DEF InOrder
<1>7. CASE UNCHANGED vars
  BY <1>7 DEF vars, InOrder
<1> QED
  BY <1>1, <1>2, <1>3, <1>4, <1>5, <1>6, <1>7 DEF Next

\* Overlapping saves that are answered or rejected in their order, lost
\* messages and healing never take the hot snapshot of a session that one pod
\* holds back: only the restart of a pod does.
THEOREM HotNeverGoesBack == ASSUME OnePod PROVE Spec => HotGrows
<1>1. Init => InOrder
  <2>1. Len(<<>>) = 0 /\ 1..0 = {}
    OBVIOUS
  <2> QED
    BY <2>1 DEF Init, InOrder
<1>2. Inv /\ InOrder /\ [Next]_vars => InOrder'
  BY InOrderStep
<1>3. Inv /\ InOrder /\ [Next]_vars => [expiries' = expiries => hot \subseteq hot']_vars
  BY InOrderStep
<1> QED
  BY <1>1, <1>2, <1>3, InvAlways, PTL DEF Spec, HotGrows
=============================================================================
