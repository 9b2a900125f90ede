------------------------ MODULE SessionDurableProofs ------------------------
(* Proof, for every set of clients, pods and settings, that the edits of a    *)
(* session survive the removals from memory, but for the losses that          *)
(* SessionContent names.                                                      *)
EXTENDS SessionContentProofs

\* Nothing is about to remove the pod's document without saving it first.
Calm(p) ==
    /\ \A t \in Task : P(t) = p => pc[t] \notin {"cleanup", "saving"}
    /\ cleanups[p] > 0 => \E t \in Task : P(t) = p /\ pc[t] = "release"

InSnapshot(e) == \E s \in snaps : e \in s.edits
InFinal(e) == \E t \in Task : final[t] # None /\ e \in final[t].edits
InDoc(e) == \E p \in Pod : doc[p] # None /\ e \in content[doc[p]] /\ Calm(p)

\* A save that is skipped was made before.
Skipped ==
    \A t \in Task : final[t] # None /\ final[t].save = "skip" =>
        \E s \in snaps : s.edits = final[t].edits

Safe == \A e \in Made \ excused : InSnapshot(e) \/ InFinal(e) \/ InDoc(e)
Durably == Skipped /\ Safe

-----------------------------------------------------------------------------
(* Kinds of steps that keep it. *)

\* No update is done by a step that finishes no update.
LEMMA MadeKeeps ==
    ASSUME TypeOK, NEW t \in Task, NEW l, Goto(t, l), l = "done" => t[2] # "update"
    PROVE  Made' \subseteq Made
<1>1. \A k \in Edit : <<k, "update">> \in Task /\ (<<k, "update">>)[2] = "update"
  BY KindTask DEF Kind, Edit
<1> QED BY <1>1 DEF Goto, TypeOK, Made

\* A pod stays calm unless a removal starts or a leaver goes on to release it.
LEMMA CalmGoto ==
    ASSUME TypeOK, NEW t \in Task, NEW l, Goto(t, l), pc[t] # "release",
           l \notin {"cleanup", "saving"}, NEW p \in Pod, cleanups'[p] = cleanups[p],
           Calm(p)
    PROVE  Calm(p)'
<1>1. \A u \in Task : pc'[u] = IF u = t THEN l ELSE pc[u]
  BY DEF Goto, TypeOK
<1>2. \A u \in Task : P(u)' = P(u)
  BY DEF P
<1>3. \A u \in Task : P(u) = p => pc'[u] \notin {"cleanup", "saving"}
  BY <1>1 DEF Calm
<1>4. cleanups'[p] > 0 => \E u \in Task : P(u) = p /\ pc'[u] = "release"
  BY <1>1 DEF Calm
<1> QED BY <1>3, <1>4 DEF Calm, P

\* What happens on other pods leaves it calm.
LEMMA CalmElsewhere ==
    ASSUME TypeOK, NEW t \in Task, NEW l, Goto(t, l), NEW p \in Pod, p # P(t),
           cleanups'[p] = cleanups[p], Calm(p)
    PROVE  Calm(p)'
<1>1. \A u \in Task : P(u) = p => pc'[u] = pc[u]
  BY DEF Goto, TypeOK
<1>2. \A u \in Task : P(u)' = P(u)
  BY DEF P
<1>3. \A u \in Task : P(u) = p => pc'[u] \notin {"cleanup", "saving"}
  BY <1>1 DEF Calm
<1>4. cleanups'[p] > 0 => \E u \in Task : P(u) = p /\ pc'[u] = "release"
  BY <1>1 DEF Calm
<1> QED BY <1>3, <1>4 DEF Calm, P

\* A step that saves nothing, and disturbs a calm pod only at the expense of
\* edits that are excused.
LEMMA DurablyKeeps ==
    ASSUME TypeOK, Durably, UNCHANGED <<snaps, final>>, excused \subseteq excused',
           \A d \in Object : content[d] \subseteq content'[d], Made' \subseteq Made,
           \A p \in Pod : doc[p] # None /\ Calm(p) =>
               (doc'[p] = doc[p] /\ Calm(p)') \/ content[doc[p]] \subseteq excused'
    PROVE  Durably'
<1>1. Skipped'
  BY DEF Durably, Skipped
<1>2. ASSUME NEW e \in Made' \ excused'
      PROVE  InSnapshot(e)' \/ InFinal(e)' \/ InDoc(e)'
  <2>1. CASE InSnapshot(e)
    BY <2>1 DEF InSnapshot
  <2>2. CASE InFinal(e)
    BY <2>2 DEF InFinal
  <2>3. CASE InDoc(e)
    <3>1. PICK p \in Pod : doc[p] # None /\ e \in content[doc[p]] /\ Calm(p)
      BY <2>3 DEF InDoc
    <3>2. doc[p] \in Object
      BY <3>1 DEF TypeOK
    <3>3. doc'[p] # None /\ e \in content'[doc'[p]] /\ Calm(p)'
      BY <1>2, <3>1, <3>2
    <3> QED BY <3>3 DEF InDoc
  <2> QED BY <1>2, <2>1, <2>2, <2>3 DEF Durably, Safe
<1> QED BY <1>1, <1>2 DEF Durably, Safe

\* Most steps are one task going on.
LEMMA DurablyGoto ==
    ASSUME TypeOK, Durably, NEW t \in Task, NEW l, Goto(t, l), pc[t] # "release",
           l \notin {"cleanup", "saving"}, l = "done" => t[2] # "update",
           UNCHANGED <<snaps, final, cleanups, excused>>,
           \A d \in Object : content[d] \subseteq content'[d],
           \A p \in Pod : doc[p] # None /\ Calm(p) => doc'[p] = doc[p]
    PROVE  Durably'
<1>1. Made' \subseteq Made
  BY MadeKeeps
<1>2. \A p \in Pod : Calm(p) => Calm(p)'
  BY CalmGoto
<1> QED BY <1>1, <1>2, DurablyKeeps

\* An update that is done has put its edit into a document in use.
LEMMA DurablyApply ==
    ASSUME TypeOK, Durably, NEW t \in Task, t[2] = "update", Goto(t, "done"),
           pc[t] # "release", NEW d \in Object, Apply(t, d),
           UNCHANGED <<snaps, final, cleanups, doc>>
    PROVE  Durably'
<1>1. /\ content' = [content EXCEPT ![d] = @ \cup {t[1]}]
      /\ excused \subseteq excused' /\ content \in [Object -> SUBSET Edit]
  BY DEF Apply, TypeOK
<1>2. t[1] \notin excused' => ~ Removing(P(t)) /\ doc[P(t)] = d
  BY DEF Apply
<1>3. \A p \in Pod : Calm(p) => Calm(p)'
  BY CalmGoto
<1>4. Skipped'
  BY DEF Durably, Skipped
<1>5. ASSUME NEW e \in Made' \ excused'
      PROVE  InSnapshot(e)' \/ InFinal(e)' \/ InDoc(e)'
  <2>1. CASE e = t[1]
    <3>1. doc[P(t)] = d /\ P(t) \in Pod /\ e \in content'[d] /\ d # None
      BY <1>1, <1>2, <1>5, <2>1, TaskType, ConstantsAssumption
    <3>2. Calm(P(t))
      <4>1. \A u \in Task : P(u) = P(t) => pc[u] \notin {"cleanup", "saving"}
        BY <1>2, <1>5, <2>1 DEF Removing
      <4>2. ~ (cleanups[P(t)] > 0)
        BY <1>2, <1>5, <2>1 DEF Removing
      <4> QED BY <4>1, <4>2 DEF Calm
    <3>3. Calm(P(t))'
      <4> DEFINE p == P(t)
      <4>1. p \in Pod /\ Calm(p) /\ p' = p
        BY <3>1, <3>2 DEF P
      <4> HIDE DEF p
      <4>2. Calm(p)'
        BY <1>3, <4>1
      <4> QED BY <4>2 DEF p
    <3> QED BY <3>1, <3>3 DEF InDoc, P
  <2>2. CASE e # t[1]
    <3>1. e \in Made \ excused
      <4>1. \A k \in Edit : /\ <<k, "update">> \in Task /\ (<<k, "update">>)[1] = k
        BY KindTask DEF Kind, Edit
      <4>2. e \in Edit /\ pc'[<<e, "update">>] = "done" /\ <<e, "update">> # t
        BY <1>5, <2>2, <4>1 DEF Made
      <4>3. pc[<<e, "update">>] = "done"
        BY <4>1, <4>2 DEF Goto, TypeOK
      <4> QED BY <1>1, <1>5, <4>2, <4>3 DEF Made
    <3>2. CASE InSnapshot(e)
      BY <3>2 DEF InSnapshot
    <3>3. CASE InFinal(e)
      BY <3>3 DEF InFinal
    <3>4. CASE InDoc(e)
      <4>1. PICK p \in Pod : doc[p] # None /\ e \in content[doc[p]] /\ Calm(p)
        BY <3>4 DEF InDoc
      <4>2. doc[p] \in Object
        BY <4>1 DEF TypeOK
      <4>3. doc'[p] # None /\ e \in content'[doc'[p]] /\ Calm(p)'
        BY <1>1, <1>3, <4>1, <4>2
      <4> QED BY <4>3 DEF InDoc
    <3> QED BY <3>1, <3>2, <3>3, <3>4 DEF Durably, Safe
  <2> QED BY <2>1, <2>2
<1> QED BY <1>4, <1>5 DEF Durably, Safe

\* Taking the document of a pod takes all that was safe in it.
LEMMA DurablyTake ==
    ASSUME TypeOK, Durably, NEW t \in Task, pc[t] # "saving", Goto(t, "saving"),
           doc[P(t)] # None, Take(t), Made' \subseteq Made,
           UNCHANGED <<snaps, excused, content, doc, cleanups>>
    PROVE  Durably'
<1>1. /\ final'[t] # None /\ \A u \in Task \ {t} : final'[u] = final[u]
      /\ final'[t].edits = content[doc[P(t)]]
  BY TakeType
<1>2. final'[t].save = None
  BY DEF Take, TypeOK
<1>3. final[t] = None
  BY DEF TypeOK
<1>4. Skipped'
  BY <1>1, <1>2, ConstantsAssumption DEF Durably, Skipped
<1>5. ASSUME NEW e \in Made' \ excused'
      PROVE  InSnapshot(e)' \/ InFinal(e)' \/ InDoc(e)'
  <2>1. CASE InSnapshot(e)
    BY <2>1 DEF InSnapshot
  <2>2. CASE InFinal(e)
    BY <1>1, <1>3, <2>2 DEF InFinal
  <2>3. CASE InDoc(e)
    <3>1. PICK p \in Pod : doc[p] # None /\ e \in content[doc[p]] /\ Calm(p)
      BY <2>3 DEF InDoc
    <3>2. CASE p = P(t)
      BY <1>1, <3>1, <3>2 DEF InFinal
    <3>3. CASE p # P(t)
      <4>1. Calm(p)'
        BY <3>1, <3>3, CalmElsewhere
      <4> QED BY <3>1, <4>1 DEF InDoc
    <3> QED BY <3>2, <3>3
  <2> QED BY <1>5, <2>1, <2>2, <2>3 DEF Durably, Safe
<1> QED BY <1>4, <1>5 DEF Durably, Safe

\* Whoever has taken a document gives up only edits that are in a snapshot by
\* then, or that a rejected write has lost.
LEMMA DurablyFinal ==
    ASSUME TypeOK, Durably, NEW t \in Task, pc[t] = "saving", NEW l \in {"done", "write"},
           Goto(t, l), final' = [final EXCEPT ![t] = None],
           UNCHANGED <<content, cleanups>>, snaps \subseteq snaps', excused \subseteq excused',
           \A p \in Pod : p # P(t) => doc'[p] = doc[p],
           \A e \in final[t].edits : e \in excused' \/ \E s \in snaps' : e \in s.edits
    PROVE  Durably'
<1>1. Made' \subseteq Made
  BY MadeKeeps, KindOf
<1>2. \A p \in Pod : Calm(p) => Calm(p)' /\ p # P(t)
  BY CalmGoto DEF Calm
<1>3. \A u \in Task : final'[u] = IF u = t THEN None ELSE final[u]
  BY DEF TypeOK
<1>4. Skipped'
  BY <1>3 DEF Durably, Skipped
<1>5. ASSUME NEW e \in Made' \ excused'
      PROVE  InSnapshot(e)' \/ InFinal(e)' \/ InDoc(e)'
  <2>1. CASE InSnapshot(e)
    BY <2>1 DEF InSnapshot
  <2>2. CASE InFinal(e)
    <3>1. PICK u \in Task : final[u] # None /\ e \in final[u].edits
      BY <2>2 DEF InFinal
    <3>2. CASE u = t
      BY <1>5, <3>1, <3>2 DEF InSnapshot
    <3>3. CASE u # t
      BY <1>3, <3>1, <3>3 DEF InFinal
    <3> QED BY <3>2, <3>3
  <2>3. CASE InDoc(e)
    <3>1. PICK p \in Pod : doc[p] # None /\ e \in content[doc[p]] /\ Calm(p)
      BY <2>3 DEF InDoc
    <3>2. doc'[p] # None /\ e \in content'[doc'[p]] /\ Calm(p)'
      BY <1>2, <3>1
    <3> QED BY <3>2 DEF InDoc
  <2> QED BY <1>1, <1>5, <2>1, <2>2, <2>3 DEF Durably, Safe
<1> QED BY <1>4, <1>5 DEF Durably, Safe

\* The two ways a save ends.
LEMMA SaveEnds ==
    ASSUME TypeOK, Durably, NEW t \in Task, pc[t] = "saving",
           Saved(t) \/ Unsaved(t)
    PROVE  /\ snaps \subseteq snaps' /\ excused \subseteq excused'
           /\ \A e \in final[t].edits :
                e \in excused' \/ \E s \in snaps' : e \in s.edits
<1>1. final[t] # None
  BY DEF TypeOK
<1>2. CASE Unsaved(t)
  BY <1>2 DEF Unsaved
<1>3. CASE Saved(t) /\ final[t].save = "skip"
  BY <1>1, <1>3 DEF Saved, Durably, Skipped
<1>4. CASE Saved(t) /\ final[t].save # "skip"
  <2> DEFINE s == [edits |-> final[t].edits, setting |-> final[t].save]
  <2>1. snaps' = snaps \cup {s} /\ excused' = excused
    BY <1>4 DEF Saved
  <2>2. s.edits = final[t].edits
    OBVIOUS
  <2> HIDE DEF s
  <2> QED BY <2>1, <2>2
<1> QED BY <1>2, <1>3, <1>4

-----------------------------------------------------------------------------
\* Every step keeps it.
LEMMA DurablyStep == Inv /\ Durably /\ [Next]_vars => Durably'
<1> USE TaskType, KindTask, ObjectTask DEF people, memory, store, work
<1> SUFFICES ASSUME Inv, Durably, [Next]_vars PROVE Durably'
  OBVIOUS
<1>0. TypeOK
  BY DEF Inv
<1>1. ASSUME NEW t \in Task, Step(t) PROVE Durably'
  <2>1. CASE JoinAdd(t)
    <3>1. /\ Goto(t, "check") /\ pc[t] # "release"
          /\ UNCHANGED <<snaps, final, cleanups, excused, content, doc>>
      BY <2>1 DEF JoinAdd
    <3> QED BY <1>0, <3>1, DurablyGoto
  <2>2. CASE JoinServe(t)
    <3>1. /\ Goto(t, "done") /\ pc[t] # "release"
          /\ UNCHANGED <<snaps, final, cleanups, excused, content, doc>>
      BY <2>2 DEF JoinServe
    <3>2. t[2] # "update"
      BY <1>0, <2>2, KindOf DEF JoinServe
    <3> QED BY <1>0, <3>1, <3>2, DurablyGoto
  <2>3. CASE JoinRestore(t)
    <3>1. /\ Goto(t, "cleanup") /\ pc[t] = "check" /\ doc[P(t)] = None
          /\ UNCHANGED <<snaps, final, cleanups, excused, content, doc>>
      BY <2>3 DEF JoinRestore
    <3>2. ASSUME NEW p \in Pod, doc[p] # None, Calm(p) PROVE Calm(p)'
      <4>1. p # P(t)
        BY <3>1, <3>2
      <4> QED BY <1>0, <3>1, <3>2, <4>1, CalmElsewhere
    <3>3. Made' \subseteq Made
      BY <1>0, <3>1, MadeKeeps
    <3> QED BY <1>0, <3>1, <3>2, <3>3, DurablyKeeps
  <2>4. CASE JoinCleaned(t)
    <3>1. /\ Goto(t, "load") /\ pc[t] = "cleanup"
          /\ UNCHANGED <<snaps, final, cleanups, excused, content>>
      BY <2>4 DEF JoinCleaned
    <3>2. ASSUME NEW p \in Pod, Calm(p) PROVE doc'[p] = doc[p]
      <4>1. p # P(t)
        BY <3>1, <3>2 DEF Calm
      <4>2. Drop(P(t))
        BY <2>4 DEF JoinCleaned
      <4> QED BY <1>0, <4>1, <4>2, DropKeeps
    <3> QED BY <1>0, <3>1, <3>2, DurablyGoto
  <2>5. CASE LoadPresent(t)
    <3>1. /\ Goto(t, "done") /\ pc[t] # "release"
          /\ UNCHANGED <<snaps, final, cleanups, excused, content, doc>>
      BY <2>5 DEF LoadPresent
    <3>2. t[2] # "update"
      BY <1>0, <2>5, KindOf DEF LoadPresent
    <3> QED BY <1>0, <3>1, <3>2, DurablyGoto
  <2>6. CASE LoadNew(t)
    <3>1. /\ Goto(t, "snapshot") /\ pc[t] = "load" /\ doc[P(t)] = None
          /\ UNCHANGED <<snaps, final, cleanups, excused, content>>
      BY <2>6 DEF LoadNew
    <3>2. \A p \in Pod : doc[p] # None => doc'[p] = doc[p]
      BY <1>0, <2>6, <3>1 DEF LoadNew, TypeOK
    <3> QED BY <1>0, <3>1, <3>2, DurablyGoto
  <2>7. CASE LoadSnapshot(t)
    <3>1. /\ Goto(t, "meta") /\ pc[t] = "snapshot"
          /\ UNCHANGED <<snaps, final, cleanups, excused, doc>>
      BY <2>7 DEF LoadSnapshot
    <3>2. \A d \in Object : content[d] \subseteq content'[d]
      BY <1>0, <2>7 DEF LoadSnapshot, TypeOK
    <3> QED BY <1>0, <3>1, <3>2, DurablyGoto
  <2>8. CASE LoadBlank(t)
    <3>1. UNCHANGED <<pc, snaps, final, cleanups, excused, content, doc>>
      BY <2>8 DEF LoadBlank
    <3> QED BY <1>0, <3>1, DurablyKeeps DEF Made, Calm, P
  <2>9. CASE LoadMetadata(t)
    <3>1. /\ Goto(t, "control") /\ pc[t] # "release"
          /\ UNCHANGED <<snaps, final, cleanups, excused, content, doc>>
      BY <2>9 DEF LoadMetadata
    <3> QED BY <1>0, <3>1, DurablyGoto
  <2>10. CASE LoadControl(t)
    <3>1. /\ Goto(t, "done") /\ pc[t] = "control" /\ t \in Object
          /\ UNCHANGED <<snaps, final, cleanups, doc>>
      BY <1>0, <2>10, KindOf DEF LoadControl
    <3>2. CASE t[2] = "join"
      <4>1. UNCHANGED <<content, excused>>
        BY <2>10, <3>2 DEF LoadControl
      <4> QED BY <1>0, <3>1, <3>2, <4>1, DurablyGoto
    <3>3. CASE t[2] = "update"
      BY <1>0, <2>10, <3>1, <3>3, DurablyApply DEF LoadControl
    <3> QED BY <3>1, <3>2, <3>3 DEF Object
  <2>11. CASE ChangeWritten(t)
    <3>1. /\ Goto(t, "done") /\ pc[t] # "release"
          /\ UNCHANGED <<snaps, final, cleanups, excused, content, doc>>
      BY <2>11 DEF ChangeWritten
    <3>2. t[2] # "update"
      BY <1>0, <2>11, KindOf DEF ChangeWritten
    <3> QED BY <1>0, <3>1, <3>2, DurablyGoto
  <2>12. CASE ChangeRejected(t)
    <3>1. /\ Goto(t, "done") /\ pc[t] # "release"
          /\ UNCHANGED <<snaps, final, cleanups, excused, content, doc>>
      BY <2>12 DEF ChangeRejected
    <3>2. t[2] # "update"
      BY <1>0, <2>12, KindOf DEF ChangeRejected
    <3> QED BY <1>0, <3>1, <3>2, DurablyGoto
  <2>13. CASE Decide(t)
    <3>1. /\ pc[t] = "saving" /\ final[t] # None /\ final[t] \in Final
          /\ UNCHANGED <<pc, cleanups, doc, content, snaps, excused>>
      BY <1>0, <2>13 DEF Decide, TypeOK
    <3>2. PICK w : /\ final' = [final EXCEPT ![t].save = w]
                   /\ w = "skip" => \E s \in snaps : s.edits = final[t].edits
      <4>1. ToSave(final[t]) # "skip"
        BY <1>0, <3>1, ConstantsAssumption DEF ToSave, Final, TypeOK
      <4> QED BY <2>13, <4>1 DEF Decide
    <3>3. /\ final'[t] # None /\ final'[t].edits = final[t].edits /\ final'[t].save = w
          /\ \A u \in Task \ {t} : final'[u] = final[u]
      <4>1. final'[t] = [final[t] EXCEPT !.save = w]
        BY <1>0, <3>2 DEF TypeOK
      <4>2. final'[t] # None
        BY <1>0, <2>13, InvStep, <3>1 DEF Next, Inv, TypeOK
      <4> QED BY <1>0, <3>1, <3>2, <4>1, <4>2 DEF TypeOK, Final
    <3>4. Skipped'
      BY <3>1, <3>2, <3>3 DEF Durably, Skipped
    <3>5. ASSUME NEW e, InFinal(e) PROVE InFinal(e)'
      BY <3>3, <3>5 DEF InFinal
    <3>6. ASSUME NEW e, InDoc(e) PROVE InDoc(e)'
      BY <3>1, <3>6 DEF InDoc, Calm, P
    <3>7. Made' = Made /\ \A e : InSnapshot(e)' = InSnapshot(e)
      BY <3>1 DEF Made, InSnapshot
    <3> QED BY <3>1, <3>4, <3>5, <3>6, <3>7 DEF Durably, Safe
  <2>14. CASE LeaveRemove(t)
    <3>1. /\ Goto(t, "count") /\ pc[t] # "release"
          /\ UNCHANGED <<snaps, final, cleanups, excused, content, doc>>
      BY <2>14 DEF LeaveRemove
    <3> QED BY <1>0, <3>1, DurablyGoto
  <2>15. CASE LeaveCount(t)
    <3>1. PICK l \in {"destroy", "done"} : Goto(t, l)
      BY <2>15 DEF LeaveCount
    <3>2. /\ pc[t] # "release" /\ t[2] # "update"
          /\ UNCHANGED <<snaps, final, cleanups, excused, content, doc>>
      BY <1>0, <2>15, KindOf DEF LeaveCount
    <3> QED BY <1>0, <3>1, <3>2, DurablyGoto
  <2>16. CASE LeaveDestroy(t)
    <3>1. /\ Goto(t, "release") /\ pc[t] = "destroy"
          /\ UNCHANGED <<snaps, final, content, doc>>
      BY <2>16 DEF LeaveDestroy
    <3>2. ASSUME NEW p \in Pod, doc[p] # None, Calm(p)
          PROVE  Calm(p)' \/ content[doc[p]] \subseteq excused'
      <4>0. cleanups'[p] = cleanups[p] + listening[p]
        BY <2>16 DEF LeaveDestroy
      <4>1. CASE P(t) = p
        <5>1. \A u \in Task : pc'[u] = IF u = t THEN "release" ELSE pc[u]
          BY <1>0, <3>1 DEF Goto, TypeOK
        <5> QED BY <3>2, <4>1, <5>1 DEF Calm, P
      <4>2. CASE P(t) # p /\ listening[p] > 0
        BY <2>16, <3>2, <4>2 DEF LeaveDestroy
      <4>3. CASE P(t) # p /\ ~ (listening[p] > 0)
        <5>1. listening[p] \in Nat /\ cleanups[p] \in Nat
          BY <1>0 DEF TypeOK
        <5>2. cleanups'[p] = cleanups[p]
          BY <4>0, <4>3, <5>1
        <5> QED BY <1>0, <3>1, <3>2, <4>3, <5>2, CalmElsewhere
      <4> QED BY <4>1, <4>2, <4>3
    <3>3. Made' \subseteq Made
      BY <1>0, <3>1, MadeKeeps
    <3>4. excused \subseteq excused'
      BY <2>16 DEF LeaveDestroy
    <3> QED BY <1>0, <3>1, <3>2, <3>3, <3>4, DurablyKeeps
  <2>17. CASE LeaveRelease(t)
    <3>1. t[2] = "leave" /\ pc[t] = "release" /\ UNCHANGED <<snaps, excused, content, cleanups>>
      BY <1>0, <2>17, KindOf DEF LeaveRelease
    <3>2. CASE doc[P(t)] = None
      <4>1. Goto(t, "done") /\ UNCHANGED final
        BY <2>17, <3>2 DEF LeaveRelease
      <4>2. ASSUME NEW p \in Pod, doc[p] # None, Calm(p) PROVE doc'[p] = doc[p] /\ Calm(p)'
        <5>1. p # P(t) /\ Drop(P(t))
          BY <2>17, <3>2, <4>2 DEF LeaveRelease
        <5>2. doc'[p] = doc[p]
          BY <1>0, <5>1, DropKeeps
        <5> QED BY <1>0, <3>1, <4>1, <4>2, <5>1, <5>2, CalmElsewhere
      <4>3. Made' \subseteq Made
        BY <1>0, <3>1, <4>1, MadeKeeps
      <4> QED BY <1>0, <3>1, <4>1, <4>2, <4>3, DurablyKeeps
    <3>3. CASE doc[P(t)] # None
      <4>1. Take(t) /\ Goto(t, "saving") /\ doc' = doc
        BY <2>17, <3>3 DEF LeaveRelease
      <4>2. Made' \subseteq Made
        BY <1>0, <4>1, MadeKeeps
      <4> QED BY <1>0, <3>1, <3>3, <4>1, <4>2, DurablyTake
    <3> QED BY <3>2, <3>3
  <2>18. CASE LeaveReleased(t)
    <3>1. /\ pc[t] = "saving" /\ Goto(t, "done") /\ Drop(P(t)) /\ (Saved(t) \/ Unsaved(t))
          /\ final' = [final EXCEPT ![t] = None] /\ UNCHANGED <<content, cleanups>>
      BY <2>18 DEF LeaveReleased
    <3>2. /\ snaps \subseteq snaps' /\ excused \subseteq excused'
          /\ \A e \in final[t].edits : e \in excused' \/ \E s \in snaps' : e \in s.edits
      BY <1>0, <3>1, SaveEnds
    <3>3. \A p \in Pod : p # P(t) => doc'[p] = doc[p]
      BY <1>0, <3>1, DropKeeps
    <3> QED BY <1>0, <3>1, <3>2, <3>3, DurablyFinal
  <2>19. CASE CloseFind(t)
    <3>1. /\ t[2] = "close" /\ pc[t] = "find"
          /\ UNCHANGED <<snaps, excused, content, cleanups, doc>>
      BY <1>0, <2>19, KindOf DEF CloseFind
    <3>2. CASE doc[P(t)] = None
      BY <1>0, <2>19, <3>1, <3>2, DurablyGoto DEF CloseFind
    <3>3. CASE doc[P(t)] # None
      <4>1. Take(t) /\ Goto(t, "saving")
        BY <2>19, <3>3 DEF CloseFind
      <4>2. Made' \subseteq Made
        BY <1>0, <4>1, MadeKeeps
      <4> QED BY <1>0, <3>1, <3>3, <4>1, <4>2, DurablyTake
    <3> QED BY <3>2, <3>3
  <2>20. CASE CloseSaved(t)
    <3>1. /\ pc[t] = "saving" /\ Goto(t, "write") /\ Drop(P(t)) /\ (Saved(t) \/ Unsaved(t))
          /\ final' = [final EXCEPT ![t] = None] /\ UNCHANGED <<content, cleanups>>
      BY <2>20 DEF CloseSaved
    <3>2. /\ snaps \subseteq snaps' /\ excused \subseteq excused'
          /\ \A e \in final[t].edits : e \in excused' \/ \E s \in snaps' : e \in s.edits
      BY <1>0, <3>1, SaveEnds
    <3>3. \A p \in Pod : p # P(t) => doc'[p] = doc[p]
      BY <1>0, <3>1, DropKeeps
    <3> QED BY <1>0, <3>1, <3>2, <3>3, DurablyFinal
  <2>21. CASE CloseFails(t)
    <3>1. /\ pc[t] = "saving" /\ Goto(t, "done") /\ Unsaved(t)
          /\ final' = [final EXCEPT ![t] = None] /\ UNCHANGED <<content, cleanups, doc>>
      BY <2>21 DEF CloseFails
    <3>2. /\ snaps \subseteq snaps' /\ excused \subseteq excused'
          /\ \A e \in final[t].edits : e \in excused' \/ \E s \in snaps' : e \in s.edits
      BY <1>0, <3>1, SaveEnds
    <3> QED BY <1>0, <3>1, <3>2, DurablyFinal
  <2>22. CASE CloseKick(t)
    <3> DEFINE kicked == {u \in Task : u[2] = "leave" /\ u[1] \in room /\ Starts(u)}
    <3>1. /\ pc' = [u \in Task |-> IF u = t THEN "done"
                                  ELSE IF u \in kicked THEN "srem" ELSE pc[u]]
          /\ UNCHANGED <<snaps, final, excused, content, cleanups, doc>>
      BY <2>22 DEF CloseKick
    <3>2. pc[t] = "write" /\ t[2] = "close" /\ \A u \in kicked : pc[u] = "idle"
      BY <1>0, <2>22, KindOf DEF CloseKick, Starts
    <3> HIDE DEF kicked
    <3>3. ASSUME NEW u \in Task
          PROVE  /\ pc'[u] \in {"cleanup", "saving"} => pc'[u] = pc[u]
                 /\ pc[u] = "release" => pc'[u] = "release"
                 /\ pc'[u] = "done" => pc[u] = "done" \/ u[2] = "close"
      BY <3>1, <3>2
    <3>4. Made' \subseteq Made
      <4>1. \A k \in Edit : <<k, "update">> \in Task /\ (<<k, "update">>)[2] = "update"
        BY DEF Kind, Edit
      <4> QED BY <3>3, <4>1 DEF Made
    <3>5. ASSUME NEW p \in Pod, Calm(p) PROVE Calm(p)'
      BY <3>1, <3>3, <3>5 DEF Calm, P
    <3> QED BY <1>0, <3>1, <3>4, <3>5, DurablyKeeps
  <2> QED
    BY <1>1, <2>1, <2>2, <2>3, <2>4, <2>5, <2>6, <2>7, <2>8, <2>9, <2>10, <2>11, <2>12, <2>13, <2>14, <2>15, <2>16, <2>17, <2>18, <2>19, <2>20, <2>21, <2>22 DEF Step
<1>2. ASSUME NEW t \in Task, Request(t) PROVE Durably'
  <2>1. CASE Update(t)
    <3>1. /\ t[2] = "update" /\ t \in Object /\ pc[t] = "idle"
          /\ UNCHANGED <<snaps, final, cleanups>>
      BY <2>1, Loader DEF Update, Starts
    <3>2. CASE doc[P(t)] # None
      <4>1. doc[P(t)] \in Object
        BY <1>0, <3>2 DEF TypeOK
      <4> QED BY <1>0, <2>1, <3>1, <3>2, <4>1, DurablyApply DEF Update
    <3>3. CASE doc[P(t)] = None
      <4>1. \A p \in Pod : doc[p] # None => doc'[p] = doc[p]
        BY <1>0, <2>1, <3>3 DEF Update, TypeOK
      <4> QED BY <1>0, <2>1, <3>1, <3>3, <4>1, DurablyGoto DEF Update
    <3> QED BY <3>2, <3>3
  <2>2. CASE Leave(t)
    BY <1>0, <2>2, DurablyGoto DEF Leave, Starts
  <2>3. CASE Close(t)
    BY <1>0, <2>3, DurablyGoto DEF Close, Starts
  <2>4. ASSUME NEW v \in Setting, Change(t, v) PROVE Durably'
    BY <1>0, <2>4, DurablyGoto DEF Change, Starts
  <2> QED
    BY <1>2, <2>1, <2>2, <2>3, <2>4 DEF Request
<1>3. ASSUME NEW k \in Client, Join(k) PROVE Durably'
  <2> DEFINE t == <<k, "join">>
  <2>1. t \in Task
    BY DEF Kind
  <2>2. /\ Goto(t, "sadd") /\ pc[t] = "idle"
        /\ UNCHANGED <<snaps, final, cleanups, excused, content, doc>>
    BY <1>3 DEF Join
  <2> HIDE DEF t
  <2> QED BY <1>0, <2>1, <2>2, DurablyGoto
<1>4. ASSUME NEW p \in Pod, DestroyCleaned(p) PROVE Durably'
  <2>1. /\ cleanups[p] > 0 /\ UNCHANGED <<pc, snaps, final, content>>
        /\ excused \subseteq excused' /\ Drop(p)
        /\ cleanups' = [cleanups EXCEPT ![p] = @ - 1]
    BY <1>4 DEF DestroyCleaned
  <2>2. ASSUME NEW q \in Pod, doc[q] # None, Calm(q)
        PROVE  (doc'[q] = doc[q] /\ Calm(q)') \/ content[doc[q]] \subseteq excused'
    <3>1. CASE q = p
      <4>1. \E t \in Task : P(t) = p /\ pc[t] = "release"
        BY <2>1, <2>2, <3>1 DEF Calm
      <4> QED BY <1>4, <2>2, <3>1, <4>1 DEF DestroyCleaned
    <3>2. CASE q # p
      <4>1. doc'[q] = doc[q] /\ cleanups'[q] = cleanups[q]
        BY <1>0, <2>1, <3>2, DropKeeps DEF TypeOK
      <4> QED BY <2>1, <2>2, <4>1 DEF Calm, P
    <3> QED BY <3>1, <3>2
  <2>3. Made' \subseteq Made
    BY <2>1 DEF Made
  <2> QED BY <1>0, <2>1, <2>2, <2>3, DurablyKeeps
<1>5. ASSUME NEW p \in Pod, NEW e \in Edit, Learn(p, e) PROVE Durably'
  <2>1. UNCHANGED <<pc, snaps, final, cleanups, excused, doc>>
    BY <1>5 DEF Learn
  <2>2. \A d \in Object : content[d] \subseteq content'[d]
    BY <1>0, <1>5 DEF Learn, TypeOK
  <2>3. Made' \subseteq Made /\ \A q \in Pod : Calm(q) => Calm(q)'
    BY <2>1 DEF Made, Calm, P
  <2> QED BY <1>0, <2>1, <2>2, <2>3, DurablyKeeps
<1>6. CASE UNCHANGED vars
  <2>1. UNCHANGED <<pc, snaps, final, cleanups, excused, doc, content>>
    BY <1>6 DEF vars
  <2>2. Made' \subseteq Made /\ \A q \in Pod : Calm(q) => Calm(q)'
    BY <2>1 DEF Made, Calm, P
  <2> QED BY <1>0, <2>1, <2>2, DurablyKeeps
<1> QED
  BY <1>1, <1>2, <1>3, <1>4, <1>5, <1>6 DEF Next

(* Short of a crash, no edit is lost but in the four ways that Durable names,
   for every number of clients, pods and settings, supported or not. *)
THEOREM EditsDurable == Spec => []Durable
<1>1. Init => Inv /\ Durably
  <2>1. Init => Inv
    BY InvInit
  <2>2. Init => Skipped
    BY DEF Init, Skipped
  <2>3. Init => Made = {}
    BY KindTask DEF Init, Made, Edit, Kind
  <2> QED BY <2>1, <2>2, <2>3 DEF Durably, Safe
<1>2. Inv /\ Durably /\ [Next]_vars => Inv' /\ Durably'
  BY InvStep, DurablyStep
<1>3. Inv /\ Durably => Durable
  BY DEF Durably, Safe, Durable, InSnapshot, InFinal, InDoc
<1> QED
  BY <1>1, <1>2, <1>3, PTL DEF Spec

=============================================================================
