------------------------ MODULE SessionContentProofs ------------------------
(* Proofs, for every set of clients, pods and settings, about SessionContent. *)
EXTENDS SessionContent, TLAPS

\* A metadata object that anybody holds or was told of was loaded, and it is
\* not loaded again; a client is told something once it has joined.
Loaded(d) == pc[d] \in {"control", "done"}
Objects ==
    /\ \A p \in Pod : held[p] # None => Loaded(held[p])
    /\ \A k \in Client : changed[k] # None => Loaded(changed[k].object)
    /\ \A k \in Client : told[k] # None =>
         Loaded(told[k].object) /\ pc[<<k, "join">>] # "idle"
    /\ \A k \in room : pc[<<k, "join">>] # "idle"

\* A change under way has its object.
Writers == \A t \in Task : pc[t] = "put" => changed[t[1]] # None

Inv == TypeOK /\ Objects /\ Writers

-----------------------------------------------------------------------------
(* Types. *)

\* A task is a client and a kind.
LEMMA TaskType ==
    \A t \in Task : /\ t[1] \in Client /\ t[2] \in Kind /\ t = <<t[1], t[2]>>
                    /\ P(t) \in Pod
  BY ConstantsAssumption DEF Task, P

\* Every kind of a client is a task of the client.
LEMMA KindTask ==
    \A k \in Client, kind \in Kind :
        <<k, kind>> \in Task /\ <<k, kind>>[1] = k /\ <<k, kind>>[2] = kind
  BY DEF Task

\* The tasks whose loads make objects.
LEMMA Loader ==
    \A t \in Task : t[2] \in {"join", "update"} <=> t \in Object
  BY DEF Task, Kind, Object

\* Objects are tasks.
LEMMA ObjectTask == Object \subseteq Task
  BY DEF Task, Kind, Object

\* Where a task is tells its kind.
LEMMA KindOf ==
    ASSUME TypeOK, NEW t \in Task
    PROVE  /\ pc[t] \in {"sadd", "check", "cleanup", "load"} => t[2] = "join"
           /\ pc[t] \in {"snapshot", "meta", "control"} => t \in Object
           /\ pc[t] = "put" => t[2] = "change"
           /\ pc[t] \in {"srem", "count", "destroy", "release"} => t[2] = "leave"
           /\ pc[t] = "saving" => t[2] \in {"leave", "close"}
           /\ pc[t] \in {"find", "write"} => t[2] = "close"
  BY TaskType, Loader DEF TypeOK, Phase, Kind

\* Moving a task to an await of its kind keeps the type of pc.
LEMMA GotoType ==
    ASSUME TypeOK, NEW t \in Task, NEW l \in Phase(t[2]), Goto(t, l)
    PROVE  /\ pc' \in [Task -> UNION {Phase(kind) : kind \in Kind}]
           /\ \A u \in Task : pc'[u] \in Phase(u[2])
           /\ pc'[t] = l /\ \A u \in Task \ {t} : pc'[u] = pc[u]
<1>1. l \in UNION {Phase(kind) : kind \in Kind}
  BY TaskType
<1> QED BY <1>1 DEF TypeOK, Goto

\* Whoever is in the room has begun to join.
LEMMA Joined ==
    ASSUME TypeOK, Objects
    PROVE  \A k \in room : pc[<<k, "join">>] # "idle" /\ <<k, "join">> \in Task
<1>1. \A k \in Client : <<k, "join">> \in Task
  BY KindTask DEF Kind
<1>2. room \subseteq Client
  BY DEF TypeOK
<1> QED BY <1>1, <1>2 DEF Objects

\* Nor does it undo a load, a join or the object of a change: a step that only
\* moves a task, and may empty the maps, keeps the objects.
LEMMA GotoKeeps ==
    ASSUME TypeOK, Objects, Writers, NEW t \in Task, NEW l \in Phase(t[2]), Goto(t, l),
           pc[t] # "done", pc[t] = "control" => l = "done", l \notin {"idle", "put"}
    PROVE  /\ \A d \in Task : Loaded(d) => Loaded(d)'
           /\ \A u \in Task : pc'[u] = "put" => pc[u] = "put"
           /\ \A u \in Task : pc[u] # "idle" => pc'[u] # "idle"
           /\ (/\ \A p \in Pod : held'[p] \in {None, held[p]}
               /\ UNCHANGED <<changed, told>> /\ room' \subseteq room)
              => Objects' /\ Writers'
<1>1. /\ \A u \in Task \ {t} : pc'[u] = pc[u]
      /\ pc'[t] = l
  BY GotoType
<1>2. \A d \in Task : Loaded(d) => Loaded(d)'
  BY <1>1 DEF Loaded
<1>3. \A u \in Task : pc[u] # "idle" => pc'[u] # "idle"
  BY <1>1
<1>4. \A u \in Task : pc'[u] = "put" => pc[u] = "put"
  BY <1>1
<1>5. ASSUME \A p \in Pod : held'[p] \in {None, held[p]},
             UNCHANGED <<changed, told>>, room' \subseteq room
      PROVE  Objects' /\ Writers'
  <2>1. Writers'
    BY <1>4, <1>5 DEF Writers
  <2>2. ASSUME NEW p \in Pod, held'[p] # None
        PROVE  pc'[held'[p]] \in {"control", "done"}
    <3>1. held'[p] = held[p] /\ held[p] \in Task /\ Loaded(held[p])
      BY <1>5, <2>2, ObjectTask DEF Objects, TypeOK
    <3> QED BY <1>2, <3>1 DEF Loaded
  <2>3. ASSUME NEW k \in Client, changed'[k] # None
        PROVE  pc'[changed'[k].object] \in {"control", "done"}
    <3>1. changed'[k] = changed[k] /\ changed[k].object \in Task /\ Loaded(changed[k].object)
      BY <1>5, <2>3, ObjectTask DEF Objects, TypeOK, Said
    <3> QED BY <1>2, <3>1 DEF Loaded
  <2>4. ASSUME NEW k \in Client, told'[k] # None
        PROVE  pc'[told'[k].object] \in {"control", "done"} /\ pc'[<<k, "join">>] # "idle"
    <3>1. /\ told'[k] = told[k] /\ told[k].object \in Task /\ Loaded(told[k].object)
          /\ pc[<<k, "join">>] # "idle"
      BY <1>5, <2>4, ObjectTask DEF Objects, TypeOK, Said
    <3>2. <<k, "join">> \in Task
      BY KindTask DEF Kind
    <3> QED BY <1>2, <1>3, <3>1, <3>2 DEF Loaded
  <2>5. \A k \in room' : pc'[<<k, "join">>] # "idle"
    BY <1>3, <1>5, Joined
  <2> QED BY <2>1, <2>2, <2>3, <2>4, <2>5 DEF Objects, Loaded
<1> QED BY <1>2, <1>3, <1>4, <1>5

\* Dropping a pod's entries at most empties the maps.
LEMMA DropKeeps ==
    ASSUME TypeOK, NEW q \in Pod, Drop(q)
    PROVE  \A p \in Pod : /\ held'[p] \in {None, held[p]}
                          /\ doc'[p] \in {None, doc[p]} /\ (p # q => doc'[p] = doc[p])
  BY DEF Drop, TypeOK

\* Whoever gets an object anew gets a loaded one.
LEMMA ObjectsKeep ==
    ASSUME TypeOK, Objects,
           \A u \in Task : /\ Loaded(u) => pc'[u] \in {"control", "done"}
                           /\ pc[u] # "idle" => pc'[u] # "idle",
           \A p \in Pod : \/ held'[p] \in {None, held[p]}
                          \/ pc'[held'[p]] \in {"control", "done"},
           \A k \in Client : \/ changed'[k] = changed[k]
                             \/ pc'[changed'[k].object] \in {"control", "done"},
           \A k \in Client : \/ told'[k] = told[k]
                             \/ /\ pc'[told'[k].object] \in {"control", "done"}
                                /\ pc'[<<k, "join">>] # "idle",
           \A k \in room' : k \in room \/ pc'[<<k, "join">>] # "idle"
    PROVE  Objects'
<1>1. \A p \in Pod : held[p] # None => pc'[held[p]] \in {"control", "done"}
  BY ObjectTask DEF Objects, TypeOK
<1>2. \A k \in Client : changed[k] # None => pc'[changed[k].object] \in {"control", "done"}
  BY ObjectTask DEF Objects, TypeOK, Said
<1>3. \A k \in Client : told[k] # None => pc'[told[k].object] \in {"control", "done"}
  BY ObjectTask DEF Objects, TypeOK, Said
<1>4. \A k \in Client : <<k, "join">> \in Task
  BY KindTask DEF Kind
<1>5. \A k \in Client : told[k] # None => pc'[<<k, "join">>] # "idle"
  BY <1>4 DEF Objects
<1>6. \A k \in room : pc'[<<k, "join">>] # "idle"
  BY <1>4 DEF Objects, TypeOK
<1> QED BY <1>1, <1>2, <1>3, <1>5, <1>6 DEF Objects, Loaded

\* A step that moves no task and at most empties the maps keeps them too.
LEMMA StayKeeps ==
    ASSUME Objects, Writers, UNCHANGED <<pc, changed, told, room>>,
           \A p \in Pod : held'[p] \in {None, held[p]}
    PROVE  Objects' /\ Writers'
  BY DEF Objects, Writers, Loaded

\* What is said is not None.
LEMMA SaidNone == None \notin Said
  BY ConstantsAssumption

\* What a join tells its client has its type ...
LEMMA TellType ==
    ASSUME TypeOK, NEW t \in Task, Tell(t[1], held[P(t)])
    PROVE  told' \in [Client -> Said \cup {None}]
<1> DEFINE said == [object |-> held[P(t)], value |-> setting[held[P(t)]]]
<1>1. CASE held[P(t)] = None
  BY <1>1 DEF Tell, TypeOK
<1>2. CASE held[P(t)] # None
  <2>1. held[P(t)] \in Object /\ setting[held[P(t)]] \in Setting
    BY <1>2, TaskType DEF TypeOK
  <2>2. said \in Said
    BY <2>1 DEF Said
  <2>3. told' = [told EXCEPT ![t[1]] = said]
    BY <1>2 DEF Tell
  <2> HIDE DEF said
  <2> QED BY <2>2, <2>3, TaskType DEF TypeOK
<1> QED BY <1>1, <1>2

\* ... and is about an object that was loaded.
LEMMA TellKeeps ==
    ASSUME TypeOK, Objects, Writers, NEW t \in Task, t[2] = "join", "done" \in Phase(t[2]),
           Goto(t, "done"), pc[t] \notin {"idle", "done"}, Tell(t[1], held[P(t)]),
           UNCHANGED <<held, changed, room>>
    PROVE  Objects' /\ Writers'
<1>1. /\ \A d \in Task : Loaded(d) => pc'[d] \in {"control", "done"}
      /\ \A u \in Task : pc'[u] = "put" => pc[u] = "put"
      /\ \A u \in Task : pc[u] # "idle" => pc'[u] # "idle"
  BY GotoType DEF Loaded
<1>2. Writers'
  BY <1>1 DEF Writers
<1>3. \A p \in Pod : held[p] # None => held[p] \in Task /\ Loaded(held[p])
  BY ObjectTask DEF Objects, TypeOK
<1>4. ASSUME NEW k \in Client, told'[k] # None
      PROVE  pc'[told'[k].object] \in {"control", "done"} /\ pc'[<<k, "join">>] # "idle"
  <2>1. <<k, "join">> \in Task
    BY KindTask DEF Kind
  <2>2. CASE told'[k] = told[k]
    <3>1. told[k].object \in Task /\ Loaded(told[k].object) /\ pc[<<k, "join">>] # "idle"
      BY <1>4, <2>2, ObjectTask DEF Objects, TypeOK, Said
    <3> QED BY <1>1, <2>1, <2>2, <3>1
  <2>3. CASE told'[k] # told[k]
    <3>1. k = t[1] /\ held[P(t)] # None /\ told'[k].object = held[P(t)]
      BY <2>3, TaskType DEF Tell, TypeOK
    <3>2. t = <<k, "join">>
      BY <3>1, TaskType
    <3> QED BY <1>1, <1>3, <2>1, <3>1, <3>2, TaskType
  <2> QED BY <2>2, <2>3
<1>5. \A k \in Client : changed[k] # None => changed[k].object \in Task /\ Loaded(changed[k].object)
  BY ObjectTask DEF Objects, TypeOK, Said
<1>6. \A k \in room : pc[<<k, "join">>] # "idle" /\ <<k, "join">> \in Task
  BY Joined
<1> QED BY <1>1, <1>2, <1>3, <1>4, <1>5, <1>6 DEF Objects, Loaded

\* What is taken to be saved, and what is decided, has its type.
LEMMA TakeType ==
    ASSUME TypeOK, NEW t \in Task, doc[P(t)] # None, Take(t)
    PROVE  /\ final' \in [Task -> Final \cup {None}]
           /\ final'[t] # None /\ \A u \in Task \ {t} : final'[u] = final[u]
           /\ final'[t].edits = content[doc[P(t)]]
<1> DEFINE f == [edits |-> content[doc[P(t)]], meta |-> held[P(t)], save |-> None]
<1>1. content[doc[P(t)]] \in SUBSET Edit /\ held[P(t)] \in Object \cup {None}
  BY TaskType DEF TypeOK
<1>2. f \in Final
  BY <1>1 DEF Final
<1>3. f # None /\ f.edits = content[doc[P(t)]]
  BY <1>2, ConstantsAssumption
<1>4. final' = [final EXCEPT ![t] = f]
  BY DEF Take
<1> HIDE DEF f
<1> QED BY <1>2, <1>3, <1>4 DEF TypeOK

\* What is saved has its type.
LEMMA SaveType ==
    ASSUME TypeOK, NEW t \in Task, pc[t] = "saving", Saved(t) \/ Unsaved(t)
    PROVE  snaps' \subseteq Snapshot /\ excused' \subseteq Edit /\ rejected' \in Nat
<1>1. final[t] \in Final /\ final[t].edits \subseteq Edit
  BY DEF TypeOK, Final
<1>2. CASE Saved(t)
  <2> DEFINE s == [edits |-> final[t].edits, setting |-> final[t].save]
  <2>1. final[t].save # "skip" => final[t].save \in Setting
    BY <1>2, ConstantsAssumption DEF Saved
  <2>2. final[t].save # "skip" => s \in Snapshot
    BY <1>1, <2>1 DEF Snapshot
  <2>3. snaps' = IF final[t].save = "skip" THEN snaps ELSE snaps \cup {s}
    BY <1>2 DEF Saved
  <2>4. UNCHANGED <<excused, rejected>>
    BY <1>2 DEF Saved
  <2> HIDE DEF s
  <2> QED BY <2>2, <2>3, <2>4 DEF TypeOK
<1>3. CASE Unsaved(t)
  BY <1>1, <1>3, ConstantsAssumption DEF Unsaved, TypeOK
<1> QED BY <1>2, <1>3

\* The initial states satisfy the invariant.
LEMMA InvInit == Init => Inv
  BY ConstantsAssumption, ObjectTask DEF Init, Inv, TypeOK, Objects, Writers, Phase, Kind

\* Every step preserves it.
LEMMA InvStep == Inv /\ [Next]_vars => Inv'
<1> USE TaskType, KindTask, ObjectTask, ConstantsAssumption
    DEF Inv, people, memory, store, work
<1> SUFFICES ASSUME Inv, [Next]_vars PROVE Inv'
  OBVIOUS
<1>1. ASSUME NEW t \in Task, Step(t) PROVE Inv'
  <2>1. CASE JoinAdd(t)
    <3>1. "check" \in Phase(t[2]) /\ Goto(t, "check") /\ pc[t] \notin {"control", "done"}
      BY <2>1, KindOf DEF JoinAdd, Phase
    <3>2. TypeOK'
      BY <2>1, <3>1, GotoType DEF JoinAdd, TypeOK
    <3>3. Objects' /\ Writers'
      BY <2>1, <3>1, GotoKeeps DEF JoinAdd, TypeOK
    <3> QED BY <3>2, <3>3
  <2>2. CASE JoinServe(t)
    <3>1. /\ "done" \in Phase(t[2]) /\ Goto(t, "done") /\ pc[t] \notin {"control", "done"}
          /\ t[2] = "join" /\ Tell(t[1], held[P(t)])
      BY <2>2, KindOf DEF JoinServe, Phase
    <3>2. told' \in [Client -> Said \cup {None}]
      BY <3>1, TellType
    <3>3. TypeOK'
      BY <2>2, <3>1, <3>2, GotoType DEF JoinServe, TypeOK
    <3>4. Objects' /\ Writers'
      BY <2>2, <3>1, TellKeeps DEF JoinServe, TypeOK
    <3> QED BY <3>3, <3>4
  <2>3. CASE JoinRestore(t)
    <3>1. "cleanup" \in Phase(t[2]) /\ Goto(t, "cleanup") /\ pc[t] \notin {"control", "done"}
      BY <2>3, KindOf DEF JoinRestore, Phase
    <3>2. TypeOK'
      BY <2>3, <3>1, GotoType DEF JoinRestore, TypeOK
    <3>3. Objects' /\ Writers'
      BY <2>3, <3>1, GotoKeeps DEF JoinRestore, TypeOK
    <3> QED BY <3>2, <3>3
  <2>4. CASE JoinCleaned(t)
    <3>1. "load" \in Phase(t[2]) /\ Goto(t, "load") /\ pc[t] \notin {"control", "done"}
      BY <2>4, KindOf DEF JoinCleaned, Phase
    <3>2. TypeOK'
      BY <2>4, <3>1, GotoType DEF JoinCleaned, Drop, TypeOK
    <3>3. Objects' /\ Writers'
      <4>1. /\ Drop(P(t)) /\ UNCHANGED <<changed, told, room>>
            /\ pc[t] \notin {"control", "done"}
        BY <2>4, <3>1 DEF JoinCleaned
      <4> QED BY <3>1, <4>1, DropKeeps, GotoKeeps
    <3> QED BY <3>2, <3>3
  <2>5. CASE LoadPresent(t)
    <3>1. /\ "done" \in Phase(t[2]) /\ Goto(t, "done") /\ pc[t] \notin {"control", "done"}
          /\ t[2] = "join" /\ Tell(t[1], held[P(t)])
      BY <2>5, KindOf DEF LoadPresent, Phase
    <3>2. told' \in [Client -> Said \cup {None}]
      BY <3>1, TellType
    <3>3. TypeOK'
      BY <2>5, <3>1, <3>2, GotoType DEF LoadPresent, TypeOK
    <3>4. Objects' /\ Writers'
      BY <2>5, <3>1, TellKeeps DEF LoadPresent, TypeOK
    <3> QED BY <3>3, <3>4
  <2>6. CASE LoadNew(t)
    <3>1. "snapshot" \in Phase(t[2]) /\ t \in Object
      BY <2>6, KindOf, Loader DEF LoadNew, Phase
    <3>2. TypeOK'
      BY <2>6, <3>1, GotoType DEF LoadNew, TypeOK
    <3>3. Objects' /\ Writers'
      BY <2>6, <3>1, GotoKeeps DEF LoadNew, TypeOK
    <3> QED BY <3>2, <3>3
  <2>7. CASE LoadSnapshot(t)
    <3>1. /\ "meta" \in Phase(t[2]) /\ Goto(t, "meta") /\ pc[t] \notin {"control", "done"}
          /\ t \in Object
      BY <2>7, KindOf, Loader DEF LoadSnapshot, Phase
    <3>2. content' \in [Object -> SUBSET Edit]
      <4>1. \A s \in snaps : s.edits \in SUBSET Edit
        BY DEF TypeOK, Snapshot
      <4>2. CASE snaps = {}
        BY <2>7, <4>2 DEF LoadSnapshot, TypeOK
      <4>3. ASSUME NEW s \in snaps, content' = [content EXCEPT ![t] = @ \cup s.edits]
            PROVE  content' \in [Object -> SUBSET Edit]
        <5> DEFINE edits == s.edits
        <5>1. edits \in SUBSET Edit /\ content' = [content EXCEPT ![t] = @ \cup edits]
          BY <4>1, <4>3
        <5> HIDE DEF edits
        <5>2. content[t] \cup edits \in SUBSET Edit
          BY <3>1, <5>1 DEF TypeOK
        <5> QED BY <5>1, <5>2 DEF TypeOK
      <4> QED BY <2>7, <4>2, <4>3 DEF LoadSnapshot
    <3>3. TypeOK'
      BY <2>7, <3>1, <3>2, GotoType DEF LoadSnapshot, TypeOK
    <3>4. Objects' /\ Writers'
      BY <2>7, <3>1, GotoKeeps DEF LoadSnapshot, TypeOK
    <3> QED BY <3>3, <3>4
  <2>8. CASE LoadBlank(t)
    <3>1. TypeOK'
      BY <2>8 DEF LoadBlank, TypeOK
    <3>2. Objects' /\ Writers'
      BY <2>8, StayKeeps DEF LoadBlank, TypeOK
    <3> QED BY <3>1, <3>2
  <2>9. CASE LoadMetadata(t)
    <3>1. "control" \in Phase(t[2]) /\ t \in Object
      BY <2>9, KindOf, Loader DEF LoadMetadata, Phase, Object
    <3>a. setting' \in [Object -> Setting]
      <4>1. PICK v \in Setting : setting' = [setting EXCEPT ![t] = v]
        <5>1. \A s \in snaps : s.setting \in Setting
          BY DEF TypeOK, Snapshot
        <5> QED BY <2>9, <5>1 DEF LoadMetadata, TypeOK
      <4> QED BY <4>1 DEF TypeOK
    <3>2. TypeOK'
      BY <2>9, <3>1, <3>a, GotoType DEF LoadMetadata, TypeOK
    <3>3. pc'[t] = "control" /\ held' = [held EXCEPT ![P(t)] = t]
      BY <2>9, <3>1, GotoType DEF LoadMetadata
    <3>4. Objects' /\ Writers'
      <4>1. Goto(t, "control") /\ pc[t] = "meta" /\ UNCHANGED <<changed, told, room>>
        BY <2>9 DEF LoadMetadata
      <4>2. \A u \in Task : /\ Loaded(u) => pc'[u] \in {"control", "done"}
                            /\ pc[u] # "idle" => pc'[u] # "idle"
                            /\ pc'[u] = "put" => pc[u] = "put"
        BY <3>1, <4>1, GotoType DEF Loaded
      <4>3. \A p \in Pod : held'[p] = held[p] \/ held'[p] = t
        BY <3>3 DEF TypeOK
      <4>4. Writers'
        BY <4>1, <4>2 DEF Writers
      <4> QED BY <3>3, <4>1, <4>2, <4>3, <4>4, ObjectsKeep
    <3> QED BY <3>2, <3>4
  <2>10. CASE LoadControl(t)
    <3>1. "done" \in Phase(t[2]) /\ Goto(t, "done") /\ t \in Object /\ pc[t] = "control"
      BY <2>10, KindOf DEF LoadControl, Phase
    <3>2. content' \in [Object -> SUBSET Edit] /\ excused' \subseteq Edit
      BY <2>10, <3>1 DEF LoadControl, Apply, TypeOK, Edit
    <3>3. CASE t[2] # "join"
      <4>1. told' = told
        BY <2>10, <3>3 DEF LoadControl
      <4>2. TypeOK'
        BY <2>10, <3>1, <3>2, <4>1, GotoType DEF LoadControl, TypeOK
      <4>3. Objects' /\ Writers'
        BY <2>10, <3>1, <4>1, GotoKeeps DEF LoadControl, TypeOK
      <4> QED BY <4>2, <4>3
    <3>4. CASE t[2] = "join"
      <4>1. Tell(t[1], held[P(t)])
        BY <2>10, <3>4 DEF LoadControl
      <4>2. told' \in [Client -> Said \cup {None}]
        BY <4>1, TellType
      <4>3. TypeOK'
        BY <2>10, <3>1, <3>2, <4>2, GotoType DEF LoadControl, TypeOK
      <4>4. Objects' /\ Writers'
        BY <2>10, <3>1, <3>4, <4>1, TellKeeps DEF LoadControl, TypeOK
      <4> QED BY <4>3, <4>4
    <3> QED BY <3>3, <3>4
  <2>11. CASE ChangeWritten(t)
    <3> DEFINE d == changed[t[1]].object
               said == [object |-> d, value |-> setting[d]]
    <3>1. "done" \in Phase(t[2]) /\ changed[t[1]] \in Said /\ Loaded(d)
      <4>1. "done" \in Phase(t[2]) /\ changed[t[1]] # None
        BY <2>11 DEF ChangeWritten, Phase, Writers
      <4> QED BY <4>1 DEF TypeOK, Objects
    <3>2. said \in Said /\ said.object = d /\ changed[t[1]].value \in Setting
      BY <3>1 DEF Said, TypeOK
    <3>3. told' = [k \in Client |-> IF k \in room THEN said ELSE told[k]]
      BY <2>11 DEF ChangeWritten
    <3>4. /\ Goto(t, "done") /\ pc[t] = "put" /\ record' = changed[t[1]].value
          /\ UNCHANGED <<conn, room, parts, doc, held, listening, cleanups, content,
                         setting, snaps, blank, final, changed, excused, rejected>>
      BY <2>11 DEF ChangeWritten
    <3> HIDE DEF d, said
    <3>5. TypeOK'
      BY <3>1, <3>2, <3>3, <3>4, GotoType DEF TypeOK
    <3>6. Objects' /\ Writers'
      <4>1. \A u \in Task : /\ Loaded(u) => pc'[u] \in {"control", "done"}
                            /\ pc[u] # "idle" => pc'[u] # "idle"
                            /\ pc'[u] = "put" => pc[u] = "put"
        BY <3>1, <3>4, GotoType DEF Loaded
      <4>2. pc'[d] \in {"control", "done"}
        BY <3>1, <3>2, <4>1 DEF Said
      <4>3. \A k \in room : pc'[<<k, "join">>] # "idle"
        <5>1. \A k \in room : <<k, "join">> \in Task /\ pc[<<k, "join">>] # "idle"
          BY Joined
        <5> QED BY <4>1, <5>1
      <4>4. \A k \in Client : \/ told'[k] = told[k]
                              \/ /\ pc'[told'[k].object] \in {"control", "done"}
                                 /\ pc'[<<k, "join">>] # "idle"
        BY <3>2, <3>3, <4>2, <4>3
      <4>5. Writers'
        BY <3>4, <4>1 DEF Writers
      <4> QED BY <3>4, <4>1, <4>4, <4>5, ObjectsKeep
    <3> QED BY <3>5, <3>6
  <2>12. CASE ChangeRejected(t)
    <3>1. "done" \in Phase(t[2]) /\ Goto(t, "done") /\ pc[t] \notin {"control", "done"}
      BY <2>12, KindOf DEF ChangeRejected, Phase
    <3>2. TypeOK'
      BY <2>12, <3>1, GotoType DEF ChangeRejected, TypeOK
    <3>3. Objects' /\ Writers'
      BY <2>12, <3>1, GotoKeeps DEF ChangeRejected, TypeOK
    <3> QED BY <3>2, <3>3
  <2>13. CASE Decide(t)
    <3> DEFINE f == final[t]
    <3>1. f \in Final /\ f # None /\ ToSave(f) \in Setting
      BY <2>13, ConstantsAssumption DEF Decide, ToSave, TypeOK, Final
    <3>2. PICK w \in Setting \cup {"skip"} : final' = [final EXCEPT ![t].save = w]
      BY <2>13, <3>1 DEF Decide
    <3> DEFINE g == [f EXCEPT !.save = w]
    <3>3. g \in Final
      BY <3>1 DEF Final
    <3>4. final' = [final EXCEPT ![t] = g]
      BY <3>2
    <3>5. pc[t] = "saving" /\ UNCHANGED <<pc, conn, room, parts, doc, held, listening,
            cleanups, content, setting, record, snaps, blank, changed, told, excused,
            rejected>>
      BY <2>13 DEF Decide
    <3> HIDE DEF f, g
    <3>6. TypeOK'
      BY <3>3, <3>4, <3>5 DEF TypeOK
    <3>7. Objects' /\ Writers'
      BY <3>5, StayKeeps
    <3> QED BY <3>6, <3>7
  <2>14. CASE LeaveRemove(t)
    <3>1. "count" \in Phase(t[2]) /\ Goto(t, "count") /\ pc[t] \notin {"control", "done"}
      BY <2>14, KindOf DEF LeaveRemove, Phase
    <3>2. TypeOK'
      BY <2>14, <3>1, GotoType DEF LeaveRemove, TypeOK
    <3>3. Objects' /\ Writers'
      BY <2>14, <3>1, GotoKeeps DEF LeaveRemove, TypeOK
    <3> QED BY <3>2, <3>3
  <2>15. CASE LeaveCount(t)
    <3>1. PICK l \in {"destroy", "done"} : Goto(t, l)
      BY <2>15 DEF LeaveCount
    <3>2. l \in Phase(t[2]) /\ pc[t] \notin {"control", "done"}
      BY <2>15, <3>1, KindOf DEF LeaveCount, Phase
    <3>3. TypeOK'
      BY <2>15, <3>1, <3>2, GotoType DEF LeaveCount, TypeOK
    <3>4. Objects' /\ Writers'
      BY <2>15, <3>1, <3>2, GotoKeeps DEF LeaveCount, TypeOK
    <3> QED BY <3>3, <3>4
  <2>16. CASE LeaveDestroy(t)
    <3>1. "release" \in Phase(t[2]) /\ Goto(t, "release") /\ pc[t] \notin {"control", "done"}
      BY <2>16, KindOf DEF LeaveDestroy, Phase
    <3>2. TypeOK'
      BY <2>16, <3>1, GotoType DEF LeaveDestroy, TypeOK
    <3>3. Objects' /\ Writers'
      BY <2>16, <3>1, GotoKeeps DEF LeaveDestroy, TypeOK
    <3> QED BY <3>2, <3>3
  <2>17. CASE LeaveRelease(t)
    <3>1. t[2] = "leave"
      BY <2>17, KindOf DEF LeaveRelease
    <3>2. CASE doc[P(t)] = None
      <4>1. "done" \in Phase(t[2]) /\ Goto(t, "done") /\ Drop(P(t)) /\ final' = final
        BY <2>17, <3>2 DEF LeaveRelease, Phase
      <4>2. TypeOK'
        BY <2>17, <4>1, GotoType DEF LeaveRelease, Drop, TypeOK
      <4>3. \A p \in Pod : held'[p] \in {None, held[p]}
        BY <4>1 DEF Drop, TypeOK
      <4>4. /\ UNCHANGED <<changed, told>> /\ room' = room
            /\ pc[t] # "done" /\ pc[t] # "control"
        BY <2>17 DEF LeaveRelease
      <4>5. Objects' /\ Writers'
        BY <4>1, <4>3, <4>4, GotoKeeps
      <4> QED BY <4>2, <4>5
    <3>3. CASE doc[P(t)] # None
      <4>1. "saving" \in Phase(t[2]) /\ Goto(t, "saving") /\ Take(t) /\ UNCHANGED <<doc, held>>
        BY <2>17, <3>1, <3>3 DEF LeaveRelease, Phase
      <4>2. TypeOK'
        BY <2>17, <3>3, <4>1, GotoType, TakeType DEF LeaveRelease, TypeOK
      <4>3. Objects' /\ Writers'
        BY <2>17, <4>1, GotoKeeps DEF LeaveRelease, TypeOK
      <4> QED BY <4>2, <4>3
    <3> QED BY <3>2, <3>3
  <2>18. CASE LeaveReleased(t)
    <3>1. "done" \in Phase(t[2]) /\ Goto(t, "done") /\ pc[t] = "saving"
      BY <2>18 DEF LeaveReleased, Phase
    <3>3. snaps' \subseteq Snapshot /\ excused' \subseteq Edit /\ rejected' \in Nat
      BY <2>18, <3>1, SaveType DEF LeaveReleased
    <3>4. TypeOK'
      BY <2>18, <3>1, <3>3, GotoType DEF LeaveReleased, Drop, TypeOK
    <3>5. Objects' /\ Writers'
      <4>1. /\ Drop(P(t)) /\ UNCHANGED <<changed, told, room>>
            /\ pc[t] \notin {"control", "done"}
        BY <2>18, <3>1 DEF LeaveReleased
      <4> QED BY <3>1, <4>1, DropKeeps, GotoKeeps
    <3> QED BY <3>4, <3>5
  <2>19. CASE CloseFind(t)
    <3>1. t[2] = "close"
      BY <2>19, KindOf DEF CloseFind
    <3>2. CASE doc[P(t)] = None
      <4>1. "write" \in Phase(t[2]) /\ Goto(t, "write") /\ final' = final
        BY <2>19, <3>1, <3>2 DEF CloseFind, Phase
      <4>2. TypeOK'
        BY <2>19, <4>1, GotoType DEF CloseFind, TypeOK
      <4>3. Objects' /\ Writers'
        BY <2>19, <4>1, GotoKeeps DEF CloseFind, TypeOK
      <4> QED BY <4>2, <4>3
    <3>3. CASE doc[P(t)] # None
      <4>1. "saving" \in Phase(t[2]) /\ Goto(t, "saving") /\ Take(t)
        BY <2>19, <3>1, <3>3 DEF CloseFind, Phase
      <4>2. TypeOK'
        <5>1. UNCHANGED <<conn, room, parts, doc, held, listening, cleanups, content,
                          setting, record, snaps, blank, changed, told, excused, rejected>>
              /\ pc[t] = "find"
          BY <2>19 DEF CloseFind
        <5>2. final' \in [Task -> Final \cup {None}] /\ final'[t] # None
              /\ \A u \in Task \ {t} : final'[u] = final[u]
          BY <3>3, <4>1, TakeType
        <5> QED BY <4>1, <5>1, <5>2, GotoType DEF TypeOK
      <4>3. Objects' /\ Writers'
        BY <2>19, <4>1, GotoKeeps DEF CloseFind, TypeOK
      <4> QED BY <4>2, <4>3
    <3> QED BY <3>2, <3>3
  <2>20. CASE CloseSaved(t)
    <3>1. "write" \in Phase(t[2]) /\ Goto(t, "write") /\ pc[t] = "saving"
      BY <2>20 DEF CloseSaved, Phase
    <3>3. snaps' \subseteq Snapshot /\ excused' \subseteq Edit /\ rejected' \in Nat
      BY <2>20, <3>1, SaveType DEF CloseSaved
    <3>4. TypeOK'
      BY <2>20, <3>1, <3>3, GotoType DEF CloseSaved, Drop, TypeOK
    <3>5. Objects' /\ Writers'
      <4>1. /\ Drop(P(t)) /\ UNCHANGED <<changed, told, room>>
            /\ pc[t] \notin {"control", "done"}
        BY <2>20, <3>1 DEF CloseSaved
      <4> QED BY <3>1, <4>1, DropKeeps, GotoKeeps
    <3> QED BY <3>4, <3>5
  <2>21. CASE CloseFails(t)
    <3>1. "done" \in Phase(t[2]) /\ Goto(t, "done") /\ pc[t] = "saving"
      BY <2>21 DEF CloseFails, Phase
    <3>3. snaps' \subseteq Snapshot /\ excused' \subseteq Edit /\ rejected' \in Nat
      BY <2>21, <3>1, SaveType DEF CloseFails
    <3>4. TypeOK'
      BY <2>21, <3>1, <3>3, GotoType DEF CloseFails, TypeOK
    <3>5. Objects' /\ Writers'
      BY <2>21, <3>1, GotoKeeps DEF CloseFails, TypeOK
    <3> QED BY <3>4, <3>5
  <2>22. CASE CloseKick(t)
    <3>1. t[2] = "close" /\ pc[t] = "write"
      BY <2>22, KindOf DEF CloseKick
    <3>2. \A u \in Task : \/ pc'[u] = pc[u]
                         \/ (pc'[u] = "done" /\ pc[u] = "write" /\ u[2] = "close")
                         \/ (pc'[u] = "srem" /\ pc[u] = "idle" /\ u[2] = "leave")
      <4> DEFINE kicked == {u \in Task : u[2] = "leave" /\ u[1] \in room /\ Starts(u)}
      <4>1. pc' = [u \in Task |-> IF u = t THEN "done"
                                 ELSE IF u \in kicked THEN "srem" ELSE pc[u]]
        BY <2>22 DEF CloseKick
      <4>2. \A u \in kicked : pc[u] = "idle" /\ u[2] = "leave"
        BY DEF Starts
      <4> HIDE DEF kicked
      <4>3. ASSUME NEW u \in Task
            PROVE  \/ pc'[u] = pc[u]
                   \/ (pc'[u] = "done" /\ u = t)
                   \/ (pc'[u] = "srem" /\ u \in kicked)
        BY <4>1
      <4> QED BY <3>1, <4>2, <4>3
    <3>3. \A u \in Task : pc'[u] \in Phase(u[2])
      BY <3>2 DEF Phase, TypeOK
    <3>4. pc' \in [Task -> UNION {Phase(kind) : kind \in Kind}]
      BY <2>22, <3>3 DEF CloseKick
    <3>5. \A u \in Task : pc'[u] = "saving" <=> pc[u] = "saving"
      BY <3>2
    <3>6. TypeOK'
      BY <2>22, <3>3, <3>4, <3>5 DEF CloseKick, TypeOK
    <3>7. Objects' /\ Writers'
      <4>1. room' = {} /\ UNCHANGED <<held, changed, told>>
        BY <2>22 DEF CloseKick
      <4>2. Writers'
        BY <3>2, <4>1 DEF Writers
      <4>3. \A u \in Task : /\ Loaded(u) => pc'[u] \in {"control", "done"}
                            /\ pc[u] # "idle" => pc'[u] # "idle"
        BY <3>2 DEF Loaded
      <4> QED BY <4>1, <4>2, <4>3, ObjectsKeep
    <3> QED BY <3>6, <3>7
  <2> QED
    BY <1>1, <2>1, <2>2, <2>3, <2>4, <2>5, <2>6, <2>7, <2>8, <2>9, <2>10, <2>11, <2>12, <2>13, <2>14, <2>15, <2>16, <2>17, <2>18, <2>19, <2>20, <2>21, <2>22 DEF Step
<1>2. ASSUME NEW t \in Task, Request(t) PROVE Inv'
  <2>1. CASE Update(t)
    <3>1. t \in Object /\ "done" \in Phase(t[2]) /\ "snapshot" \in Phase(t[2])
      BY <2>1, Loader DEF Update, Phase
    <3>2. CASE doc[P(t)] # None
      <4>1. Apply(t, doc[P(t)]) /\ Goto(t, "done") /\ doc' = doc /\ pc[t] = "idle"
        BY <2>1, <3>2 DEF Update, Starts
      <4>2. TypeOK'
        BY <2>1, <3>1, <3>2, <4>1, GotoType DEF Update, Apply, TypeOK, Edit
      <4>3. Objects' /\ Writers'
        BY <2>1, <3>1, <4>1, GotoKeeps DEF Update, TypeOK
      <4> QED BY <4>2, <4>3
    <3>3. CASE doc[P(t)] = None
      <4>1. /\ Goto(t, "snapshot") /\ doc' = [doc EXCEPT ![P(t)] = t] /\ pc[t] = "idle"
            /\ UNCHANGED <<content, excused>>
        BY <2>1, <3>3 DEF Update, Starts
      <4>2. TypeOK'
        BY <2>1, <3>1, <4>1, GotoType DEF Update, TypeOK
      <4>3. Objects' /\ Writers'
        BY <2>1, <3>1, <4>1, GotoKeeps DEF Update, TypeOK
      <4> QED BY <4>2, <4>3
    <3> QED BY <3>2, <3>3
  <2>2. CASE Leave(t)
    <3>1. "srem" \in Phase(t[2]) /\ Goto(t, "srem") /\ pc[t] \notin {"control", "done"}
      BY <2>2, KindOf DEF Leave, Phase, Starts
    <3>2. TypeOK'
      <4>1. conn' \subseteq Client /\ room' \subseteq Client
        BY <2>2 DEF Leave, TypeOK
      <4>2. UNCHANGED <<parts, memory, content, setting, store, work, told, excused, rejected>>
            /\ pc[t] = "idle"
        BY <2>2 DEF Leave, Starts
      <4>3. \A u \in Task : pc'[u] = "saving" <=> pc[u] = "saving"
        BY <3>1, <4>2, GotoType
      <4> QED BY <3>1, <4>1, <4>2, <4>3, GotoType DEF TypeOK
    <3>3. Objects' /\ Writers'
      BY <2>2, <3>1, GotoKeeps DEF Leave, TypeOK
    <3> QED BY <3>2, <3>3
  <2>3. CASE Close(t)
    <3>1. "find" \in Phase(t[2]) /\ Goto(t, "find") /\ pc[t] = "idle"
      BY <2>3 DEF Close, Phase, Starts
    <3>2. TypeOK'
      BY <2>3, <3>1, GotoType DEF Close, TypeOK
    <3>3. Objects' /\ Writers'
      BY <2>3, <3>1, GotoKeeps DEF Close, TypeOK
    <3> QED BY <3>2, <3>3
  <2>4. ASSUME NEW v \in Setting, Change(t, v) PROVE Inv'
    <3> DEFINE d == held[P(t)]
               said == [object |-> d, value |-> v]
    <3>1. "put" \in Phase(t[2]) /\ Goto(t, "put") /\ pc[t] = "idle"
      BY <2>4 DEF Change, Phase, Starts
    <3>2. d \in Object /\ Loaded(d) /\ said \in Said /\ said # None /\ said.object = d
      <4>1. d \in Object /\ Loaded(d)
        BY <2>4 DEF Change, TypeOK, Objects
      <4> HIDE DEF d
      <4>2. said \in Said /\ said.object = d
        BY <4>1 DEF Said
      <4> HIDE DEF said
      <4> QED BY <4>1, <4>2, SaidNone
    <3>3. /\ changed' = [changed EXCEPT ![t[1]] = said]
          /\ setting' = [setting EXCEPT ![d] = v]
          /\ UNCHANGED <<conn, room, parts, doc, held, listening, cleanups, content,
                         record, snaps, blank, final, told, excused, rejected>>
      BY <2>4 DEF Change
    <3> HIDE DEF d, said
    <3>4. TypeOK'
      BY <3>1, <3>2, <3>3, GotoType DEF TypeOK
    <3>5. Objects' /\ Writers'
      <4>1. \A u \in Task : /\ Loaded(u) => pc'[u] \in {"control", "done"}
                            /\ pc[u] # "idle" => pc'[u] # "idle"
                            /\ pc'[u] = "put" => pc[u] = "put" \/ u = t
        BY <3>1, GotoType DEF Loaded
      <4>2. \A k \in Client : \/ changed'[k] = changed[k]
                              \/ changed'[k].object = d
        BY <3>2, <3>3 DEF TypeOK
      <4>3. pc'[d] \in {"control", "done"}
        BY <3>2, <4>1
      <4>4. Objects'
        BY <3>3, <4>1, <4>2, <4>3, ObjectsKeep
      <4>5. Writers'
        BY <3>2, <3>3, <4>1 DEF Writers, TypeOK
      <4> QED BY <4>4, <4>5
    <3> QED BY <3>4, <3>5
  <2> QED
    BY <1>2, <2>1, <2>2, <2>3, <2>4 DEF Request
<1>3. ASSUME NEW k \in Client, Join(k) PROVE Inv'
  <2> DEFINE t == <<k, "join">>
  <2>1. t \in Task /\ t[2] = "join" /\ "sadd" \in Phase(t[2]) /\ Goto(t, "sadd") /\ pc[t] = "idle"
    BY <1>3 DEF Join, Phase, Kind
  <2> HIDE DEF t
  <2>2. TypeOK'
    BY <1>3, <2>1, GotoType DEF Join, TypeOK
  <2>3. Objects' /\ Writers'
    <3>1. t = <<k, "join">>
      BY DEF t
    <3>2. \A u \in Task : /\ Loaded(u) => pc'[u] \in {"control", "done"}
                          /\ pc[u] # "idle" => pc'[u] # "idle"
                          /\ pc'[u] = "put" => pc[u] = "put"
      BY <2>1, GotoType DEF Loaded
    <3>3. room' = room \cup {k} /\ UNCHANGED <<held, changed, told>>
      BY <1>3 DEF Join
    <3>4. pc'[<<k, "join">>] # "idle"
      BY <2>1, <3>1, GotoType
    <3>5. Writers'
      BY <3>2, <3>3 DEF Writers
    <3> QED BY <3>2, <3>3, <3>4, <3>5, ObjectsKeep
  <2> QED BY <2>2, <2>3
<1>4. ASSUME NEW p \in Pod, DestroyCleaned(p) PROVE Inv'
  <2>1. TypeOK'
    BY <1>4 DEF DestroyCleaned, Drop, TypeOK
  <2>2. Objects' /\ Writers'
    BY <1>4, StayKeeps DEF DestroyCleaned, Drop, TypeOK
  <2> QED BY <2>1, <2>2
<1>5. ASSUME NEW p \in Pod, NEW e \in Edit, Learn(p, e) PROVE Inv'
  <2>1. TypeOK'
    BY <1>5 DEF Learn, TypeOK, Edit
  <2>2. Objects' /\ Writers'
    BY <1>5, StayKeeps DEF Learn
  <2> QED BY <2>1, <2>2
<1>6. CASE UNCHANGED vars
  <2>1. TypeOK'
    BY <1>6 DEF vars, TypeOK
  <2>2. Objects' /\ Writers'
    BY <1>6, StayKeeps DEF vars
  <2> QED BY <2>1, <2>2
<1> QED
  BY <1>1, <1>2, <1>3, <1>4, <1>5, <1>6 DEF Next

(* What handlers hold fits where they are, whatever the constants. *)
THEOREM TypeCorrect == Spec => []TypeOK
<1>1. Init => Inv
  BY InvInit
<1>2. Inv /\ [Next]_vars => Inv'
  BY InvStep
<1>3. Inv => TypeOK
  BY DEF Inv
<1> QED
  BY <1>1, <1>2, <1>3, PTL DEF Spec

-----------------------------------------------------------------------------
(* What a client was told. *)

\* What a client in the room was told last is what the object holds, or a
\* change of the object is still to be announced, or a write was rejected.
Announced(k) ==
    \/ told[k].value = setting[told[k].object]
    \/ \E t \in Task : pc[t] = "put" /\ changed[t[1]].object = told[k].object

Answered == rejected > 0 \/ \A k \in room : told[k] # None => Announced(k)

\* Most steps touch none of it.
LEMMA AnsweredKeeps ==
    ASSUME Answered, UNCHANGED <<setting, told, changed>>, room' \subseteq room,
           rejected > 0 => rejected' > 0,
           \A u \in Task : pc[u] = "put" => pc'[u] = "put"
    PROVE  Answered'
  BY DEF Answered, Announced

\* Telling a client tells the truth.
LEMMA AnsweredTell ==
    ASSUME Inv, Answered, NEW t \in Task, Tell(t[1], held[P(t)]),
           UNCHANGED <<setting, changed, room, rejected>>,
           \A u \in Task : pc[u] = "put" => pc'[u] = "put"
    PROVE  Answered'
<1>1. \A k \in Client : \/ told'[k] = told[k]
                        \/ told'[k].value = setting[told'[k].object]
  BY DEF Tell, Inv, TypeOK
<1>2. room \subseteq Client
  BY DEF Inv, TypeOK
<1> QED BY <1>1, <1>2 DEF Answered, Announced

\* Every step keeps it.
LEMMA AnsweredStep == Inv /\ Answered /\ [Next]_vars => Answered'
<1> USE TaskType, KindTask, ObjectTask DEF people, memory, store, work
<1> SUFFICES ASSUME Inv, Answered, [Next]_vars PROVE Answered'
  OBVIOUS
<1>0. TypeOK /\ Objects /\ Writers /\ rejected \in Nat
  BY DEF Inv, TypeOK
<1>1. ASSUME NEW t \in Task, Step(t) PROVE Answered'
  <2>0. ASSUME NEW l, Goto(t, l), pc[t] # "put"
        PROVE  \A u \in Task : pc[u] = "put" => pc'[u] = "put"
    BY <1>0, <2>0 DEF Goto, TypeOK
  <2>1. CASE JoinAdd(t)
    BY <1>0, <2>0, <2>1, AnsweredKeeps DEF JoinAdd
  <2>2. CASE JoinServe(t)
    BY <2>0, <2>2, AnsweredTell DEF JoinServe
  <2>3. CASE JoinRestore(t)
    BY <1>0, <2>0, <2>3, AnsweredKeeps DEF JoinRestore
  <2>4. CASE JoinCleaned(t)
    BY <1>0, <2>0, <2>4, AnsweredKeeps DEF JoinCleaned, Drop
  <2>5. CASE LoadPresent(t)
    BY <2>0, <2>5, AnsweredTell DEF LoadPresent
  <2>6. CASE LoadNew(t)
    BY <1>0, <2>0, <2>6, AnsweredKeeps DEF LoadNew
  <2>7. CASE LoadSnapshot(t)
    BY <1>0, <2>0, <2>7, AnsweredKeeps DEF LoadSnapshot
  <2>8. CASE LoadBlank(t)
    BY <2>8, AnsweredKeeps DEF LoadBlank
  <2>9. CASE LoadMetadata(t)
    <3>1. /\ \A d \in Object \ {t} : setting'[d] = setting[d]
          /\ pc[t] = "meta" /\ Goto(t, "control")
          /\ UNCHANGED <<told, changed, room, rejected>>
      BY <1>0, <2>9 DEF LoadMetadata, TypeOK
    <3>2. \A u \in Task : pc[u] = "put" => pc'[u] = "put"
      BY <2>0, <3>1
    <3>3. \A k \in room : told[k] # None => told[k].object \in Object \ {t}
      BY <1>0, <3>1 DEF Objects, Loaded, TypeOK, Said
    <3> QED BY <3>1, <3>2, <3>3 DEF Answered, Announced
  <2>10. CASE LoadControl(t)
    <3>1. pc[t] = "control" /\ Goto(t, "done") /\ UNCHANGED <<setting, changed, room, rejected>>
      BY <2>10 DEF LoadControl
    <3>2. CASE t[2] = "join"
      BY <2>0, <2>10, <3>1, <3>2, AnsweredTell DEF LoadControl
    <3>3. CASE t[2] # "join"
      BY <2>0, <2>10, <3>1, <3>3, AnsweredKeeps DEF LoadControl
    <3> QED BY <3>2, <3>3
  <2>11. CASE ChangeWritten(t)
    <3>1. \A k \in room' : told'[k].value = setting'[told'[k].object]
      BY <1>0, <2>11 DEF ChangeWritten, TypeOK
    <3> QED BY <3>1 DEF Answered, Announced
  <2>12. CASE ChangeRejected(t)
    BY <1>0, <2>12 DEF ChangeRejected, Answered
  <2>13. CASE Decide(t)
    BY <2>13, AnsweredKeeps DEF Decide
  <2>14. CASE LeaveRemove(t)
    BY <1>0, <2>0, <2>14, AnsweredKeeps DEF LeaveRemove
  <2>15. CASE LeaveCount(t)
    <3>1. Goto(t, IF parts = {} THEN "destroy" ELSE "done") /\ pc[t] = "count"
      BY <2>15 DEF LeaveCount
    <3> QED BY <2>0, <2>15, <3>1, AnsweredKeeps DEF LeaveCount
  <2>16. CASE LeaveDestroy(t)
    BY <1>0, <2>0, <2>16, AnsweredKeeps DEF LeaveDestroy
  <2>17. CASE LeaveRelease(t)
    <3>1. \E l \in {"done", "saving", "write"} : Goto(t, l)
      BY <2>17 DEF LeaveRelease
    <3> QED BY <2>0, <2>17, <3>1, AnsweredKeeps DEF LeaveRelease
  <2>18. CASE LeaveReleased(t)
    BY <1>0, <2>0, <2>18, AnsweredKeeps DEF LeaveReleased, Drop, Saved, Unsaved
  <2>19. CASE CloseFind(t)
    <3>1. \E l \in {"done", "saving", "write"} : Goto(t, l)
      BY <2>19 DEF CloseFind
    <3> QED BY <2>0, <2>19, <3>1, AnsweredKeeps DEF CloseFind
  <2>20. CASE CloseSaved(t)
    BY <1>0, <2>0, <2>20, AnsweredKeeps DEF CloseSaved, Drop, Saved
  <2>21. CASE CloseFails(t)
    BY <1>0, <2>0, <2>21, AnsweredKeeps DEF CloseFails, Unsaved
  <2>22. CASE CloseKick(t)
    <3> DEFINE kicked == {u \in Task : u[2] = "leave" /\ u[1] \in room /\ Starts(u)}
    <3>1. pc' = [u \in Task |-> IF u = t THEN "done"
                               ELSE IF u \in kicked THEN "srem" ELSE pc[u]]
      BY <2>22 DEF CloseKick
    <3>2. pc[t] = "write" /\ \A u \in kicked : pc[u] = "idle"
      BY <2>22 DEF CloseKick, Starts
    <3> HIDE DEF kicked
    <3>3. \A u \in Task : pc[u] = "put" => pc'[u] = "put"
      BY <3>1, <3>2
    <3> QED BY <2>22, <3>3, AnsweredKeeps DEF CloseKick
  <2> QED
    BY <1>1, <2>1, <2>2, <2>3, <2>4, <2>5, <2>6, <2>7, <2>8, <2>9, <2>10, <2>11, <2>12, <2>13, <2>14, <2>15, <2>16, <2>17, <2>18, <2>19, <2>20, <2>21, <2>22 DEF Step
<1>2. ASSUME NEW t \in Task, Request(t) PROVE Answered'
  <2>1. CASE Update(t) \/ Leave(t) \/ Close(t)
    <3>1. pc[t] = "idle" /\ \E l \in {"done", "snapshot", "srem", "find"} : Goto(t, l)
      BY <2>1 DEF Update, Leave, Close, Starts
    <3>2. \A u \in Task : pc[u] = "put" => pc'[u] = "put"
      BY <1>0, <3>1 DEF Goto, TypeOK
    <3>3. UNCHANGED <<setting, told, changed, rejected>> /\ room' \subseteq room
      BY <2>1 DEF Update, Leave, Close
    <3> QED BY <3>2, <3>3, AnsweredKeeps
  <2>2. ASSUME NEW v \in Setting, Change(t, v) PROVE Answered'
    <3> DEFINE d == held[P(t)]
               said == [object |-> d, value |-> v]
    <3>1. /\ changed' = [changed EXCEPT ![t[1]] = said] /\ setting' = [setting EXCEPT ![d] = v]
          /\ pc' = [pc EXCEPT ![t] = "put"] /\ pc[t] = "idle" /\ t[2] = "change"
          /\ UNCHANGED <<told, room, rejected>>
      BY <2>2 DEF Change, Starts, Goto
    <3>2. said.object = d
      OBVIOUS
    <3> HIDE DEF d, said
    <3>3. pc'[t] = "put" /\ changed'[t[1]].object = d
      BY <1>0, <3>1, <3>2 DEF TypeOK
    <3>4. ASSUME NEW u \in Task, pc[u] = "put"
          PROVE  pc'[u] = "put" /\ changed'[u[1]] = changed[u[1]]
      <4>1. u[2] = "change" /\ u # t
        BY <1>0, <3>1, <3>4, KindOf
      <4>2. u[1] # t[1]
        BY <3>1, <4>1
      <4> QED BY <1>0, <3>1, <3>4, <4>1, <4>2 DEF TypeOK
    <3>5. ASSUME NEW k \in room, told[k] # None, Announced(k) PROVE Announced(k)'
      <4>1. told[k].object \in Object
        BY <1>0, <3>5 DEF TypeOK, Said
      <4>2. CASE told[k].object = d
        BY <3>1, <3>3, <4>2 DEF Announced
      <4>3. CASE told[k].object # d /\ told[k].value = setting[told[k].object]
        BY <1>0, <3>1, <4>1, <4>3 DEF Announced, TypeOK
      <4>4. CASE \E u \in Task : pc[u] = "put" /\ changed[u[1]].object = told[k].object
        BY <3>1, <3>4, <4>4 DEF Announced
      <4> QED BY <3>5, <4>2, <4>3, <4>4 DEF Announced
    <3> QED BY <3>1, <3>5 DEF Answered
  <2> QED
    BY <1>2, <2>1, <2>2 DEF Request
<1>3. ASSUME NEW k \in Client, Join(k) PROVE Answered'
  <2>1. /\ pc' = [pc EXCEPT ![<<k, "join">>] = "sadd"] /\ pc[<<k, "join">>] = "idle"
        /\ room' = room \cup {k} /\ UNCHANGED <<setting, told, changed, rejected>>
    BY <1>3 DEF Join, Goto
  <2>2. told[k] = None
    BY <1>0, <2>1 DEF Objects
  <2>3. \A u \in Task : pc[u] = "put" => pc'[u] = "put"
    BY <1>0, <2>1 DEF TypeOK
  <2> QED BY <2>1, <2>2, <2>3 DEF Answered, Announced
<1>4. ASSUME NEW p \in Pod, DestroyCleaned(p) PROVE Answered'
  BY <1>4, AnsweredKeeps DEF DestroyCleaned
<1>5. ASSUME NEW p \in Pod, NEW e \in Edit, Learn(p, e) PROVE Answered'
  BY <1>5, AnsweredKeeps DEF Learn
<1>6. CASE UNCHANGED vars
  BY <1>6, AnsweredKeeps DEF vars
<1> QED
  BY <1>1, <1>2, <1>3, <1>4, <1>5, <1>6 DEF Next

(* Unless a write was rejected, once every change is answered whoever is in the
   room was told last what the metadata object it was told of holds, whatever
   changes, joins and leaves overlapped. *)
THEOREM ToldTheTruth == Spec => []ToldWhatIsHeld
<1>1. Init => Inv /\ Answered
  BY InvInit DEF Init, Answered
<1>2. Inv /\ Answered /\ [Next]_vars => Inv' /\ Answered'
  BY InvStep, AnsweredStep
<1>3. Inv /\ Answered => ToldWhatIsHeld
  BY DEF Inv, TypeOK, Answered, Announced, ToldWhatIsHeld
<1> QED
  BY <1>1, <1>2, <1>3, PTL DEF Spec

=============================================================================
