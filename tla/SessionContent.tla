--------------------------- MODULE SessionContent ---------------------------
(***************************************************************************)
(* What one session holds and where it is kept: the edits in the Y.Doc of  *)
(* each pod, the settings ("metadata") beside it, the MongoDB snapshots    *)
(* they are loaded from and saved to, and the settings in the session      *)
(* record (session.service.ts, db/repos/snapshot.repo.ts).                 *)
(*                                                                         *)
(* SessionMemory has the registries, the faults and the crashes; here the  *)
(* same handlers keep the awaits between which content moves.  Edits that  *)
(* come from other pods or from the hot snapshot (DocSync) may come at any *)
(* time or never.  The fields language, fontSize and intelliSense are one  *)
(* setting.  Documents and metadata objects are named by the task whose    *)
(* load made them, since handlers hold them across awaits.                 *)
(***************************************************************************)
EXTENDS Integers, FiniteSets

CONSTANTS
    Client,      \* connections, of a user each; each raises every event once
    Pod,         \* instances of the service
    PodOf,       \* the instance a client is connected to
    Owner,       \* the client who owns the session
    Requests,    \* what each client may ask for: subset of {"update", "change", "close"}
    Setting,     \* values clients send
    Supported,   \* those of them the schema of the snapshots accepts
    Default,     \* the one a new record has
    MaxRejected, \* bound: writes MongoDB rejects
    None

Kind == {"join", "update", "change", "leave", "close"}
Task == Client \X Kind

\* The document (and the metadata object) made by the load of a task.
Object == Client \X {"join", "update"}

\* A client makes one edit, its update.
Edit == Client

Snapshot == [edits : SUBSET Edit, setting : Setting]

\* What a leave or a close has taken to save, and once it has decided, the
\* setting it saves with it or "skip".
Final == [edits : SUBSET Edit, meta : Object \cup {None},
          save : Setting \cup {None, "skip"}]

\* A metadata object and a value of it.
Said == [object : Object, value : Setting]

\* The awaits of each handler.
Phase(kind) ==
    {"idle", "done"} \cup
    IF kind = "join" THEN {"sadd", "check", "cleanup", "load", "snapshot",
                           "meta", "control"}
    ELSE IF kind = "update" THEN {"snapshot", "meta", "control"}
    ELSE IF kind = "change" THEN {"put"}
    ELSE IF kind = "leave" THEN {"srem", "count", "destroy", "release", "saving"}
    ELSE {"find", "saving", "write"}

ASSUME ConstantsAssumption ==
    /\ PodOf \in [Client -> Pod]
    /\ Requests \in [Client -> SUBSET {"update", "change", "close"}]
    /\ Supported \subseteq Setting /\ Default \in Supported
    /\ MaxRejected \in Nat
    /\ None \notin Object \cup Setting \cup Final \cup Said
    /\ "skip" \notin Setting \cup {None}

VARIABLES
    pc,        \* where each task is: the await it is waiting in
    conn,      \* connected clients
    room,      \* clients in the Socket.IO room
    parts,     \* the Redis set of participants
    doc,       \* #_activeDocs entry of each pod, or None
    held,      \* #_activeSessionMetadata entry of each pod, or None
    listening, \* control listeners of each pod, one per load
    cleanups,  \* cleanups DESTROY has started on each pod and that still wait
    content,   \* the edits in each document
    setting,   \* the value of each metadata object
    record,    \* the setting in the session record
    snaps,     \* the snapshots in MongoDB: their edits and their setting
    blank,     \* loads that were told there is no snapshot to take settings from
    final,     \* what a leave or a close has taken to save, or None
    changed,   \* the metadata object a change holds and the value, or None
    told,      \* the object metadata-changed carried last to a client, and its
               \* value then, or None
    excused,   \* edits that one of the known losses may take (history)
    rejected

people == <<conn, room, parts>>
memory == <<doc, held, listening, cleanups>>
store == <<record, snaps>>
work == <<blank, final, changed>>
vars == <<pc, people, memory, content, setting, store, work, told, excused,
          rejected>>

Init ==
    /\ pc = [t \in Task |-> "idle"]
    /\ conn = {} /\ room = {} /\ parts = {}
    /\ doc = [p \in Pod |-> None] /\ held = [p \in Pod |-> None]
    /\ listening = [p \in Pod |-> 0] /\ cleanups = [p \in Pod |-> 0]
    /\ content = [d \in Object |-> {}] /\ setting = [d \in Object |-> Default]
    /\ record = Default /\ snaps = {}
    /\ blank = {} /\ final = [t \in Task |-> None]
    /\ changed = [k \in Client |-> None]
    /\ told = [k \in Client |-> None]
    /\ excused = {} /\ rejected = 0

-----------------------------------------------------------------------------
Goto(t, label) == pc' = [pc EXCEPT ![t] = label]
P(t) == PodOf[t[1]]
Listening(k) == k \in conn /\ pc[<<k, "join">>] = "done"
Starts(t) == Listening(t[1]) /\ pc[t] = "idle"
Made == {k \in Edit : pc[<<k, "update">>] = "done"}

\* Some handler is taking the pod's session out of memory.
Removing(p) ==
    \/ cleanups[p] > 0
    \/ \E t \in Task : P(t) = p /\ pc[t] \in {"cleanup", "saving"}

Drop(p) == doc' = [doc EXCEPT ![p] = None] /\ held' = [held EXCEPT ![p] = None]

\* joinSession emits the pod's settings to a client, if there are any.
Tell(k, d) ==
    told' = IF d = None THEN told
            ELSE [told EXCEPT ![k] = [object |-> d, value |-> setting[d]]]

\* updateDocument applies the edit to the document it was given.
Apply(t, d) ==
    /\ content' = [content EXCEPT ![d] = @ \cup {t[1]}]
    /\ excused' = IF parts = {} \/ Removing(P(t)) \/ doc[P(t)] # d
                  THEN excused \cup {t[1]} ELSE excused

-----------------------------------------------------------------------------
(* joinSession. *)

Join(k) ==
    /\ pc[<<k, "join">>] = "idle"
    /\ conn' = conn \cup {k} /\ room' = room \cup {k}
    /\ Goto(<<k, "join">>, "sadd")
    /\ UNCHANGED <<parts, memory, content, setting, store, work, told, excused,
                   rejected>>

JoinAdd(t) ==
    /\ pc[t] = "sadd"
    /\ parts' = parts \cup {t[1]}
    /\ Goto(t, "check")
    /\ UNCHANGED <<conn, room, memory, content, setting, store, work, told,
                   excused, rejected>>

JoinServe(t) ==
    /\ pc[t] = "check" /\ doc[P(t)] # None
    /\ Tell(t[1], held[P(t)])
    /\ Goto(t, "done")
    /\ UNCHANGED <<people, memory, content, setting, store, work, excused,
                   rejected>>

JoinRestore(t) ==
    /\ pc[t] = "check" /\ doc[P(t)] = None
    /\ Goto(t, "cleanup")
    /\ UNCHANGED <<people, memory, content, setting, store, work, told, excused,
                   rejected>>

\* restoreSession's cleanup is over: the maps are emptied, whatever they hold.
JoinCleaned(t) ==
    /\ pc[t] = "cleanup"
    /\ Drop(P(t))
    /\ Goto(t, "load")
    /\ UNCHANGED <<people, listening, cleanups, content, setting, store, work,
                   told, excused, rejected>>

-----------------------------------------------------------------------------
(* getOrLoadSessionState, for a join and for an update that finds no document. *)

\* Another join was faster ...
LoadPresent(t) ==
    /\ pc[t] = "load" /\ doc[P(t)] # None
    /\ Tell(t[1], held[P(t)])
    /\ Goto(t, "done")
    /\ UNCHANGED <<people, memory, content, setting, store, work, excused,
                   rejected>>

\* ... or a new document enters the maps.
LoadNew(t) ==
    /\ pc[t] = "load" /\ doc[P(t)] = None
    /\ doc' = [doc EXCEPT ![P(t)] = t]
    /\ Goto(t, "snapshot")
    /\ UNCHANGED <<people, held, listening, cleanups, content, setting, store,
                   work, told, excused, rejected>>

\* getLatestSnapshot is a findOne without an order: any snapshot may come.
LoadSnapshot(t) ==
    /\ pc[t] = "snapshot"
    /\ IF snaps = {} THEN UNCHANGED content
       ELSE \E s \in snaps : content' = [content EXCEPT ![t] = @ \cup s.edits]
    /\ Goto(t, "meta")
    /\ UNCHANGED <<people, memory, setting, store, work, told, excused, rejected>>

\* getLatestMetadata is another one; when it finds nothing ...
LoadBlank(t) ==
    /\ pc[t] = "meta" /\ t \notin blank /\ snaps = {}
    /\ blank' = blank \cup {t}
    /\ UNCHANGED <<pc, people, memory, content, setting, store, final, changed,
                   told, excused, rejected>>

\* ... the session record has the settings.
LoadMetadata(t) ==
    /\ pc[t] = "meta"
    /\ \/ t \in blank /\ setting' = [setting EXCEPT ![t] = record]
       \/ /\ t \notin blank
          /\ \E s \in snaps : setting' = [setting EXCEPT ![t] = s.setting]
    /\ held' = [held EXCEPT ![P(t)] = t]
    /\ Goto(t, "control")
    /\ UNCHANGED <<people, doc, listening, cleanups, content, store, work, told,
                   excused, rejected>>

\* The control channel is subscribed, the caller goes on.
LoadControl(t) ==
    /\ pc[t] = "control"
    /\ listening' = [listening EXCEPT ![P(t)] = @ + 1]
    /\ IF t[2] = "join"
       THEN Tell(t[1], held[P(t)]) /\ UNCHANGED <<content, excused>>
       ELSE Apply(t, t) /\ UNCHANGED told
    /\ Goto(t, "done")
    /\ UNCHANGED <<people, doc, held, cleanups, setting, store, work, rejected>>

-----------------------------------------------------------------------------
(* updateDocument and changeMetadata. *)

Update(t) ==
    /\ t[2] = "update" /\ "update" \in Requests[t[1]] /\ Starts(t)
    /\ IF doc[P(t)] # None
       THEN Apply(t, doc[P(t)]) /\ Goto(t, "done") /\ UNCHANGED doc
       ELSE /\ doc' = [doc EXCEPT ![P(t)] = t]
            /\ Goto(t, "snapshot")
            /\ UNCHANGED <<content, excused>>
    /\ UNCHANGED <<people, held, listening, cleanups, setting, store, work, told,
                   rejected>>

\* The pod's metadata object is changed at once, the record is written next ...
Change(t, v) ==
    /\ t[2] = "change" /\ "change" \in Requests[t[1]] /\ Starts(t)
    /\ held[P(t)] # None
    /\ setting' = [setting EXCEPT ![held[P(t)]] = v]
    /\ changed' = [changed EXCEPT ![t[1]] = [object |-> held[P(t)], value |-> v]]
    /\ Goto(t, "put")
    /\ UNCHANGED <<people, memory, content, store, blank, final, told, excused,
                   rejected>>

\* Mutant of ChangeWritten: what was asked for is announced.
ChangeAnnounced(t) ==
    /\ pc[t] = "put"
    /\ record' = changed[t[1]].value
    /\ told' = [k \in Client |-> IF k \in room THEN changed[t[1]] ELSE told[k]]
    /\ Goto(t, "done")
    /\ UNCHANGED <<people, memory, content, setting, snaps, work, excused,
                   rejected>>

\* ... and then the object, as it is by then, is announced to the room.
ChangeWritten(t) ==
    /\ pc[t] = "put"
    /\ record' = changed[t[1]].value
    /\ LET d == changed[t[1]].object
       IN told' = [k \in Client |->
                     IF k \in room THEN [object |-> d, value |-> setting[d]]
                     ELSE told[k]]
    /\ Goto(t, "done")
    /\ UNCHANGED <<people, memory, content, setting, snaps, work, excused,
                   rejected>>

\* A rejected write: the sender gets an error, the object stays changed.
ChangeRejected(t) ==
    /\ pc[t] = "put"
    /\ rejected < MaxRejected /\ rejected' = rejected + 1
    /\ Goto(t, "done")
    /\ UNCHANGED <<people, memory, content, setting, store, work, told, excused>>

-----------------------------------------------------------------------------
(* The final snapshot, taken by the last leave and by a close. *)

Take(t) ==
    final' = [final EXCEPT ![t] = [edits |-> content[doc[P(t)]],
                                   meta |-> held[P(t)], save |-> None]]

ToSave(f) == IF f.meta = None THEN Default ELSE setting[f.meta]

\* Mutant of Decide: any snapshot is reason enough to skip the save.
DecideOnce(t) ==
    /\ pc[t] = "saving" /\ final[t].save = None
    /\ final' = [final EXCEPT ![t].save = IF snaps = {} THEN ToSave(final[t])
                                          ELSE "skip"]
    /\ UNCHANGED <<pc, people, memory, content, setting, store, blank, changed,
                   told, excused, rejected>>

\* De-dupe: nothing is saved if the snapshot that is found equals what was
\* taken.  The settings are read now.
Decide(t) ==
    /\ pc[t] = "saving" /\ final[t].save = None
    /\ \/ snaps = {} /\ final' = [final EXCEPT ![t].save = ToSave(final[t])]
       \/ \E s \in snaps :
            final' = [final EXCEPT ![t].save =
                        IF s.edits = final[t].edits THEN "skip"
                        ELSE ToSave(final[t])]
    /\ UNCHANGED <<pc, people, memory, content, setting, store, blank, changed,
                   told, excused, rejected>>

\* The create of a snapshot was answered, or was not needed.
Saved(t) ==
    /\ final[t].save \in Supported \cup {"skip"}
    /\ snaps' = IF final[t].save = "skip" THEN snaps
                ELSE snaps \cup {[edits |-> final[t].edits,
                                  setting |-> final[t].save]}
    /\ UNCHANGED <<excused, rejected>>

\* Mongoose refuses a setting its schema does not have, before anything is
\* sent; MongoDB may reject any call.  What was taken is lost.
Unsaved(t) ==
    /\ final[t].save # "skip"
    /\ IF final[t].save \in Setting \ Supported THEN UNCHANGED rejected
       ELSE rejected < MaxRejected /\ rejected' = rejected + 1
    /\ excused' = excused \cup final[t].edits
    /\ UNCHANGED snaps

-----------------------------------------------------------------------------
(* leaveSession. *)

\* 'leave-session', after which the client stays connected, or 'disconnect'.
Leave(t) ==
    /\ t[2] = "leave" /\ Starts(t)
    /\ conn' \in {conn, conn \ {t[1]}}
    /\ room' = room \ {t[1]}
    /\ Goto(t, "srem")
    /\ UNCHANGED <<parts, memory, content, setting, store, work, told, excused,
                   rejected>>

LeaveRemove(t) ==
    /\ pc[t] = "srem"
    /\ parts' = parts \ {t[1]}
    /\ Goto(t, "count")
    /\ UNCHANGED <<conn, room, memory, content, setting, store, work, told,
                   excused, rejected>>

LeaveCount(t) ==
    /\ pc[t] = "count"
    /\ Goto(t, IF parts = {} THEN "destroy" ELSE "done")
    /\ UNCHANGED <<people, memory, content, setting, store, work, told, excused,
                   rejected>>

\* DESTROY reaches every listener of every pod, the leaver's own included; only
\* the leaver saves its pod's document, what other pods hold goes unsaved.
LeaveDestroy(t) ==
    /\ pc[t] = "destroy"
    /\ cleanups' = [p \in Pod |-> cleanups[p] + listening[p]]
    /\ LET others == {p \in Pod \ {P(t)} : doc[p] # None /\ listening[p] > 0}
       IN excused' = excused \cup UNION {content[doc[p]] : p \in others}
    /\ Goto(t, "release")
    /\ UNCHANGED <<people, doc, held, listening, content, setting, store, work,
                   told, rejected>>

LeaveRelease(t) ==
    /\ pc[t] = "release"
    /\ IF doc[P(t)] = None
       THEN Drop(P(t)) /\ Goto(t, "done") /\ UNCHANGED final
       ELSE Take(t) /\ Goto(t, "saving") /\ UNCHANGED <<doc, held>>
    /\ UNCHANGED <<people, listening, cleanups, content, setting, store, blank,
                   changed, told, excused, rejected>>

\* Whatever became of the save, the entries are deleted.
LeaveReleased(t) ==
    /\ t[2] = "leave" /\ pc[t] = "saving"
    /\ Saved(t) \/ Unsaved(t)
    /\ Drop(P(t))
    /\ final' = [final EXCEPT ![t] = None]
    /\ Goto(t, "done")
    /\ UNCHANGED <<people, listening, cleanups, content, setting, record, blank,
                   changed, told>>

\* A cleanup of the DESTROY callback deletes them as well; when PUBLISH has not
\* been answered by then, the leaver finds nothing left to save.
DestroyCleaned(p) ==
    /\ cleanups[p] > 0
    /\ cleanups' = [cleanups EXCEPT ![p] = @ - 1]
    /\ Drop(p)
    /\ excused' = IF doc[p] # None /\ \E t \in Task : P(t) = p /\ pc[t] = "release"
                  THEN excused \cup content[doc[p]] ELSE excused
    /\ UNCHANGED <<pc, people, listening, content, setting, store, work, told,
                   rejected>>

-----------------------------------------------------------------------------
(* closeSession, and edits from elsewhere. *)

Close(t) ==
    /\ t[2] = "close" /\ "close" \in Requests[t[1]] /\ t[1] = Owner /\ Starts(t)
    /\ Goto(t, "find")
    /\ UNCHANGED <<people, memory, content, setting, store, work, told, excused,
                   rejected>>

CloseFind(t) ==
    /\ pc[t] = "find"
    /\ IF doc[P(t)] = None THEN Goto(t, "write") /\ UNCHANGED final
       ELSE Take(t) /\ Goto(t, "saving")
    /\ UNCHANGED <<people, memory, content, setting, store, blank, changed, told,
                   excused, rejected>>

CloseSaved(t) ==
    /\ t[2] = "close" /\ pc[t] = "saving"
    /\ Saved(t)
    /\ Drop(P(t))
    /\ final' = [final EXCEPT ![t] = None]
    /\ Goto(t, "write")
    /\ UNCHANGED <<people, listening, cleanups, content, setting, record, blank,
                   changed, told>>

\* Mutant of CloseFails: what was taken is not given up.
CloseFailsKeeping(t) ==
    /\ t[2] = "close" /\ pc[t] = "saving"
    /\ Unsaved(t)
    /\ Goto(t, "done")
    /\ UNCHANGED <<people, memory, content, setting, record, work, told>>

\* A save that fails ends the close with an error: nothing is closed.
CloseFails(t) ==
    /\ t[2] = "close" /\ pc[t] = "saving"
    /\ Unsaved(t)
    /\ final' = [final EXCEPT ![t] = None]
    /\ Goto(t, "done")
    /\ UNCHANGED <<people, memory, content, setting, record, blank, changed, told>>

\* Everybody in the room is disconnected; the disconnect handlers start.
CloseKick(t) ==
    /\ pc[t] = "write"
    /\ LET kicked == {u \in Task : u[2] = "leave" /\ u[1] \in room /\ Starts(u)}
       IN pc' = [u \in Task |-> IF u = t THEN "done"
                               ELSE IF u \in kicked THEN "srem" ELSE pc[u]]
    /\ conn' = conn \ room /\ room' = {}
    /\ UNCHANGED <<parts, memory, content, setting, store, work, told, excused,
                   rejected>>

\* Another pod's message, or the hot snapshot, brings an edit.
Learn(p, e) ==
    /\ doc[p] # None /\ e \in Made
    /\ content' = [content EXCEPT ![doc[p]] = @ \cup {e}]
    /\ UNCHANGED <<pc, people, memory, setting, store, work, told, excused,
                   rejected>>

-----------------------------------------------------------------------------
Step(t) ==
    \/ JoinAdd(t) \/ JoinServe(t) \/ JoinRestore(t) \/ JoinCleaned(t)
    \/ LoadPresent(t) \/ LoadNew(t)
    \/ LoadSnapshot(t) \/ LoadBlank(t) \/ LoadMetadata(t) \/ LoadControl(t)
    \/ ChangeWritten(t) \/ ChangeRejected(t) \/ Decide(t)
    \/ LeaveRemove(t) \/ LeaveCount(t) \/ LeaveDestroy(t) \/ LeaveRelease(t)
    \/ LeaveReleased(t)
    \/ CloseFind(t) \/ CloseSaved(t) \/ CloseFails(t) \/ CloseKick(t)

Request(t) ==
    \/ Update(t) \/ Leave(t) \/ Close(t)
    \/ \E v \in Setting : Change(t, v)

Next ==
    \/ \E k \in Client : Join(k)
    \/ \E t \in Task : Step(t) \/ Request(t)
    \/ \E p \in Pod : DestroyCleaned(p) \/ \E e \in Edit : Learn(p, e)

Spec == Init /\ [][Next]_vars

-----------------------------------------------------------------------------
(* Types; what a handler holds fits the await it is in. *)
TypeOK ==
    /\ pc \in [Task -> UNION {Phase(kind) : kind \in Kind}]
    /\ \A t \in Task : pc[t] \in Phase(t[2])
    /\ conn \subseteq Client /\ room \subseteq Client /\ parts \subseteq Client
    /\ doc \in [Pod -> Object \cup {None}] /\ held \in [Pod -> Object \cup {None}]
    /\ listening \in [Pod -> Nat] /\ cleanups \in [Pod -> Nat]
    /\ content \in [Object -> SUBSET Edit] /\ setting \in [Object -> Setting]
    /\ record \in Setting /\ snaps \subseteq Snapshot
    /\ blank \subseteq Task
    /\ final \in [Task -> Final \cup {None}]
    /\ \A t \in Task : pc[t] = "saving" <=> final[t] # None
    /\ changed \in [Client -> Said \cup {None}]
    /\ told \in [Client -> Said \cup {None}]
    /\ excused \subseteq Edit /\ rejected \in Nat

(* Short of a crash, an edit is lost in four ways only, whatever handlers meet:
   it reached a document that nobody had joined or that something was taking out
   of memory, or that had been replaced; the write that was to save it was
   rejected; DESTROY found it on a pod that is not the leaver's; or the cleanup
   of the leaver's own pod was over before its PUBLISH was answered.  Every
   other edit is in a snapshot, in the document of a pod, or in what a handler
   is about to save: joins, restores, closes, overlapping leaves, cleanups and
   the de-dupe of saves lose none. *)
Durable ==
    \A e \in Made \ excused :
        \/ \E s \in snaps : e \in s.edits
        \/ \E p \in Pod : doc[p] # None /\ e \in content[doc[p]]
        \/ \E t \in Task : final[t] # None /\ e \in final[t].edits

(* changeMetadata changes the pod's object before the write it awaits and
   announces it after: when several changes overlap each other, joins and
   leaves, what a client in the room was told last is still what the object it
   was told of holds once all is answered, unless a write was rejected. *)
ToldWhatIsHeld ==
    (rejected = 0 /\ \A t \in Task : pc[t] # "put") =>
        \A k \in room : told[k] # None => told[k].value = setting[told[k].object]

=============================================================================
