-------------------------- MODULE KafkaRetryProofs --------------------------
(* Proofs, for every set of messages, groups and pods and every bound, about *)
(* KafkaRetry.                                                               *)
EXTENDS KafkaRetry, FiniteSetTheorems, TLAPS

\* A handler at work has a message, and one about to add it may retry it.
Working == \A t \in Task :
    /\ pc[t] # "idle" => at[t] < Len(log)
    /\ pc[t] = "zadd" => Current(t).count < MaxRetries

\* Nobody is ahead of the log.
Behind == /\ \A g \in Group : committed[g] <= Len(log)
          /\ \A t \in Task : at[t] <= Len(log)

Inv == TypeOK /\ Working /\ Behind

-----------------------------------------------------------------------------
(* Types. *)

\* What a handler at work reads is an entry of the log.
LEMMA CurrentType ==
    ASSUME TypeOK, NEW t \in Task, at[t] < Len(log)
    PROVE  /\ Current(t) \in Entry
           /\ Current(t).msg \in Message
           /\ Current(t).count \in 0..MaxRetries
<1>1. at[t] + 1 \in 1..Len(log)
  BY DEF TypeOK
<1>2. Current(t) \in Entry
  BY <1>1 DEF TypeOK, Current
<1> QED BY <1>2 DEF Entry

\* A task is a pod and a group.
LEMMA TaskType == \A t \in Task : t[1] \in Pod /\ t[2] \in Group /\ t = <<t[1], t[2]>>
  BY DEF Task

\* Only a call that can succeed takes effect.
LEMMA AnswerFacts ==
    \A able \in BOOLEAN : \A a \in Answers(able) :
        /\ a \in {"ok", "refused", "unanswered"}
        /\ TakesEffect(a) => able
        /\ a = "ok" => TakesEffect(a)
  BY DEF Answers, TakesEffect

\* A counter of faults stays a number.
LEMMA ChargeType == ASSUME TypeOK, NEW able, NEW a, Charge(able, a) PROVE faults' \in Nat
  BY DEF TypeOK, Charge

\* The log grows at its end.
LEMMA AppendFacts ==
    ASSUME TypeOK, NEW e \in Entry, log' = Append(log, e)
    PROVE  /\ log' \in Seq(Entry)
           /\ Len(log') = Len(log) + 1
           /\ \A i \in 1..Len(log) : log'[i] = log[i]
           /\ log'[Len(log) + 1] = e
  BY DEF TypeOK

\* The initial states satisfy the invariant.
LEMMA InvInit == Init => Inv
  BY ConstantsAssumption DEF Init, Inv, TypeOK, Working, Behind

\* A step that only sends to the log keeps the handlers' place in it.
LEMMA GrowStep ==
    ASSUME Inv, NEW e \in Entry, log' = Append(log, e),
           UNCHANGED <<committed, at, pc>>
    PROVE  Working' /\ Behind'
<1>1. /\ Len(log') = Len(log) + 1
      /\ \A i \in 1..Len(log) : log'[i] = log[i]
  BY AppendFacts DEF Inv
<1>2. \A t \in Task : at[t] < Len(log) => Current(t)' = Current(t)
  BY <1>1 DEF Inv, TypeOK, Current
<1>3. Working'
  BY <1>1, <1>2 DEF Inv, TypeOK, Working
<1>4. Behind'
  BY <1>1 DEF Inv, TypeOK, Behind
<1> QED BY <1>3, <1>4

\* Every step preserves it.
LEMMA InvStep == Inv /\ [Next]_vars => Inv'
<1> SUFFICES ASSUME Inv, [Next]_vars PROVE Inv'
  OBVIOUS
<1> USE TaskType, ConstantsAssumption DEF Inv, topic, consumers, workers, fates, bounds, Goto
<1>1. ASSUME NEW m \in Message, Publish(m) PROVE Inv'
  <2>1. [msg |-> m, count |-> 0] \in Entry
    BY DEF Entry
  <2>2. Working' /\ Behind'
    BY <1>1, <2>1, GrowStep DEF Publish
  <2>3. TypeOK'
    BY <1>1, <2>1 DEF Publish, TypeOK
  <2> QED BY <2>2, <2>3
<1>2. ASSUME NEW t \in Task, Handler(t) PROVE Inv'
  <2> USE DEF Working, Behind
  <2>0. log' = log /\ \A u \in Task : at'[u] = at[u] => Current(u)' = Current(u)
    BY <1>2 DEF Handler, Process, InvalidJson, CommitHandled, CommitSettled, GiveUp,
                CheckCap, ScheduleRetry, SendToDLQ, Commit, Current, TypeOK
  <2>1. at[t] < Len(log)
    BY <1>2 DEF Handler, Process, InvalidJson, Delivered, CommitHandled, CommitSettled,
                GiveUp, CheckCap, ScheduleRetry, TypeOK
  <2>2. Fate(t) \subseteq Group \X Message
    BY <2>1, CurrentType DEF Fate
  <2>3. CASE Process(t)
    BY <2>0, <2>1, <2>2, <2>3 DEF Process, TypeOK
  <2>4. ASSUME SendToDLQ(t) PROVE Inv'
    <3>1. faults' \in Nat
      BY <2>4, ChargeType DEF SendToDLQ
    <3> QED BY <2>0, <2>1, <2>2, <2>4, <3>1 DEF SendToDLQ, Throw, TypeOK
  <2>5. ASSUME NEW next, Commit(t, next), next \in {"retry", "throw"} PROVE Inv'
    <3>1. faults' \in Nat
      BY <2>5, ChargeType DEF Commit
    <3>2. at[t] + 1 \in Nat /\ at[t] + 1 <= Len(log)
      BY <2>1 DEF TypeOK
    <3>3. /\ committed' = committed \/ committed' = [committed EXCEPT ![t[2]] = at[t] + 1]
          /\ \/ at' = at /\ pc' \in {[pc EXCEPT ![t] = "idle"], [pc EXCEPT ![t] = "retry"]}
             \/ at' = [at EXCEPT ![t] = @ + 1] /\ pc' = [pc EXCEPT ![t] = "idle"]
          /\ owner' = owner \/ owner' = [owner EXCEPT ![t[2]] = None]
          /\ UNCHANGED <<log, queue, batch, stuck, phase, handled, dead, lost, stops>>
      BY <2>5 DEF Commit, Throw
    <3>4. committed' \in [Group -> Nat \cup {-1}] /\ \A g \in Group : committed'[g] <= Len(log)
      <4>1. CASE committed' = committed
        BY <4>1 DEF TypeOK
      <4>2. CASE committed' = [committed EXCEPT ![t[2]] = at[t] + 1]
        <5> DEFINE following == at[t] + 1
        <5>1. following \in Nat /\ following <= Len(log)
          BY <3>2
        <5>2. committed' = [committed EXCEPT ![t[2]] = following]
          BY <4>2
        <5> HIDE DEF following
        <5> QED BY <5>1, <5>2 DEF TypeOK
      <4> QED BY <3>3, <4>1, <4>2
    <3>5. /\ at' \in [Task -> Nat] /\ owner' \in [Group -> Pod \cup {None}]
          /\ pc' \in [Task -> {"idle", "commit", "retry", "zadd", "settle"}]
      <4>1. at' \in [Task -> Nat]
        BY <3>2, <3>3 DEF TypeOK
      <4>2. owner' \in [Group -> Pod \cup {None}]
        BY <3>3 DEF TypeOK
      <4>3. pc' \in [Task -> {"idle", "commit", "retry", "zadd", "settle"}]
        BY <3>3 DEF TypeOK
      <4> QED BY <4>1, <4>2, <4>3
    <3>6. \A u \in Task : /\ at'[u] <= Len(log)
                          /\ pc'[u] # "idle" => at'[u] < Len(log) /\ at'[u] = at[u]
                          /\ pc'[u] = "zadd" => pc[u] = "zadd"
      <4> TAKE u \in Task
      <4>1. CASE u = t
        BY <2>1, <3>2, <3>3, <4>1 DEF TypeOK
      <4>2. CASE u # t
        BY <3>3, <4>2 DEF TypeOK
      <4> QED BY <4>1, <4>2
    <3>7. TypeOK'
      BY <3>1, <3>3, <3>4, <3>5 DEF TypeOK
    <3>8. Working' /\ Behind'
      BY <2>0, <3>4, <3>6
    <3> QED BY <3>7, <3>8
  <2>6. CASE CheckCap(t)
    <3>1. faults' \in Nat
      BY <2>6, ChargeType DEF CheckCap
    <3>2. Current(t).count < MaxRetries
      BY <2>1, <2>6, CurrentType DEF CheckCap, Exhausted
    <3> QED BY <2>0, <2>1, <2>6, <3>1, <3>2 DEF CheckCap, Throw, TypeOK
  <2>7. CASE ScheduleRetry(t)
    <3>1. faults' \in Nat
      BY <2>7, ChargeType DEF ScheduleRetry
    <3>2. queue' \in SUBSET Member
      <4>1. Current(t).msg \in Message /\ Current(t).count + 1 \in 0..MaxRetries
        BY <2>1, <2>7, CurrentType DEF ScheduleRetry
      <4>2. \A now \in Second : [msg |-> Current(t).msg, count |-> Current(t).count + 1,
                                 firstSeen |-> now] \in Member
        BY <4>1 DEF Member
      <4> QED BY <2>7, <4>2 DEF ScheduleRetry, TypeOK
    <3>3. TypeOK'
      BY <2>0, <2>7, <3>1, <3>2 DEF ScheduleRetry, Throw, TypeOK
    <3> QED BY <2>0, <2>1, <2>7, <3>3 DEF ScheduleRetry, Throw, TypeOK
  <2> QED
    BY <1>2, <2>3, <2>4, <2>5, <2>6, <2>7
       DEF Handler, InvalidJson, CommitHandled, CommitSettled, GiveUp
<1>3. ASSUME NEW p \in Pod, Worker(p) PROVE Inv'
  <2>1. CASE Pop(p)
    <3>1. faults' \in Nat
      BY <2>1, ChargeType DEF Pop
    <3>2. \A S \in SUBSET queue : ForAll(S) \subseteq Group \X Message
      BY DEF ForAll, TypeOK, Member
    <3>3. TypeOK'
      BY <2>1, <3>1, <3>2 DEF Pop, TypeOK, Dropped
    <3> QED BY <2>1, <3>3 DEF Pop, Working, Behind, Current
  <2>2. CASE Resend(p)
    <3>1. faults' \in Nat
      BY <2>2, ChargeType DEF Resend
    <3>2. PICK m \in batch[p] : log' = log \/ log' = Append(log, [msg |-> m.msg, count |-> m.count])
      BY <2>2 DEF Resend
    <3>3. [msg |-> m.msg, count |-> m.count] \in Entry
      BY DEF TypeOK, Member, Entry
    <3>4. TypeOK'
      <4>1. log' \in Seq(Entry)
        BY <3>2, <3>3, AppendFacts DEF TypeOK
      <4>2. PICK n \in batch[p] : \/ batch' = [batch EXCEPT ![p] = @ \ {n}] /\ stuck' = stuck
                                  \/ stuck' = [stuck EXCEPT ![p] = n] /\ batch' = batch
        BY <2>2 DEF Resend
      <4>3. n \in Member
        BY DEF TypeOK
      <4>4. batch' \in [Pod -> SUBSET Member] /\ stuck' \in [Pod -> Member \cup {None}]
        <5>1. CASE batch' = [batch EXCEPT ![p] = @ \ {n}] /\ stuck' = stuck
          BY <5>1 DEF TypeOK
        <5>2. CASE stuck' = [stuck EXCEPT ![p] = n] /\ batch' = batch
          BY <4>3, <5>2 DEF TypeOK
        <5> QED BY <4>2, <5>1, <5>2
      <4> QED BY <2>2, <3>1, <4>1, <4>4 DEF Resend, TypeOK
    <3>5. Working' /\ Behind'
      <4>1. CASE log' = log
        BY <2>2, <4>1 DEF Resend, Working, Behind, Current
      <4> QED BY <2>2, <3>2, <3>3, <4>1, GrowStep DEF Resend
    <3> QED BY <3>4, <3>5
  <2>3. CASE ResendFailed(p)
    <3>1. faults' \in Nat
      BY <2>3, ChargeType DEF ResendFailed
    <3>2. /\ ForAll(batch[p]) \subseteq Group \X Message
          /\ ForAll({stuck[p]}) \subseteq Group \X Message
      BY <2>3 DEF ResendFailed, ForAll, TypeOK, Member
    <3>3. TypeOK'
      <4>1. batch' \in [Pod -> SUBSET Member] /\ stuck' \in [Pod -> Member \cup {None}]
        BY <2>3 DEF ResendFailed, TypeOK
      <4>2. dead' \subseteq Group \X Message /\ lost' \subseteq Group \X Message
        BY <2>3, <3>2 DEF ResendFailed, Dropped, TypeOK
      <4> QED BY <2>3, <3>1, <4>1, <4>2 DEF ResendFailed, TypeOK
    <3> QED BY <2>3, <3>3 DEF ResendFailed, Working, Behind, Current
  <2> QED BY <1>3, <2>1, <2>2, <2>3 DEF Worker
<1>4. ASSUME NEW p \in Pod, Closing(p) \/ Crash(p) \/ Disconnect(p) PROVE Inv'
  <2>1. ForAll(batch[p]) \subseteq Group \X Message
    BY DEF ForAll, TypeOK, Member
  <2>2. TypeOK'
    <3>1. CASE DisconnectProducer(p) \/ Reload(p)
      BY <3>1 DEF DisconnectProducer, Reload, TypeOK
    <3>2. ForgetBatch(p) => /\ batch' \in [Pod -> SUBSET Member]
                            /\ stuck' \in [Pod -> Member \cup {None}]
                            /\ lost' \subseteq Group \X Message
      BY <2>1 DEF ForgetBatch, Dropped, TypeOK
    <3>3. Leaves(p) => owner' \in [Group -> Pod \cup {None}]
      BY DEF Leaves, TypeOK
    <3>4. CASE Boot(p)
      BY <3>2, <3>4 DEF Boot, TypeOK
    <3>5. CASE Crash(p)
      BY <3>2, <3>3, <3>5 DEF Crash, Stops, TypeOK
    <3>6. CASE Disconnect(p)
      BY <3>3, <3>6 DEF Disconnect, Stops, TypeOK
    <3> QED BY <1>4, <3>1, <3>4, <3>5, <3>6 DEF Closing
  <2> QED BY <1>4, <2>2 DEF Closing, DisconnectProducer, Boot, Reload, Crash, Disconnect,
                            Working, Behind, Current
<1>5. ASSUME NEW g \in Group, Evict(g) PROVE Inv'
  <2>1. TypeOK'
    BY <1>5 DEF Evict, Stops, TypeOK
  <2> QED BY <1>5, <2>1 DEF Evict, Working, Behind, Current
<1>6. ASSUME NEW g \in Group, NEW p \in Pod, Assign(g, p) PROVE Inv'
  <2>1. Published \subseteq Message
    <3>1. \A i \in DOMAIN log : log[i] \in Entry
      BY DEF TypeOK
    <3> QED BY <3>1 DEF Published, Entry
  <2>2. TypeOK'
    <3>1. at' \in [Task -> Nat]
      <4>1. CASE committed[g] = -1
        <5>1. Len(log) \in Nat
          BY DEF TypeOK
        <5>2. at' = [at EXCEPT ![<<p, g>>] = Len(log)]
          BY <1>6, <4>1 DEF Assign
        <5> QED BY <5>1, <5>2 DEF TypeOK
      <4>2. CASE committed[g] # -1
        <5>1. committed[g] \in Nat
          BY <4>2 DEF TypeOK
        <5> QED BY <1>6, <4>2, <5>1 DEF Assign, TypeOK
      <4> QED BY <4>1, <4>2
    <3>2. lost' \subseteq Group \X Message
      BY <1>6, <2>1 DEF Assign, Dropped, TypeOK
    <3> QED BY <1>6, <3>1, <3>2 DEF Assign, TypeOK
  <2>3. \A u \in Task : u # <<p, g>> => at'[u] = at[u]
    BY <1>6 DEF Assign, TypeOK
  <2>4. Working' /\ Behind'
    <3>1. <<p, g>> \in Task /\ pc[<<p, g>>] = "idle" /\ log' = log /\ pc' = pc /\ committed' = committed
      BY <1>6 DEF Assign, Task
    <3>2. at'[<<p, g>>] <= Len(log)
      BY <1>6, <3>1 DEF Assign, TypeOK, Behind
    <3> QED BY <2>3, <3>1, <3>2 DEF Working, Behind, Current
  <2> QED BY <2>2, <2>4
<1>7. CASE UNCHANGED vars
  BY <1>7 DEF vars, TypeOK, Working, Behind, Current
<1> QED BY <1>1, <1>2, <1>3, <1>4, <1>5, <1>6, <1>7 DEF Next

(* Types, for every set of messages, groups and pods and every bound. *)
THEOREM TypeCorrect == Spec => []TypeOK
<1>1. Inv => TypeOK
  BY DEF Inv
<1> QED BY InvInit, InvStep, <1>1, PTL DEF Spec

-----------------------------------------------------------------------------
(* The cap. *)

Adding == {t \in Task : pc[t] = "zadd"}

\* Every handler that was told there is room adds at most one member.
Capped == /\ IsFiniteSet(queue)
          /\ Cardinality(queue) + Cardinality(Adding) <= Cap + Cardinality(Task) - 1

\* There are finitely many handlers.
LEMMA TaskFinite ==
    /\ IsFiniteSet(Task) /\ Cardinality(Task) \in Nat /\ Cardinality(Task) >= 1
    /\ \A S \in SUBSET Task : /\ IsFiniteSet(S) /\ Cardinality(S) \in Nat
                              /\ Cardinality(S) <= Cardinality(Task)
<1>1. IsFiniteSet(Task)
  BY ConstantsAssumption, FS_Product DEF Task
<1>2. Task # {}
  <2>1. PICK p \in Pod, g \in Group : TRUE
    BY ConstantsAssumption
  <2>2. <<p, g>> \in Task
    BY DEF Task
  <2> QED BY <2>2
<1>3. Cardinality(Task) \in Nat /\ Cardinality(Task) # 0
  BY <1>1, <1>2, FS_CardinalityType, FS_EmptySet
<1>4. \A S \in SUBSET Task : IsFiniteSet(S) /\ Cardinality(S) <= Cardinality(Task)
  BY <1>1, FS_Subset
<1> QED BY <1>1, <1>3, <1>4, FS_CardinalityType

\* Nothing is added at first.
LEMMA CappedInit == Init => Capped
<1> SUFFICES ASSUME Init PROVE Capped
  OBVIOUS
<1>1. queue = {} /\ Adding = {}
  BY DEF Init, Adding
<1> QED BY <1>1, TaskFinite, FS_EmptySet, ConstantsAssumption DEF Capped

\* It is enough that the queue shrinks and no handler starts to add.
LEMMA CappedShrinks ==
    ASSUME Capped, queue' \subseteq queue, Adding' \subseteq Adding
    PROVE  Capped'
<1>1. IsFiniteSet(queue') /\ Cardinality(queue') <= Cardinality(queue)
  BY FS_Subset DEF Capped
<1>2. IsFiniteSet(Adding) /\ Adding \subseteq Task
  BY TaskFinite DEF Adding
<1>3. Cardinality(Adding') <= Cardinality(Adding)
  BY <1>2, FS_Subset
<1>4. /\ Cardinality(queue) \in Nat /\ Cardinality(queue') \in Nat
      /\ Cardinality(Adding) \in Nat /\ Cardinality(Adding') \in Nat
  BY <1>1, <1>2, FS_CardinalityType, FS_Subset DEF Capped
<1> QED BY <1>1, <1>3, <1>4, TaskFinite, ConstantsAssumption DEF Capped

\* Every step keeps the queue within its bound.
LEMMA CappedStep == Inv /\ Capped /\ [Next]_vars => Capped'
<1> SUFFICES ASSUME Inv, Capped, [Next]_vars PROVE Capped'
  OBVIOUS
<1> USE DEF Inv, topic, consumers, workers, fates, bounds, Goto
<1>0. /\ Cardinality(queue) \in Nat /\ Cardinality(Adding) \in Nat
      /\ Cap \in Nat /\ Adding \subseteq Task
  BY TaskFinite, FS_CardinalityType, ConstantsAssumption DEF Capped, Adding
<1>1. ASSUME NEW t \in Task, CheckCap(t) PROVE Capped'
  <2>1. queue' = queue
    BY <1>1 DEF CheckCap
  <2>2. CASE ~Full /\ pc' = [pc EXCEPT ![t] = "zadd"]
    <3>1. Cardinality(queue) <= Cap - 1
      BY <1>0, <2>2 DEF Full
    <3>2. Adding' \in SUBSET Task
      BY DEF Adding
    <3> QED BY <1>0, <2>1, <3>1, <3>2, TaskFinite DEF Capped
  <2>3. CASE pc' = [pc EXCEPT ![t] = "idle"]
    <3>1. Adding' \subseteq Adding
      BY <2>3 DEF Adding, TypeOK
    <3> QED BY <2>1, <3>1, CappedShrinks
  <2> QED BY <1>1, <2>2, <2>3 DEF CheckCap, Throw
<1>2. ASSUME NEW t \in Task, ScheduleRetry(t) PROVE Capped'
  <2>1. Adding' = Adding \ {t} /\ t \in Adding
    BY <1>2 DEF ScheduleRetry, Throw, Adding, TypeOK
  <2>2. Cardinality(Adding') = Cardinality(Adding) - 1
    BY <1>0, <2>1, TaskFinite, FS_RemoveElement
  <2>3. PICK m : queue' = queue \/ queue' = queue \cup {m}
    BY <1>2 DEF ScheduleRetry
  <2>4. IsFiniteSet(queue') /\ Cardinality(queue') <= Cardinality(queue) + 1
    <3>1. CASE queue' = queue
      BY <1>0, <3>1 DEF Capped
    <3>2. CASE queue' = queue \cup {m}
      <4>1. IsFiniteSet(queue \cup {m}) /\ Cardinality(queue \cup {m}) <= Cardinality(queue) + 1
        <5>1. IsFiniteSet(queue)
          BY DEF Capped
        <5>2. /\ IsFiniteSet(queue \cup {m})
              /\ Cardinality(queue \cup {m}) = IF m \in queue THEN Cardinality(queue)
                                               ELSE Cardinality(queue) + 1
          BY <5>1, FS_AddElement
        <5> QED BY <1>0, <5>2
      <4> QED BY <3>2, <4>1
    <3> QED BY <2>3, <3>1, <3>2
  <2>5. Cardinality(queue') \in Nat
    BY <2>4, FS_CardinalityType
  <2> QED BY <1>0, <2>2, <2>4, <2>5, TaskFinite DEF Capped
<1>3. ASSUME NEW t \in Task, Handler(t), ~CheckCap(t), ~ScheduleRetry(t) PROVE Capped'
  <2>1. queue' = queue /\ \A u \in Task : pc'[u] = "zadd" => pc[u] = "zadd"
    BY <1>3 DEF Handler, Process, InvalidJson, GiveUp, SendToDLQ, Throw, CommitHandled,
                CommitSettled, Commit, TypeOK
  <2> QED BY <2>1, CappedShrinks DEF Adding
<1>4. ASSUME UNCHANGED <<queue, pc>> PROVE Capped'
  BY <1>4, CappedShrinks DEF Adding
<1>5. ASSUME NEW p \in Pod, Worker(p) PROVE Capped'
  <2>1. queue' \subseteq queue /\ pc' = pc
    BY <1>5 DEF Worker, Pop, Resend, ResendFailed
  <2> QED BY <2>1, CappedShrinks DEF Adding
<1>6. ASSUME NEW p \in Pod, Crash(p) PROVE Capped'
  <2>1. queue' = queue /\ \A u \in Task : pc'[u] = "zadd" => pc[u] = "zadd"
    BY <1>6 DEF Crash
  <2> QED BY <2>1, CappedShrinks DEF Adding
<1> QED
  BY <1>1, <1>2, <1>3, <1>4, <1>5, <1>6
     DEF Next, vars, Publish, Closing, DisconnectProducer, Boot, Reload, Disconnect, Evict,
         Assign

(* However many handlers find room at once, the retry queue never outgrows its
   cap by more than the number of the other handlers. *)
THEOREM CapHolds == Spec => []QueueBounded
<1>1. Capped => QueueBounded
  BY TaskFinite, FS_CardinalityType, ConstantsAssumption DEF Capped, QueueBounded, Adding
<1> QED BY InvInit, InvStep, CappedInit, CappedStep, <1>1, PTL DEF Spec

-----------------------------------------------------------------------------
(* No message is forgotten. *)

\* It has met its fate, waits for a retry, or comes after place k of the log.
Safe(g, m, k) == Kept(g, m) \/ InLog(m, k)

\* Nothing up to place k would be missed by a group that starts after it.
Ahead(g, k) == \A i \in DOMAIN log : i <= k => Safe(g, log[i].msg, k)

Covered ==
    /\ \A g \in Group : Ahead(g, committed[g])
    /\ \A t \in Task : Owns(t) => Ahead(t[2], at[t])
    /\ \A t \in Task : pc[t] = "commit" => <<t[2], Current(t).msg>> \in handled
    /\ \A t \in Task : pc[t] = "settle" => Safe(t[2], Current(t).msg, at[t] + 1)

\* A step that takes nothing away leaves what is safe safe.
LEMMA SafeGrows ==
    ASSUME NEW g \in Group, NEW m, NEW k \in Int, Safe(g, m, k),
           handled \subseteq handled', dead \subseteq dead', lost \subseteq lost',
           queue \subseteq queue', \A p \in Pod : batch[p] \subseteq batch'[p],
           InLog(m, k) => InLog(m, k)'
    PROVE  Safe(g, m, k)'
  BY DEF Safe, Kept, Queued

\* The log is only appended to.
LEMMA LogGrows ==
    ASSUME Inv, [Next]_vars
    PROVE  /\ Len(log) \in Nat /\ DOMAIN log = 1..Len(log)
           /\ Len(log') \in Nat /\ DOMAIN log' = 1..Len(log')
           /\ Len(log) <= Len(log')
           /\ \A i \in 1..Len(log) : log'[i] = log[i]
<1>1. Inv' /\ log \in Seq(Entry) /\ log' \in Seq(Entry)
  BY InvStep DEF Inv, TypeOK
<1>2. log' = log \/ \E e \in Entry : log' = Append(log, e)
  <2>1. \A m \in Message : Publish(m) => \E e \in Entry : log' = Append(log, e)
    BY ConstantsAssumption DEF Publish, Entry
  <2>2. \A p \in Pod : Resend(p) => log' = log \/ \E e \in Entry : log' = Append(log, e)
    BY DEF Resend, Inv, TypeOK, Member, Entry
  <2> QED
    BY <2>1, <2>2
       DEF Next, vars, topic, Handler, Process, InvalidJson, GiveUp, SendToDLQ, CommitHandled,
           CommitSettled, Commit, CheckCap, ScheduleRetry, Worker, Pop, ResendFailed, Closing,
           DisconnectProducer, Boot, Reload, Crash, Disconnect, Evict, Assign
<1>3. ASSUME NEW e \in Entry, log' = Append(log, e)
      PROVE  Len(log') = Len(log) + 1 /\ \A i \in 1..Len(log) : log'[i] = log[i]
  BY <1>1, <1>3
<1>4. Len(log) \in Nat /\ DOMAIN log = 1..Len(log) /\ Len(log') \in Nat /\ DOMAIN log' = 1..Len(log')
  BY <1>1
<1>5. CASE log' = log
  BY <1>4, <1>5
<1>6. ASSUME NEW e \in Entry, log' = Append(log, e)
      PROVE  Len(log) <= Len(log') /\ \A i \in 1..Len(log) : log'[i] = log[i]
  BY <1>3, <1>4, <1>6
<1> QED BY <1>2, <1>4, <1>5, <1>6

\* What comes after place k goes on doing so.
LEMMA InLogStays ==
    ASSUME Inv, [Next]_vars, NEW m, NEW k \in Int, InLog(m, k)
    PROVE  InLog(m, k)'
<1>1. PICK i \in DOMAIN log : i > k /\ log[i].msg = m
  BY DEF InLog
<1>2. i \in DOMAIN log' /\ log'[i] = log[i]
  BY LogGrows
<1> QED BY <1>1, <1>2 DEF InLog

\* Every step leaves what is safe safe.
LEMMA SafeStays ==
    ASSUME Inv, [Next]_vars, NEW g \in Group, NEW m, NEW k \in Int, k <= Len(log),
           Safe(g, m, k)
    PROVE  Safe(g, m, k)'
<1> USE DEF topic, consumers, workers, fates, bounds
<1>0. InLog(m, k) => InLog(m, k)'
  BY InLogStays
<1>1. ASSUME UNCHANGED <<queue, batch, handled, dead, lost>> PROVE Safe(g, m, k)'
  BY <1>0, <1>1, SafeGrows
<1>2. ASSUME NEW t \in Task, Handler(t) PROVE Safe(g, m, k)'
  <2>1. /\ handled \subseteq handled' /\ dead \subseteq dead' /\ lost' = lost
        /\ queue \subseteq queue' /\ batch' = batch
    BY <1>2 DEF Handler, Process, InvalidJson, GiveUp, SendToDLQ, CommitHandled,
                CommitSettled, Commit, CheckCap, ScheduleRetry
  <2> QED BY <1>0, <2>1, SafeGrows
<1>3. ASSUME NEW p \in Pod, ForgetBatch(p), UNCHANGED <<queue, handled, dead>>
      PROVE  Safe(g, m, k)'
  <2>1. ASSUME NEW e \in batch[p], e.msg = m PROVE <<g, m>> \in handled \cup dead \cup lost'
    BY <1>3, <2>1 DEF ForgetBatch, Dropped, ForAll
  <2>2. lost \subseteq lost' /\ \A q \in Pod : q # p => batch'[q] = batch[q]
    BY <1>3 DEF ForgetBatch, Dropped, Inv, TypeOK
  <2> QED BY <1>0, <1>3, <2>1, <2>2 DEF Safe, Kept, Queued
<1>4. ASSUME NEW p \in Pod, Pop(p) PROVE Safe(g, m, k)'
  <2>1. PICK popped \in SUBSET queue :
          \/ queue' = queue /\ batch' = batch /\ lost' = lost
          \/ queue' = queue \ popped /\ batch' = [batch EXCEPT ![p] = popped] /\ lost' = lost
          \/ queue' = queue \ popped /\ batch' = batch /\ lost' = Dropped(ForAll(popped))
    BY <1>4 DEF Pop, Answers, TakesEffect
  <2>2. batch[p] = {} /\ handled' = handled /\ dead' = dead
    BY <1>4 DEF Pop
  <2>3. CASE queue' = queue /\ batch' = batch /\ lost' = lost
    BY <1>1, <2>2, <2>3
  <2>4. CASE queue' = queue \ popped /\ batch' = [batch EXCEPT ![p] = popped] /\ lost' = lost
    <3>1. batch'[p] = popped /\ \A q \in Pod : q # p => batch'[q] = batch[q]
      BY <2>4 DEF Inv, TypeOK
    <3> QED BY <1>0, <2>2, <2>4, <3>1 DEF Safe, Kept, Queued
  <2>5. CASE queue' = queue \ popped /\ batch' = batch /\ lost' = Dropped(ForAll(popped))
    <3>1. ASSUME NEW e \in popped, e.msg = m PROVE <<g, m>> \in handled \cup dead \cup lost'
      BY <2>5, <3>1 DEF Dropped, ForAll
    <3>2. lost \subseteq lost'
      BY <2>5 DEF Dropped
    <3> QED BY <1>0, <2>2, <2>5, <3>1, <3>2 DEF Safe, Kept, Queued
  <2> QED BY <2>1, <2>3, <2>4, <2>5
<1>5. ASSUME NEW p \in Pod, Resend(p) PROVE Safe(g, m, k)'
  <2>1. PICK n \in batch[p] :
          \/ batch' = batch
          \/ /\ batch' = [batch EXCEPT ![p] = @ \ {n}]
             /\ log' = Append(log, [msg |-> n.msg, count |-> n.count])
    BY <1>5 DEF Resend, TakesEffect
  <2>2. UNCHANGED <<queue, handled, dead, lost>>
    BY <1>5 DEF Resend
  <2>3. CASE batch' = batch
    BY <1>1, <2>2, <2>3
  <2>4. CASE /\ batch' = [batch EXCEPT ![p] = @ \ {n}]
             /\ log' = Append(log, [msg |-> n.msg, count |-> n.count])
    <3>1. n \in Member /\ [msg |-> n.msg, count |-> n.count] \in Entry
      BY DEF Inv, TypeOK, Member, Entry
    <3>2. log'[Len(log) + 1].msg = n.msg /\ Len(log) + 1 \in DOMAIN log'
      BY <2>4, <3>1, AppendFacts DEF Inv, TypeOK
    <3>3. Len(log) + 1 > k
      BY LogGrows
    <3>4. InLog(n.msg, k)'
      BY <3>2, <3>3 DEF InLog
    <3>5. \A q \in Pod : batch'[q] = batch[q] \/ batch'[q] = batch[q] \ {n}
      BY <2>4 DEF Inv, TypeOK
    <3> QED BY <1>0, <2>2, <3>4, <3>5 DEF Safe, Kept, Queued
  <2> QED BY <2>1, <2>3, <2>4
<1>6. ASSUME NEW p \in Pod, ResendFailed(p) PROVE Safe(g, m, k)'
  <2>1. UNCHANGED <<queue, handled>>
    BY <1>6 DEF ResendFailed
  <2>2. \/ /\ batch' = [batch EXCEPT ![p] = @ \ {stuck[p]}] /\ lost' = lost
           /\ dead' = dead \cup ForAll({stuck[p]})
        \/ /\ batch' = [batch EXCEPT ![p] = {}] /\ lost' = Dropped(ForAll(batch[p]))
           /\ dead \subseteq dead'
    BY <1>6 DEF ResendFailed, TakesEffect
  <2>3. CASE /\ batch' = [batch EXCEPT ![p] = @ \ {stuck[p]}] /\ lost' = lost
             /\ dead' = dead \cup ForAll({stuck[p]})
    <3>1. stuck[p].msg = m => <<g, m>> \in dead'
      BY <2>3 DEF ForAll
    <3>2. \A q \in Pod : batch'[q] = batch[q] \/ batch'[q] = batch[q] \ {stuck[p]}
      BY <2>3 DEF Inv, TypeOK
    <3> QED BY <1>0, <2>1, <2>3, <3>1, <3>2 DEF Safe, Kept, Queued
  <2>4. CASE /\ batch' = [batch EXCEPT ![p] = {}] /\ lost' = Dropped(ForAll(batch[p]))
             /\ dead \subseteq dead'
    <3>1. ASSUME NEW e \in batch[p], e.msg = m PROVE <<g, m>> \in handled \cup dead \cup lost'
      BY <2>4, <3>1 DEF Dropped, ForAll
    <3>2. lost \subseteq lost' /\ \A q \in Pod : q # p => batch'[q] = batch[q]
      BY <2>4 DEF Dropped, Inv, TypeOK
    <3> QED BY <1>0, <2>1, <2>4, <3>1, <3>2 DEF Safe, Kept, Queued
  <2> QED BY <2>2, <2>3, <2>4
<1>7. ASSUME NEW h \in Group, NEW p \in Pod, Assign(h, p) PROVE Safe(g, m, k)'
  <2>1. lost \subseteq lost' /\ UNCHANGED <<queue, batch, handled, dead>>
    BY <1>7 DEF Assign, Dropped
  <2> QED BY <1>0, <2>1, SafeGrows
<1> QED
  BY <1>1, <1>2, <1>3, <1>4, <1>5, <1>6, <1>7
     DEF Next, vars, Publish, Worker, Closing, DisconnectProducer, Boot, Reload, Crash,
         Disconnect, Evict

\* So does a place of the log that nothing before is missed from.
LEMMA AheadStays ==
    ASSUME Inv, [Next]_vars, NEW g \in Group, NEW k \in Int, k <= Len(log), Ahead(g, k)
    PROVE  Ahead(g, k)'
<1> SUFFICES ASSUME NEW i \in DOMAIN log', i <= k, NEW m, m = log'[i].msg
             PROVE  Safe(g, m, k)'
  BY DEF Ahead
<1>1. i \in DOMAIN log /\ log'[i] = log[i]
  BY LogGrows
<1>2. Safe(g, m, k)
  BY <1>1 DEF Ahead
<1> QED BY <1>2, SafeStays

\* One place further, when what is there is safe.
LEMMA AheadNext ==
    ASSUME Inv, NEW t \in Task, at[t] < Len(log), Ahead(t[2], at[t]),
           Safe(t[2], Current(t).msg, at[t] + 1)
    PROVE  Ahead(t[2], at[t] + 1)
<1> SUFFICES ASSUME NEW i \in DOMAIN log, i <= at[t] + 1
             PROVE  Safe(t[2], log[i].msg, at[t] + 1)
  BY DEF Ahead
<1>0. at[t] \in Nat /\ DOMAIN log \subseteq Nat
  BY DEF Inv, TypeOK
<1>1. CASE i = at[t] + 1
  BY <1>1 DEF Current
<1>2. CASE i <= at[t]
  <2>1. Safe(t[2], log[i].msg, at[t])
    BY <1>2 DEF Ahead
  <2>2. CASE Kept(t[2], log[i].msg)
    BY <2>2 DEF Safe
  <2>3. CASE InLog(log[i].msg, at[t])
    <3>1. PICK j \in DOMAIN log : j > at[t] /\ log[j].msg = log[i].msg
      BY <2>3 DEF InLog
    <3>2. CASE j = at[t] + 1
      BY <3>1, <3>2 DEF Current
    <3>3. CASE j > at[t] + 1
      BY <3>1, <3>3 DEF Safe, InLog
    <3> QED BY <1>0, <3>1, <3>2, <3>3
  <2> QED BY <2>1, <2>2, <2>3 DEF Safe
<1> QED BY <1>0, <1>1, <1>2

\* Nothing is missed at first.
LEMMA CoveredInit == Init => Covered
<1> SUFFICES ASSUME Init PROVE Covered
  OBVIOUS
<1>1. log = <<>> /\ \A t \in Task : pc[t] = "idle"
  BY DEF Init
<1> QED BY <1>1 DEF Covered, Ahead

\* Every step moves the groups and the consumers only past what is safe.
LEMMA CoveredStep == Inv /\ Covered /\ [Next]_vars => Covered'
<1> SUFFICES ASSUME Inv, Covered, [Next]_vars PROVE Covered'
  OBVIOUS
<1> USE TaskType DEF topic, consumers, workers, fates, bounds, Goto
<1>0. /\ \A g \in Group : committed[g] \in Int /\ committed[g] <= Len(log)
      /\ \A t \in Task : /\ at[t] \in Nat /\ at[t] <= Len(log)
                         /\ pc[t] # "idle" => at[t] < Len(log)
  BY DEF Inv, TypeOK, Working, Behind
<1>1. ASSUME NEW g \in Group, NEW k \in Int, k <= Len(log), Ahead(g, k) PROVE Ahead(g, k)'
  BY <1>1, AheadStays
\* What a handler at work reads does not change, and what is safe stays so.
<1>2. ASSUME NEW t \in Task, pc[t] # "idle", at'[t] = at[t]
      PROVE  /\ Current(t)' = Current(t)
             /\ Safe(t[2], Current(t).msg, at[t] + 1) => Safe(t[2], Current(t).msg, at[t] + 1)'
  <2>1. Current(t)' = Current(t)
    BY <1>0, <1>2, LogGrows DEF Current
  <2>2. ASSUME NEW m, m = Current(t).msg, NEW k \in Int, k = at[t] + 1, Safe(t[2], m, k)
        PROVE  Safe(t[2], m, k)'
    BY <1>0, <1>2, <2>2, SafeStays
  <2>3. at[t] + 1 \in Int
    BY <1>0
  <2> QED BY <1>2, <2>1, <2>2, <2>3
<1>3. handled \subseteq handled'
  BY DEF Next, vars, Publish, Handler, Process, InvalidJson, GiveUp, SendToDLQ, CommitHandled,
         CommitSettled, Commit, CheckCap, ScheduleRetry, Worker, Pop, Resend, ResendFailed,
         Closing, DisconnectProducer, Boot, Reload, Crash, Disconnect, Evict, Assign
\* Steps that move nobody: a handler may only turn to a commit it has earned.
<1>4. ASSUME committed' = committed, at' = at,
             \A g \in Group : owner'[g] = owner[g] \/ owner'[g] = None,
             \A t \in Task : pc'[t] # pc[t] =>
                 /\ pc'[t] # "idle" => at[t] < Len(log)
                 /\ pc'[t] = "commit" => <<t[2], Current(t).msg>> \in handled'
                 /\ pc'[t] = "settle" => \A m : m = Current(t).msg => Kept(t[2], m)'
      PROVE  Covered'
  <2>1. \A g \in Group : Ahead(g, committed[g])'
    <3> SUFFICES ASSUME NEW g \in Group, NEW k \in Int, k = committed[g]
                 PROVE  Ahead(g, k)'
      BY <1>0, <1>4
    <3> QED BY <1>0, <1>1 DEF Covered
  <2>2. ASSUME NEW t \in Task, Owns(t)' PROVE Ahead(t[2], at[t])'
    <3>1. Owns(t)
      BY <1>4, <2>2, ConstantsAssumption DEF Owns
    <3> SUFFICES ASSUME NEW k \in Int, k = at[t] PROVE Ahead(t[2], k)'
      BY <1>0, <1>4
    <3> QED BY <1>0, <1>1, <3>1 DEF Covered
  <2>3. ASSUME NEW t \in Task, pc'[t] # "idle" PROVE Current(t)' = Current(t)
    <3>1. at[t] < Len(log)
      BY <1>0, <1>4, <2>3
    <3> QED BY <1>0, <1>4, <3>1, LogGrows DEF Current
  <2>4. ASSUME NEW t \in Task, pc'[t] = "commit"
        PROVE  <<t[2], Current(t)'.msg>> \in handled'
    BY <1>3, <1>4, <2>3, <2>4 DEF Covered
  <2>5. ASSUME NEW t \in Task, pc'[t] = "settle"
        PROVE  Safe(t[2], Current(t).msg, at[t] + 1)'
    <3>1. CASE pc[t] = "settle"
      BY <1>2, <1>4, <3>1 DEF Covered
    <3>2. CASE pc[t] # "settle"
      <4>1. \A m : m = Current(t).msg => Kept(t[2], m)'
        BY <1>4, <2>5, <3>2
      <4>2. Kept(t[2], Current(t).msg)'
        BY <2>3, <2>5, <4>1
      <4> QED BY <4>2 DEF Safe
    <3> QED BY <3>1, <3>2
  <2> QED BY <1>4, <2>1, <2>2, <2>4, <2>5 DEF Covered
<1>5. ASSUME NEW t \in Task, Process(t) PROVE Covered'
  BY <1>4, <1>5 DEF Process, Delivered, Fate, Inv, TypeOK
<1>6. ASSUME NEW t \in Task, SendToDLQ(t), at[t] < Len(log) PROVE Covered'
  <2>1. /\ committed' = committed /\ at' = at
        /\ \A g \in Group : owner'[g] = owner[g] \/ owner'[g] = None
        /\ \A u \in Task : u # t => pc'[u] = pc[u]
        /\ \/ pc'[t] = "idle"
           \/ pc'[t] = "settle" /\ <<t[2], Current(t).msg>> \in dead'
    <3>1. PICK a \in Answers(Sendable(t)) :
             /\ dead' = IF TakesEffect(a) THEN dead \cup Fate(t) ELSE dead
             /\ IF a = "ok" THEN Goto(t, "settle") /\ UNCHANGED owner ELSE Throw(t)
      BY <1>6 DEF SendToDLQ
    <3>2. committed' = committed /\ at' = at
      BY <1>6 DEF SendToDLQ
    <3>3. CASE a = "ok"
      BY <3>1, <3>2, <3>3 DEF TakesEffect, Fate, Inv, TypeOK
    <3>4. CASE a # "ok"
      <4>1. Throw(t)
        BY <3>1, <3>4
      <4>2. pc' = [pc EXCEPT ![t] = "idle"] /\ (owner' = owner \/ owner' = [owner EXCEPT ![t[2]] = None])
        BY <4>1 DEF Throw
      <4>3. pc'[t] = "idle" /\ \A u \in Task : u # t => pc'[u] = pc[u]
        BY <4>2 DEF Inv, TypeOK
      <4>4. \A g \in Group : owner'[g] = owner[g] \/ owner'[g] = None
        BY <4>2 DEF Inv, TypeOK
      <4> QED BY <3>2, <4>3, <4>4
    <3> QED BY <3>3, <3>4
  <2> QED BY <1>4, <1>6, <2>1 DEF Kept, Queued
<1>7. ASSUME NEW t \in Task, CheckCap(t) PROVE Covered'
  <2>1. /\ committed' = committed /\ at' = at
        /\ \A g \in Group : owner'[g] = owner[g] \/ owner'[g] = None
        /\ \A u \in Task : u # t => pc'[u] = pc[u]
        /\ pc'[t] \in {"idle", "zadd"} /\ pc[t] # "idle"
    BY <1>7 DEF CheckCap, Throw, Inv, TypeOK
  <2> QED BY <1>0, <1>4, <2>1
<1>8. ASSUME NEW t \in Task, ScheduleRetry(t) PROVE Covered'
  <2>1. /\ committed' = committed /\ at' = at
        /\ \A g \in Group : owner'[g] = owner[g] \/ owner'[g] = None
        /\ \A u \in Task : u # t => pc'[u] = pc[u]
        /\ pc[t] # "idle"
        /\ \/ pc'[t] = "idle"
           \/ pc'[t] = "settle" /\ \E e \in queue' : e.msg = Current(t).msg
    <3>1. PICK a \in Answers(TRUE), now \in Second :
             /\ TakesEffect(a) => [msg |-> Current(t).msg, count |-> Current(t).count + 1,
                                   firstSeen |-> now] \in queue'
             /\ IF a = "ok" THEN Goto(t, "settle") /\ UNCHANGED owner ELSE Throw(t)
      BY <1>8 DEF ScheduleRetry
    <3>2. committed' = committed /\ at' = at /\ pc[t] # "idle"
      BY <1>8 DEF ScheduleRetry
    <3>3. CASE a = "ok"
      <4>1. \E e \in queue' : e.msg = Current(t).msg
        BY <3>1, <3>3 DEF TakesEffect
      <4> QED BY <3>1, <3>2, <3>3, <4>1 DEF Inv, TypeOK
    <3>4. CASE a # "ok"
      BY <3>1, <3>2, <3>4 DEF Throw, Inv, TypeOK
    <3> QED BY <3>3, <3>4
  <2> QED BY <1>0, <1>4, <2>1 DEF Kept, Queued
<1>9. ASSUME NEW t \in Task, NEW next, Commit(t, next), next \in {"retry", "throw"},
             pc[t] \in {"commit", "settle"}
      PROVE  Covered'
  <2>1. Safe(t[2], Current(t).msg, at[t] + 1)
    BY <1>9 DEF Covered, Safe, Kept, Queued
  <2>2. /\ log' = log /\ UNCHANGED <<queue, batch, handled, dead, lost>>
        /\ \A g \in Group : owner'[g] = owner[g] \/ owner'[g] = None
        /\ \A u \in Task : u # t => pc'[u] = pc[u] /\ at'[u] = at[u]
        /\ pc'[t] \in {"idle", "retry"}
        /\ \A g \in Group : g # t[2] => committed'[g] = committed[g]
    BY <1>9 DEF Commit, Throw, Inv, TypeOK
  <2>a. PICK a \in Answers(Owns(t)) :
           /\ committed' = IF TakesEffect(a)
                           THEN [committed EXCEPT ![t[2]] = at[t] + 1] ELSE committed
           /\ at' = IF a = "ok" THEN [at EXCEPT ![t] = @ + 1] ELSE at
    BY <1>9 DEF Commit
  <2>b. (TakesEffect(a) => Owns(t)) /\ (a = "ok" => Owns(t))
    BY AnswerFacts DEF Owns
  <2>3. committed'[t[2]] = committed[t[2]] \/ (Owns(t) /\ committed'[t[2]] = at[t] + 1)
    <3>1. CASE TakesEffect(a)
      <4>1. committed' = [committed EXCEPT ![t[2]] = at[t] + 1]
        BY <2>a, <3>1
      <4>2. t[2] \in Group /\ committed \in [Group -> Nat \cup {-1}]
        BY DEF Inv, TypeOK
      <4>3. committed'[t[2]] = at[t] + 1
        BY <4>1, <4>2
      <4> QED BY <2>b, <3>1, <4>3
    <3>2. CASE ~TakesEffect(a)
      <4>1. committed' = committed
        BY <2>a, <3>2
      <4> QED BY <4>1
    <3> QED BY <3>1, <3>2
  <2>4. at'[t] = at[t] \/ (Owns(t) /\ at'[t] = at[t] + 1)
    <3>1. CASE a = "ok"
      <4>1. at' = [at EXCEPT ![t] = @ + 1]
        BY <2>a, <3>1
      <4>2. at \in [Task -> Nat]
        BY DEF Inv, TypeOK
      <4>3. at'[t] = at[t] + 1
        BY <4>1, <4>2
      <4> QED BY <2>b, <3>1, <4>3
    <3>2. CASE a # "ok"
      <4>1. at' = at
        BY <2>a, <3>2
      <4> QED BY <4>1
    <3> QED BY <3>1, <3>2
  <2>5. Owns(t) => Ahead(t[2], at[t]) /\ Ahead(t[2], at[t] + 1)
    BY <1>0, <1>9, <2>1, AheadNext DEF Covered
  <2>6. \A g \in Group : Ahead(g, committed'[g])
    BY <2>2, <2>3, <2>5 DEF Covered
  <2>7. \A u \in Task : Owns(u)' => Owns(u)
    BY <2>2, ConstantsAssumption DEF Owns
  <2>8. \A u \in Task : Owns(u) => Ahead(u[2], at'[u])
    BY <2>2, <2>4, <2>5 DEF Covered
  <2>9. \A u \in Task : pc'[u] \in {"commit", "settle"} => u # t
    BY <2>2
  <2> QED BY <2>2, <2>6, <2>7, <2>8, <2>9 DEF Covered, Ahead, Safe, Kept, Queued, InLog, Current
<1>10. ASSUME NEW g \in Group, NEW p \in Pod, Assign(g, p) PROVE Covered'
  <2>1. /\ log' = log /\ UNCHANGED <<committed, pc, queue, batch, handled, dead>>
        /\ lost \subseteq lost'
        /\ pc[<<p, g>>] = "idle" /\ <<p, g>> \in Task
        /\ \A u \in Task : u # <<p, g>> => at'[u] = at[u] /\ (Owns(u)' => Owns(u))
    BY <1>10, ConstantsAssumption DEF Assign, Dropped, Owns, Inv, TypeOK, Task
  <2>2. \A h \in Group, k \in Int : \A m : Safe(h, m, k) => Safe(h, m, k)'
    BY <2>1 DEF Safe, Kept, Queued, InLog
  <2>3. \A h \in Group, k \in Int : Ahead(h, k) => Ahead(h, k)'
    <3> TAKE h \in Group, k \in Int
    <3> HAVE Ahead(h, k)
    <3> SUFFICES ASSUME NEW i \in DOMAIN log, i <= k, NEW m, m = log[i].msg
                 PROVE  Safe(h, m, k)'
      BY <2>1 DEF Ahead
    <3>1. Safe(h, m, k)
      BY DEF Ahead
    <3> QED BY <2>2, <3>1
  <2>4. Ahead(g, at[<<p, g>>])'
    <3>1. CASE committed[g] = -1
      <4>1. lost' = Dropped({g} \X Published)
        BY <1>10, <3>1 DEF Assign
      <4>2. \A i \in DOMAIN log : <<g, log[i].msg>> \in handled \cup dead \cup lost'
        BY <4>1 DEF Dropped, Published
      <4> QED BY <2>1, <4>2 DEF Ahead, Safe, Kept, Queued
    <3>2. CASE committed[g] # -1
      <4> SUFFICES ASSUME NEW k \in Int, k = committed[g] PROVE Ahead(g, at[<<p, g>>])'
        BY <1>0
      <4>1. at'[<<p, g>>] = k
        BY <1>10, <2>1, <3>2 DEF Assign, Inv, TypeOK
      <4>2. Ahead(g, k)'
        BY <2>3 DEF Covered
      <4> QED BY <4>1, <4>2
    <3> QED BY <3>1, <3>2
  <2>5. \A h \in Group : Ahead(h, committed[h])'
    BY <1>0, <2>1, <2>3 DEF Covered
  <2>6. \A u \in Task : Owns(u)' => Ahead(u[2], at[u])'
    <3> SUFFICES ASSUME NEW u \in Task, Owns(u)' PROVE Ahead(u[2], at[u])'
      OBVIOUS
    <3>1. CASE u = <<p, g>>
      BY <2>4, <3>1
    <3>2. CASE u # <<p, g>>
      <4> SUFFICES ASSUME NEW k \in Int, k = at[u] PROVE Ahead(u[2], at[u])'
        BY <1>0
      <4>1. Ahead(u[2], k)'
        BY <2>1, <2>3, <3>2 DEF Covered
      <4> QED BY <2>1, <3>2, <4>1
    <3> QED BY <3>1, <3>2
  <2>7. \A u \in Task : pc[u] # "idle" => u # <<p, g>>
    BY <2>1
  <2>8. \A u \in Task : pc[u] = "settle" => Safe(u[2], Current(u).msg, at[u] + 1)'
    BY <1>2, <2>1, <2>7 DEF Covered
  <2>9. \A u \in Task : pc[u] = "commit" => <<u[2], Current(u).msg>> \in handled /\ Current(u)' = Current(u)
    BY <1>2, <2>1, <2>7 DEF Covered
  <2> QED BY <2>1, <2>5, <2>6, <2>8, <2>9 DEF Covered
<1>11. ASSUME NEW p \in Pod, Crash(p) \/ Disconnect(p) PROVE Covered'
  <2>1. /\ committed' = committed /\ at' = at
        /\ \A g \in Group : owner'[g] = owner[g] \/ owner'[g] = None
        /\ \A u \in Task : pc'[u] = pc[u] \/ pc'[u] = "idle"
    BY <1>11 DEF Crash, Disconnect, Leaves
  <2> QED BY <1>4, <2>1
<1>12. ASSUME NEW g \in Group, Evict(g) PROVE Covered'
  BY <1>4, <1>12 DEF Evict, Inv, TypeOK
<1>13. ASSUME UNCHANGED <<committed, owner, at, pc>> PROVE Covered'
  BY <1>4, <1>13
<1>14. ASSUME NEW t \in Task, InvalidJson(t) \/ GiveUp(t) PROVE Covered'
  BY <1>0, <1>6, <1>14 DEF InvalidJson, GiveUp, Delivered
<1>15. ASSUME NEW t \in Task, CommitHandled(t) \/ CommitSettled(t) PROVE Covered'
  BY <1>9, <1>15 DEF CommitHandled, CommitSettled
<1> QED
  BY <1>5, <1>7, <1>8, <1>10, <1>11, <1>12, <1>13, <1>14, <1>15
     DEF Next, vars, Publish, Handler, Worker, Pop, Resend, ResendFailed, Closing,
         DisconnectProducer, Boot, Reload

(* Whatever is refused, left unanswered, evicted, shut down or crashes, in any
   order: a message that was published is, for every group, settled, waiting for
   a retry, or still to be delivered from the group's committed offset. *)
THEOREM NothingForgotten == Spec => []Accounted
<1>1. Inv /\ Covered => Accounted
  <2> SUFFICES ASSUME Inv, Covered, NEW g \in Group, NEW m \in Published
               PROVE  Kept(g, m) \/ InLog(m, committed[g])
    BY DEF Accounted
  <2>1. PICK i \in DOMAIN log : m = log[i].msg
    BY DEF Published
  <2>2. CASE i <= committed[g]
    BY <2>1, <2>2 DEF Covered, Ahead, Safe
  <2>3. CASE i > committed[g]
    BY <2>1, <2>3 DEF InLog
  <2>4. i \in Int /\ committed[g] \in Int
    BY DEF Inv, TypeOK
  <2> QED BY <2>2, <2>3, <2>4
<1> QED BY InvInit, InvStep, CoveredInit, CoveredStep, <1>1, PTL DEF Spec

-----------------------------------------------------------------------------
(* A group's offset never moves back. *)

\* The consumer that has the partition is not behind what is committed, except
\* for a commit whose answer was lost.
OwnerAhead == \A t \in Task : Owns(t) => committed[t[2]] <= at[t] + 1

\* Who is out of the group commits nothing.
LEMMA CommitFenced ==
    ASSUME Inv, NEW t \in Task, NEW next, Commit(t, next)
    PROVE  /\ \/ committed' = committed
              \/ Owns(t) /\ committed' = [committed EXCEPT ![t[2]] = at[t] + 1]
           /\ at' = at \/ at' = [at EXCEPT ![t] = @ + 1]
           /\ owner' = owner \/ owner' = [owner EXCEPT ![t[2]] = None]
<1>1. PICK a \in Answers(Owns(t)) :
        /\ committed' = IF TakesEffect(a)
                        THEN [committed EXCEPT ![t[2]] = at[t] + 1] ELSE committed
        /\ IF a = "ok"
           THEN Goto(t, "idle") /\ at' = [at EXCEPT ![t] = @ + 1] /\ UNCHANGED owner
           ELSE UNCHANGED at /\ IF next = "retry"
                                THEN Goto(t, "retry") /\ UNCHANGED owner
                                ELSE Throw(t)
  BY DEF Commit
<1>2. Owns(t) \in BOOLEAN /\ (TakesEffect(a) => Owns(t))
  BY AnswerFacts DEF Owns
<1> QED BY <1>1, <1>2 DEF Throw

\* Every step but a commit and an assignment leaves offsets and places alone,
\* and gives the partition to nobody.
LEMMA OffsetsKept ==
    ASSUME Inv, [Next]_vars,
           \A t \in Task : ~CommitHandled(t) /\ ~CommitSettled(t),
           \A g \in Group, p \in Pod : ~Assign(g, p)
    PROVE  /\ UNCHANGED <<committed, at>>
           /\ \A g \in Group : owner'[g] \in {owner[g], None}
<1> USE DEF Inv, TypeOK, topic, consumers
<1>1. ASSUME NEW m \in Message, Publish(m)
      PROVE  UNCHANGED <<committed, at>> /\ \A g \in Group : owner'[g] \in {owner[g], None}
  BY <1>1 DEF Publish
<1>2. ASSUME NEW t \in Task, Handler(t)
      PROVE  UNCHANGED <<committed, at>> /\ \A g \in Group : owner'[g] \in {owner[g], None}
  BY <1>2 DEF Handler, Process, InvalidJson, GiveUp, CheckCap, ScheduleRetry, SendToDLQ, Throw
<1>3. ASSUME NEW p \in Pod, Worker(p) \/ Closing(p) \/ Crash(p) \/ Disconnect(p)
      PROVE  UNCHANGED <<committed, at>> /\ \A g \in Group : owner'[g] \in {owner[g], None}
  BY <1>3 DEF Worker, Pop, Resend, ResendFailed, Closing, DisconnectProducer, Boot, Reload,
              Crash, Disconnect, Leaves
<1>4. ASSUME NEW g \in Group, Evict(g)
      PROVE  UNCHANGED <<committed, at>> /\ \A h \in Group : owner'[h] \in {owner[h], None}
  BY <1>4 DEF Evict
<1>5. CASE UNCHANGED vars
  BY <1>5 DEF vars
<1> QED BY <1>1, <1>2, <1>3, <1>4, <1>5 DEF Next

\* Every step keeps the owners ahead, and no offset moves back.
LEMMA OwnerAheadStep ==
    Inv /\ OwnerAhead /\ [Next]_vars
        => OwnerAhead' /\ \A g \in Group : committed'[g] >= committed[g]
<1> SUFFICES ASSUME Inv, OwnerAhead, [Next]_vars
             PROVE  OwnerAhead' /\ \A g \in Group : committed'[g] >= committed[g]
  OBVIOUS
<1> USE DEF OwnerAhead
<1>a. /\ \A g \in Group : committed[g] \in Int /\ committed[g] >= committed[g]
      /\ \A t \in Task : t[1] \in Pod /\ t[2] \in Group /\ at[t] \in Nat
      /\ \A t, u \in Task : Owns(t) /\ Owns(u) /\ t[2] = u[2] => t = u
  <2>1. \A t \in Task : t[1] \in Pod /\ t[2] \in Group /\ at[t] \in Nat
    BY TaskType DEF Inv, TypeOK
  <2>2. \A t, u \in Task : Owns(t) /\ Owns(u) /\ t[2] = u[2] => t = u
    BY DEF Owns, Task
  <2> QED BY <2>1, <2>2 DEF Inv, TypeOK
<1>b. \A u \in Task : owner'[u[2]] \in {owner[u[2]], None} => (Owns(u)' => Owns(u))
  BY <1>a, ConstantsAssumption DEF Owns
<1>1. ASSUME NEW t \in Task, CommitHandled(t) \/ CommitSettled(t)
      PROVE  OwnerAhead' /\ \A g \in Group : committed'[g] >= committed[g]
  <2>1. /\ \/ committed' = committed
           \/ Owns(t) /\ committed' = [committed EXCEPT ![t[2]] = at[t] + 1]
        /\ at' = at \/ at' = [at EXCEPT ![t] = @ + 1]
        /\ owner' = owner \/ owner' = [owner EXCEPT ![t[2]] = None]
    BY <1>1, CommitFenced DEF CommitHandled, CommitSettled
  <2>2. \A u \in Task : at'[u] \in Nat /\ at'[u] >= at[u] /\ (Owns(u)' => Owns(u))
    <3>1. \A u \in Task : at'[u] \in Nat /\ at'[u] >= at[u]
      BY <1>a, <2>1 DEF Inv, TypeOK
    <3>2. \A u \in Task : owner'[u[2]] \in {owner[u[2]], None}
      BY <1>a, <2>1 DEF Inv, TypeOK
    <3> QED BY <1>b, <3>1, <3>2
  <2>3. CASE committed' = committed
    BY <1>a, <2>2, <2>3
  <2>4. CASE Owns(t) /\ committed' = [committed EXCEPT ![t[2]] = at[t] + 1]
    <3>1. \A g \in Group : IF g = t[2] THEN committed'[g] = at[t] + 1
                                       ELSE committed'[g] = committed[g]
      BY <2>4 DEF Inv, TypeOK
    <3>2. \A u \in Task : Owns(u) /\ u[2] = t[2] => u = t
      BY <1>a, <2>4
    <3>3. committed[t[2]] <= at[t] + 1
      BY <2>4
    <3>4. \A g \in Group : committed'[g] >= committed[g]
      BY <1>a, <3>1, <3>3
    <3>5. ASSUME NEW u \in Task, Owns(u)' PROVE committed'[u[2]] <= at'[u] + 1
      <4>1. CASE u[2] = t[2]
        BY <1>a, <2>2, <3>1, <3>2, <3>5, <4>1
      <4>2. CASE u[2] # t[2]
        BY <1>a, <2>2, <3>1, <3>5, <4>2
      <4> QED BY <4>1, <4>2
    <3> QED BY <3>4, <3>5
  <2> QED BY <2>1, <2>3, <2>4
<1>2. ASSUME NEW g \in Group, NEW p \in Pod, Assign(g, p)
      PROVE  OwnerAhead' /\ \A h \in Group : committed'[h] >= committed[h]
  <2>1. committed' = committed /\ owner' = [owner EXCEPT ![g] = p]
    BY <1>2 DEF Assign, topic
  <2>2. <<p, g>> \in Task /\ <<p, g>>[1] = p /\ <<p, g>>[2] = g
    BY DEF Task
  <2>3. \A u \in Task : u # <<p, g>> => at'[u] = at[u]
    BY <1>2 DEF Assign, Inv, TypeOK
  <2>4. at'[<<p, g>>] \in Nat /\ committed[g] <= at'[<<p, g>>] + 1
    <3>1. CASE committed[g] = -1
      BY <1>a, <1>2, <2>2, <3>1 DEF Assign, Inv, TypeOK
    <3>2. CASE committed[g] # -1
      BY <1>a, <1>2, <2>2, <3>2 DEF Assign, Inv, TypeOK
    <3> QED BY <3>1, <3>2
  <2>5. \A u \in Task : Owns(u)' /\ u # <<p, g>> => Owns(u)
    <3> SUFFICES ASSUME NEW u \in Task, Owns(u)', u # <<p, g>> PROVE Owns(u)
      OBVIOUS
    <3>1. u[2] # g
      BY <2>1, TaskType DEF Inv, TypeOK, Owns
    <3> QED BY <1>a, <2>1, <3>1 DEF Inv, TypeOK, Owns
  <2>6. ASSUME NEW u \in Task, Owns(u)' PROVE committed'[u[2]] <= at'[u] + 1
    <3>1. CASE u = <<p, g>>
      BY <2>1, <2>2, <2>4, <3>1
    <3>2. CASE u # <<p, g>>
      BY <2>1, <2>3, <2>5, <2>6, <3>2
    <3> QED BY <3>1, <3>2
  <2> QED BY <1>a, <2>1, <2>6
<1>3. CASE /\ \A t \in Task : ~CommitHandled(t) /\ ~CommitSettled(t)
           /\ \A g \in Group, p \in Pod : ~Assign(g, p)
  <2>1. UNCHANGED <<committed, at>> /\ \A g \in Group : owner'[g] \in {owner[g], None}
    BY <1>3, OffsetsKept
  <2> QED BY <1>a, <1>b, <2>1
<1> QED BY <1>1, <1>2, <1>3

(* No redelivery, eviction, crash or lost answer moves a group's offset back,
   for every number of groups and pods and every bound. *)
THEOREM OffsetsOnlyForward == Spec => OffsetsForward
<1>1. Init => OwnerAhead
  BY TaskType DEF Init, OwnerAhead
<1>2. Inv /\ OwnerAhead /\ [Next]_vars => [\A g \in Group : committed'[g] >= committed[g]]_vars
  BY OwnerAheadStep
<1> QED BY <1>1, <1>2, InvInit, InvStep, OwnerAheadStep, PTL DEF Spec, OffsetsForward

-----------------------------------------------------------------------------
(* One fate, when nothing fails and one group reads.                         *)

Smooth == OneGroup /\ MaxRetries > 0 /\ faults = 0 /\ stops = 0

\* Nothing has been dropped, every pod is up, and only the consumer that has
\* the group's partition is at work.
Calm == /\ lost = {}
        /\ \A p \in Pod : phase[p] = "up" /\ stuck[p] = None
        /\ \A t \in Task : ~Owns(t) => pc[t] = "idle"

\* The consumer is where the group has committed, and gives the partition up
\* only after a first commit, for which the queue waits as well.
Steady ==
    /\ \A g \in Group : owner[g] = None => committed[g] # -1
    /\ \A t \in Task : Owns(t) => \/ committed[t[2]] = at[t]
                                  \/ committed[t[2]] = -1 /\ at[t] = 0
    /\ queue # {} => \A t \in Task :
                        Owns(t) /\ pc[t] # "settle" => committed[t[2]] # -1

\* What has been decided about a message already.
Fated(m) == \E g \in Group : <<g, m>> \in handled \cup dead

\* The entries of the topic still to be decided about: behind the one a handler
\* has only to commit.
Passed(t) == IF pc[t] \in {"commit", "settle"} THEN at[t] + 1 ELSE at[t]
Rest == {i \in DOMAIN log : /\ \A t \in Task : Owns(t) => i > Passed(t)
                            /\ \A g \in Group : owner[g] = None => i > committed[g]}

\* Such an entry is the only one of its message, and has no fate.
InTopic == \A i \in Rest : /\ ~Fated(log[i].msg)
                           /\ \A j \in Rest : log[j].msg = log[i].msg => j = i

\* A message is in the queue or in a batch once.
InQueue ==
    /\ \A e, f \in queue : e.msg = f.msg => e = f
    /\ \A p \in Pod : \A e \in batch[p], f \in queue : e.msg # f.msg
    /\ \A p, q \in Pod : \A e \in batch[p], f \in batch[q] : e.msg = f.msg => p = q /\ e = f

\* It is then not in the topic any more, and has no fate.
Waiting(e) == e \in queue \/ \E p \in Pod : e \in batch[p]
Apart == \A e \in Member : Waiting(e) =>
    /\ e.msg \in Published
    /\ ~Fated(e.msg)
    /\ \A i \in Rest : log[i].msg # e.msg

FatesOnce == /\ handled \cap dead = {}
             /\ \A m \in Message : Fated(m) => m \in Published

Once == Calm /\ Steady /\ InTopic /\ InQueue /\ Apart /\ FatesOnce

\* A step of a handler that decides about its message, in the three ways.
Decide(t) ==
    /\ Owns(t) /\ at[t] < Len(log) /\ pc[t] \notin {"commit", "settle"}
    /\ \E label \in {"commit", "settle"} : pc' = [pc EXCEPT ![t] = label]
    /\ UNCHANGED <<topic, at, owner, batch, stuck, phase, lost>>
    /\ \/ handled' = handled \cup Fate(t) /\ dead' = dead /\ queue' = queue
       \/ handled' = handled /\ dead' = dead \cup Fate(t) /\ queue' = queue
       \/ /\ handled' = handled /\ dead' = dead /\ pc' = [pc EXCEPT ![t] = "settle"]
          /\ \E e \in Member : e.msg = Current(t).msg /\ queue' = queue \cup {e}

\* A step of a handler that decides nothing.
Proceed(t) ==
    /\ Owns(t)
    /\ UNCHANGED <<log, owner, queue, workers, phase, fates>>
    /\ \/ /\ pc[t] \notin {"commit", "settle"} /\ at' = at /\ committed' = committed
          /\ \E label \in {"retry", "zadd", "idle"} : pc' = [pc EXCEPT ![t] = label]
       \/ /\ pc[t] \in {"commit", "settle"}
          /\ committed' = [committed EXCEPT ![t[2]] = at[t] + 1]
          /\ at' = [at EXCEPT ![t] = @ + 1] /\ pc' = [pc EXCEPT ![t] = "idle"]

\* A step after which the consumer starts anew: a message without a value
\* cannot be dead-lettered.
Yield(t) ==
    /\ Owns(t) /\ pc[t] \notin {"commit", "settle"} /\ committed[t[2]] # -1
    /\ pc' = [pc EXCEPT ![t] = "idle"] /\ owner' = [owner EXCEPT ![t[2]] = None]
    /\ UNCHANGED <<topic, at, queue, workers, phase, fates>>

\* A message enters the topic, from a producer or from a batch.
Enter(m) ==
    /\ \E e \in Entry : e.msg = m /\ log' = Append(log, e)
    /\ UNCHANGED <<committed, consumers, queue, stuck, phase, fates>>

\* Without a fault a call that can succeed is answered.
LEMMA AnswerOk ==
    ASSUME Inv, Smooth, faults' = 0, NEW a \in Answers(TRUE), Charge(TRUE, a)
    PROVE  a = "ok"
  BY DEF Inv, TypeOK, Smooth, Answers, Charge

\* What the handlers do then.
LEMMA SmoothHandler ==
    ASSUME Inv, Smooth, Calm, Steady, NEW t \in Task, Handler(t), faults' = 0
    PROVE  Decide(t) \/ Proceed(t) \/ Yield(t)
<1> USE TaskType DEF topic, consumers, workers, fates, bounds, Goto
<1>0. t[1] \in Pod /\ Sending(t[1]) = TRUE
  BY DEF Calm, Sending
<1>1. at[t] < Len(log) /\ Owns(t) /\ Owns(t) = TRUE
  BY DEF Calm, Inv, Working, Handler, Process, InvalidJson, Delivered, CommitHandled, CommitSettled,
         GiveUp, CheckCap, ScheduleRetry, Owns
<1>2. CASE Process(t)
  BY <1>1, <1>2 DEF Process, Delivered, Decide, Proceed
<1>3. ASSUME SendToDLQ(t), pc[t] \in {"idle", "retry"}, HasValue(Current(t)) PROVE Decide(t)
  <2>0. Sendable(t) = TRUE
    BY <1>0, <1>3 DEF Sendable, HasValue
  <2>1. PICK a \in Answers(TRUE) :
          /\ dead' = IF TakesEffect(a) THEN dead \cup Fate(t) ELSE dead
          /\ IF a = "ok" THEN Goto(t, "settle") /\ UNCHANGED owner ELSE Throw(t)
          /\ Charge(TRUE, a)
    BY <1>3, <2>0 DEF SendToDLQ
  <2>2. a = "ok" /\ TakesEffect(a)
    BY <2>1, AnswerOk DEF TakesEffect
  <2> QED BY <1>1, <1>3, <2>1, <2>2 DEF SendToDLQ, Decide
<1>a. CASE GiveUp(t) /\ ~HasValue(Current(t))
  <2>1. PICK a \in {"refused"} :
          /\ dead' = IF TakesEffect(a) THEN dead \cup Fate(t) ELSE dead
          /\ IF a = "ok" THEN Goto(t, "settle") /\ UNCHANGED owner ELSE Throw(t)
    BY <1>a DEF GiveUp, SendToDLQ, Answers, Sendable
  <2>2. dead' = dead /\ Throw(t)
    BY <2>1 DEF TakesEffect
  <2>3. ~Exhausted(t)
    BY <1>1, <1>a, CurrentType, ConstantsAssumption DEF HasValue, Exhausted, Smooth, Inv
  <2>4. queue # {}
    <3>1. Cardinality(queue) >= Cap
      BY <1>a, <2>3 DEF GiveUp, Full
    <3>2. Cardinality({}) = 0
      BY FS_EmptySet
    <3> QED BY <3>1, <3>2, ConstantsAssumption
  <2>5. pc[t] = "retry" /\ committed[t[2]] # -1
    BY <1>1, <1>a, <2>4 DEF GiveUp, Steady
  <2>6. UNCHANGED <<topic, at, queue, workers, phase, fates>>
    BY <1>a, <2>2 DEF GiveUp, SendToDLQ
  <2>7. CASE owner' = owner
    BY <1>1, <2>2, <2>5, <2>6, <2>7 DEF Throw, Proceed
  <2>8. CASE owner' = [owner EXCEPT ![t[2]] = None]
    BY <1>1, <2>2, <2>5, <2>6, <2>8 DEF Throw, Yield
  <2> QED BY <2>2, <2>7, <2>8 DEF Throw
<1>b. InvalidJson(t) => HasValue(Current(t))
  BY DEF InvalidJson, Parses
<1>4. ASSUME NEW next, Commit(t, next), pc[t] \in {"commit", "settle"} PROVE Proceed(t)
  <2>1. PICK a \in Answers(TRUE) :
          /\ committed' = IF TakesEffect(a)
                          THEN [committed EXCEPT ![t[2]] = at[t] + 1] ELSE committed
          /\ a = "ok" => Goto(t, "idle") /\ at' = [at EXCEPT ![t] = @ + 1] /\ UNCHANGED owner
          /\ Charge(TRUE, a)
    BY <1>1, <1>4 DEF Commit
  <2>2. a = "ok" /\ TakesEffect(a)
    BY <2>1, AnswerOk DEF TakesEffect
  <2> QED BY <1>1, <1>4, <2>1, <2>2 DEF Commit, Proceed
<1>5. CASE CheckCap(t)
  <2>1. PICK a \in Answers(TRUE) :
          /\ a = "ok" => Goto(t, "zadd") /\ UNCHANGED owner
          /\ Charge(TRUE, a)
    BY <1>5 DEF CheckCap
  <2>2. a = "ok"
    BY <2>1, AnswerOk
  <2> QED BY <1>1, <1>5, <2>1, <2>2 DEF CheckCap, Proceed
<1>6. CASE ScheduleRetry(t)
  <2>1. PICK a \in Answers(TRUE), now \in Second :
          /\ queue' = IF TakesEffect(a)
                      THEN queue \cup {[msg |-> Current(t).msg, count |-> Current(t).count + 1,
                                        firstSeen |-> now]}
                      ELSE queue
          /\ IF a = "ok" THEN Goto(t, "settle") /\ UNCHANGED owner ELSE Throw(t)
          /\ Charge(TRUE, a)
    BY <1>6 DEF ScheduleRetry
  <2>2. a = "ok" /\ TakesEffect(a)
    BY <2>1, AnswerOk DEF TakesEffect
  <2> DEFINE e == [msg |-> Current(t).msg, count |-> Current(t).count + 1, firstSeen |-> now]
  <2>3. e \in Member /\ e.msg = Current(t).msg
    <3>0. Current(t).msg \in Message /\ Current(t).count \in 0..MaxRetries
      BY <1>1, CurrentType DEF Inv
    <3>1. Current(t).msg \in Message /\ Current(t).count + 1 \in 0..MaxRetries
      BY <1>6, <3>0, ConstantsAssumption DEF ScheduleRetry, Inv, Working
    <3> QED BY <3>1 DEF Member
  <2>4. queue' = queue \cup {e} /\ pc' = [pc EXCEPT ![t] = "settle"] /\ owner' = owner
    BY <2>1, <2>2
  <2> HIDE DEF e
  <2> QED BY <1>1, <1>6, <2>3, <2>4 DEF ScheduleRetry, Decide
<1> QED
  BY <1>2, <1>3, <1>a, <1>b, <1>4, <1>5, <1>6
     DEF Handler, InvalidJson, Delivered, CommitHandled, CommitSettled, GiveUp

\* With one group one consumer has the partition.
LEMMA OneOwner ==
    ASSUME OneGroup, NEW t \in Task, NEW u \in Task, Owns(t), Owns(u)
    PROVE  t = u
<1>1. t[2] = u[2] /\ t[1] = u[1]
  BY TaskType DEF OneGroup, Owns
<1> QED BY <1>1, TaskType

\* It has taken no more than there is, and is at work on what is left first.
LEMMA PassedFacts ==
    ASSUME Inv, NEW t \in Task
    PROVE  /\ Passed(t) \in Nat /\ Passed(t) <= Len(log)
           /\ Rest \subseteq DOMAIN log
           /\ DOMAIN log = 1..Len(log) /\ Len(log) \in Nat
  BY DEF Inv, TypeOK, Working, Behind, Passed, Rest

\* The rest is what the consumer that has the partition has not passed.
LEMMA RestOf ==
    ASSUME OneGroup, NEW t \in Task, Owns(t)
    PROVE  Rest = {i \in DOMAIN log : i > Passed(t)}
<1>1. \A g \in Group : owner[g] # None
  BY TaskType, ConstantsAssumption DEF OneGroup, Owns
<1> QED BY <1>1, OneOwner DEF Rest

\* A decision takes the first entry of what is left.
LEMMA DecideRest ==
    ASSUME Inv, OneGroup, NEW t \in Task, Decide(t)
    PROVE  /\ at[t] + 1 \in Rest
           /\ Rest' = Rest \ {at[t] + 1}
<1>0. Owns(t)' /\ log' = log
  BY DEF Decide, Owns, topic
<1>1. Rest = {i \in DOMAIN log : i > Passed(t)} /\ Rest' = {i \in DOMAIN log : i > Passed(t)'}
  <2>1. \A u \in Task : Owns(u)' = Owns(u)
    BY DEF Decide, Owns
  <2>2. \A g \in Group : owner'[g] # None
    BY TaskType, ConstantsAssumption DEF OneGroup, Owns, Decide
  <2> QED BY <1>0, <2>1, <2>2, RestOf, OneOwner DEF Decide, Rest
<1>2. Passed(t) = at[t] /\ Passed(t)' = at[t] + 1
  BY DEF Decide, Passed, Inv, TypeOK
<1>3. at[t] \in Nat /\ at[t] < Len(log) /\ DOMAIN log = 1..Len(log) /\ Len(log) \in Nat
  BY DEF Decide, Inv, TypeOK
<1> QED BY <1>1, <1>2, <1>3

\* A decision about an entry keeps all of it.
LEMMA DecideOnce ==
    ASSUME Inv, OneGroup, Once, NEW t \in Task, Decide(t)
    PROVE  Once'
<1> DEFINE m == Current(t).msg
<1>1. /\ at[t] + 1 \in Rest /\ m = log[at[t] + 1].msg
      /\ Rest' = Rest \ {at[t] + 1}
      /\ log' = log /\ committed' = committed /\ Published' = Published
  BY DecideRest DEF Decide, Current, Published, topic
<1>2. /\ ~Fated(m)
      /\ \A i \in Rest : log[i].msg = m => i = at[t] + 1
      /\ m \in Message
      /\ m \in Published
      /\ \A e \in Member : Waiting(e) => e.msg # m
  <2>1. ~Fated(m) /\ \A i \in Rest : log[i].msg = m => i = at[t] + 1
    BY <1>1 DEF Once, InTopic
  <2>2. m \in Message
    BY CurrentType DEF Decide, Inv
  <2>3. m \in Published
    BY <1>1 DEF Published, Rest
  <2>4. \A e \in Member : Waiting(e) => e.msg # m
    BY <1>1 DEF Once, Apart
  <2> QED BY <2>1, <2>2, <2>3, <2>4
<1> HIDE DEF m
<1>3. Fate(t) = {<<t[2], m>>} /\ t[2] \in Group
  BY TaskType DEF Fate, m
<1>4. /\ batch' = batch /\ stuck' = stuck /\ phase' = phase /\ lost' = lost /\ owner' = owner
      /\ \/ handled' = handled \cup Fate(t) /\ dead' = dead /\ queue' = queue
         \/ handled' = handled /\ dead' = dead \cup Fate(t) /\ queue' = queue
         \/ /\ handled' = handled /\ dead' = dead
            /\ \E e \in Member : e.msg = m /\ queue' = queue \cup {e}
  BY DEF Decide, m
<1>5. /\ \A x : Fated(x)' => Fated(x) \/ x = m
      /\ queue' # queue => \A x : Fated(x)' => Fated(x)
  BY <1>3, <1>4 DEF Fated
<1>6. Calm'
  BY <1>4 DEF Once, Calm, Owns, Decide, Inv, TypeOK
<1>b. Steady'
  <2>1. \A u \in Task : Owns(u)' = Owns(u) /\ (Owns(u) => u = t)
    BY OneOwner DEF Decide, Owns
  <2>2. at' = at /\ queue' # queue => pc'[t] = "settle"
    BY DEF Decide, Inv, TypeOK
  <2>3. pc'[t] # "settle" => pc[t] # "settle"
    BY DEF Decide
  <2> QED BY <1>1, <1>4, <2>1, <2>2, <2>3 DEF Once, Steady, Decide
<1>7. InTopic'
  BY <1>1, <1>2, <1>5 DEF Once, InTopic
<1>8. InQueue'
  <2>1. CASE queue' = queue
    BY <1>4, <2>1 DEF Once, InQueue
  <2>2. ASSUME NEW e \in Member, e.msg = m, queue' = queue \cup {e} PROVE InQueue'
    <3>1. \A f \in queue : f \in Member /\ f.msg # e.msg
      BY <1>2, <2>2 DEF Inv, TypeOK, Waiting
    <3>2. \A p \in Pod : \A f \in batch[p] : f \in Member /\ f.msg # e.msg
      BY <1>2, <2>2 DEF Inv, TypeOK, Waiting
    <3> QED BY <1>4, <2>2, <3>1, <3>2 DEF Once, InQueue
  <2> QED BY <1>4, <2>1, <2>2
<1>9. Apart'
  <2> SUFFICES ASSUME NEW e \in Member, Waiting(e)'
               PROVE  /\ e.msg \in Published
                      /\ ~Fated(e.msg)'
                      /\ \A i \in Rest' : log[i].msg # e.msg
    BY <1>1 DEF Apart
  <2>1. CASE Waiting(e)
    BY <1>1, <1>2, <1>5, <2>1 DEF Once, Apart
  <2>2. CASE ~Waiting(e)
    <3>1. e.msg = m /\ queue' # queue
      BY <1>4, <2>2 DEF Waiting
    <3> QED BY <1>1, <1>2, <1>5, <3>1
  <2> QED BY <2>1, <2>2
<1>10. FatesOnce'
  <2>1. <<t[2], m>> \notin handled \cup dead
    BY <1>2, <1>3 DEF Fated
  <2>2. handled' \cap dead' = {}
    BY <1>3, <1>4, <2>1 DEF Once, FatesOnce
  <2> QED BY <1>1, <1>2, <1>5, <2>2 DEF Once, FatesOnce
<1> QED BY <1>6, <1>b, <1>7, <1>8, <1>9, <1>10 DEF Once

\* A step of a handler that decides nothing keeps all of it.
LEMMA ProceedOnce ==
    ASSUME Inv, OneGroup, Once, NEW t \in Task, Proceed(t)
    PROVE  Once'
<1> USE DEF workers, fates
<1>1. log' = log /\ Published' = Published
  BY DEF Proceed, Published
<1>2. \A u \in Task : Owns(u)' = Owns(u) /\ (Owns(u) => u = t)
  BY OneOwner DEF Proceed, Owns
<1>3. Passed(t)' = Passed(t)
  BY DEF Proceed, Passed, Inv, TypeOK
<1>4. Rest' = Rest
  <2>1. \A g \in Group : owner'[g] = owner[g] /\ owner[g] # None
    BY TaskType, ConstantsAssumption DEF OneGroup, Owns, Proceed
  <2> QED BY <1>1, <1>2, <1>3, <2>1 DEF Rest
<1>5. \A x : Fated(x)' = Fated(x)
  BY DEF Proceed, Fated
<1>6. Calm'
  BY <1>2 DEF Once, Calm, Proceed, Inv, TypeOK
<1>a. Steady'
  <2>0. \A g \in Group : owner'[g] = owner[g] /\ owner[g] # None
    BY TaskType, ConstantsAssumption DEF OneGroup, Owns, Proceed
  <2>1. CASE pc[t] \notin {"commit", "settle"}
    BY <1>2, <2>0, <2>1 DEF Once, Steady, Proceed
  <2>2. CASE pc[t] \in {"commit", "settle"}
    BY <1>2, <2>0, <2>2, TaskType DEF Proceed, Steady, Inv, TypeOK
  <2> QED BY <2>1, <2>2
<1>7. InTopic' /\ FatesOnce'
  BY <1>1, <1>4, <1>5 DEF Once, InTopic, FatesOnce, Proceed
<1>8. InQueue' /\ Apart'
  BY <1>1, <1>4, <1>5 DEF Once, InQueue, Apart, Waiting, Proceed
<1> QED BY <1>6, <1>a, <1>7, <1>8 DEF Once

\* So do giving the partition up and taking it.
LEMMA YieldOnce ==
    ASSUME Inv, OneGroup, Once, NEW t \in Task, Yield(t)
    PROVE  Once'
<1> USE DEF Yield, topic, workers, fates
<1>1. Published' = Published /\ \A x : Fated(x)' = Fated(x)
  BY DEF Published, Fated
<1>2. /\ \A g \in Group : g = t[2] /\ owner'[g] = None
      /\ \A u \in Task : ~Owns(u)'
  BY TaskType, ConstantsAssumption DEF OneGroup, Owns, Inv, TypeOK
<1>3. Rest' = Rest
  <2>1. Passed(t) = committed[t[2]]
    BY DEF Once, Steady, Passed
  <2>2. Rest = {i \in DOMAIN log : i > Passed(t)}
    BY RestOf
  <2>3. Rest' = {i \in DOMAIN log : i > committed[t[2]]}
    BY <1>2, TaskType DEF Rest
  <2> QED BY <2>1, <2>2, <2>3
<1>4. Calm'
  <2>1. \A u \in Task : pc'[u] = "idle"
    BY OneOwner DEF Once, Calm, Inv, TypeOK
  <2> QED BY <2>1 DEF Once, Calm
<1>5. Steady'
  BY <1>2 DEF Once, Steady
<1>6. InTopic' /\ FatesOnce'
  BY <1>1, <1>3 DEF Once, InTopic, FatesOnce
<1>7. InQueue' /\ Apart'
  BY <1>1, <1>3 DEF Once, InQueue, Apart, Waiting
<1> QED BY <1>4, <1>5, <1>6, <1>7 DEF Once

LEMMA AssignOnce ==
    ASSUME Inv, OneGroup, Once, NEW g \in Group, NEW p \in Pod, Assign(g, p)
    PROVE  Once'
<1> USE DEF topic, workers
<1>0. /\ <<p, g>> \in Task /\ <<p, g>>[1] = p /\ <<p, g>>[2] = g
      /\ \A h \in Group : h = g
  BY DEF Task, OneGroup
<1>1. /\ committed[g] # -1 /\ owner[g] = None
      /\ owner' = [owner EXCEPT ![g] = p]
      /\ at' = [at EXCEPT ![<<p, g>>] = committed[g]]
      /\ UNCHANGED <<log, committed, pc, queue, batch, stuck, phase, handled, dead, lost>>
  BY DEF Assign, Once, Steady
<1>2. Published' = Published /\ \A x : Fated(x)' = Fated(x)
  BY <1>1 DEF Published, Fated
<1>3. /\ \A u \in Task : ~Owns(u)
      /\ \A u \in Task : Owns(u)' => u = <<p, g>>
      /\ Owns(<<p, g>>)'
      /\ \A h \in Group : owner'[h] # None
      /\ at'[<<p, g>>] = committed[g] /\ pc[<<p, g>>] = "idle"
  BY <1>0, <1>1, TaskType, ConstantsAssumption DEF Owns, Inv, TypeOK, Assign
<1>4. Rest' = Rest
  <2>1. Rest = {i \in DOMAIN log : i > committed[g]}
    BY <1>0, <1>1, <1>3 DEF Rest
  <2>2. Passed(<<p, g>>)' = committed[g]
    BY <1>1, <1>3 DEF Passed
  <2>3. Rest' = {i \in DOMAIN log : i > committed[g]}
    BY <1>0, <1>1, <1>3, <2>2 DEF Rest
  <2> QED BY <2>1, <2>3
<1>5. Calm'
  BY <1>1, <1>3 DEF Once, Calm
<1>6. Steady'
  BY <1>0, <1>1, <1>3 DEF Steady
<1>7. InTopic' /\ FatesOnce'
  BY <1>1, <1>2, <1>4 DEF Once, InTopic, FatesOnce
<1>8. InQueue' /\ Apart'
  BY <1>1, <1>2, <1>4 DEF Once, InQueue, Apart, Waiting
<1> QED BY <1>5, <1>6, <1>7, <1>8 DEF Once

\* A message that is nowhere enters the topic, where it is the last to decide.
LEMMA EnterRest ==
    ASSUME Inv, NEW m \in Message, Enter(m)
    PROVE  /\ \A i \in Rest' : \/ i \in Rest /\ log'[i] = log[i]
                               \/ i = Len(log) + 1 /\ log'[i].msg = m
           /\ Published' = Published \cup {m}
<1>1. PICK e \in Entry : e.msg = m /\ log' = Append(log, e)
  BY DEF Enter
<1>2. /\ log' \in Seq(Entry) /\ Len(log') = Len(log) + 1
      /\ \A i \in 1..Len(log) : log'[i] = log[i]
      /\ log'[Len(log) + 1] = e
  BY <1>1, AppendFacts DEF Inv
<1>3. /\ Len(log) \in Nat /\ DOMAIN log = 1..Len(log)
      /\ DOMAIN log' = 1..(Len(log) + 1)
  BY <1>2 DEF Inv, TypeOK
<1>4. \A i \in DOMAIN log' : \/ i \in DOMAIN log /\ log'[i] = log[i]
                             \/ i = Len(log) + 1 /\ log'[i].msg = m
  BY <1>1, <1>2, <1>3
<1>5. \A u \in Task : Owns(u)' = Owns(u) /\ Passed(u)' = Passed(u)
  BY DEF Enter, Owns, Passed, consumers
<1>6. \A i \in Rest' : i \in DOMAIN log => i \in Rest
  BY <1>5 DEF Rest, Enter, consumers
<1>7. Published' = Published \cup {m}
  <2>1. \A i \in DOMAIN log : i \in DOMAIN log' /\ log'[i] = log[i]
    BY <1>2, <1>3
  <2>2. Len(log) + 1 \in DOMAIN log' /\ log'[Len(log) + 1].msg = m
    BY <1>1, <1>2, <1>3
  <2> QED BY <1>4, <2>1, <2>2 DEF Published
<1> QED BY <1>4, <1>6, <1>7 DEF Rest

\* It keeps all of it if it has no fate and no other copy.
LEMMA EnterOnce ==
    ASSUME Inv, OneGroup, Once, NEW m \in Message, Enter(m),
           ~Fated(m), \A i \in Rest : log[i].msg # m,
           \/ batch' = batch /\ m \notin Published
           \/ \E p \in Pod : \E e \in batch[p] : e.msg = m /\ batch' = [batch EXCEPT ![p] = @ \ {e}]
    PROVE  Once'
<1> USE DEF Enter, consumers, fates
<1>1. /\ \A i \in Rest' : \/ i \in Rest /\ log'[i] = log[i]
                          \/ i = Len(log) + 1 /\ log'[i].msg = m
      /\ Published' = Published \cup {m}
  BY EnterRest
<1>2. \A x : Fated(x)' = Fated(x)
  BY DEF Fated
<1>3. Calm' /\ Steady'
  BY DEF Once, Calm, Steady, Owns
<1>4. InTopic'
  BY <1>1, <1>2 DEF Once, InTopic
<1>5. \A q \in Pod : batch'[q] \subseteq batch[q] /\ batch[q] \subseteq Member
  BY DEF Inv, TypeOK
<1>6. InQueue'
  BY <1>5 DEF Once, InQueue
<1>7. Apart'
  <2> SUFFICES ASSUME NEW f \in Member, Waiting(f)'
               PROVE  /\ f.msg \in Published'
                      /\ ~Fated(f.msg)'
                      /\ \A i \in Rest' : log'[i].msg # f.msg
    BY DEF Apart
  <2>1. Waiting(f)
    BY <1>5 DEF Waiting
  <2>2. f.msg \in Published /\ ~Fated(f.msg) /\ \A i \in Rest : log[i].msg # f.msg
    BY <2>1 DEF Once, Apart
  <2>3. f.msg # m
    <3>1. CASE batch' = batch /\ m \notin Published
      BY <2>2, <3>1
    <3>2. ASSUME NEW p \in Pod, NEW e \in batch[p], e.msg = m,
                 batch' = [batch EXCEPT ![p] = @ \ {e}]
          PROVE  f.msg # m
      <4>1. batch'[p] = batch[p] \ {e} /\ \A q \in Pod : q # p => batch'[q] = batch[q]
        BY <3>2 DEF Inv, TypeOK
      <4>2. CASE f \in queue
        BY <3>2, <4>2 DEF Once, InQueue
      <4>3. ASSUME NEW q \in Pod, f \in batch'[q] PROVE f.msg # m
        BY <1>5, <3>2, <4>1, <4>3 DEF Once, InQueue
      <4> QED BY <4>2, <4>3 DEF Waiting
    <3> QED BY <3>1, <3>2
  <2> QED BY <1>1, <1>2, <2>2, <2>3
<1>8. FatesOnce'
  BY <1>1, <1>2 DEF Once, FatesOnce
<1> QED BY <1>3, <1>4, <1>6, <1>7, <1>8 DEF Once

\* Taking members out of the queue keeps all of it.
LEMMA PopOnce ==
    ASSUME Inv, OneGroup, Once, NEW p \in Pod, NEW popped \in SUBSET queue,
           batch[p] = {}, queue' = queue \ popped, batch' = [batch EXCEPT ![p] = popped],
           UNCHANGED <<topic, consumers, stuck, phase, fates>>
    PROVE  Once'
<1> USE DEF topic, consumers, fates
<1>1. Published' = Published /\ Rest' = Rest
  BY DEF Published, Rest, Owns, Passed
<1>2. \A x : Fated(x)' = Fated(x)
  BY DEF Fated
<1>3. Calm' /\ Steady' /\ InTopic' /\ FatesOnce'
  BY <1>1, <1>2 DEF Once, Calm, Steady, Owns, InTopic, FatesOnce
<1>4. /\ batch'[p] = popped /\ popped \subseteq queue
      /\ \A q \in Pod : q # p => batch'[q] = batch[q]
  BY DEF Inv, TypeOK
<1>5. InQueue'
  BY <1>4 DEF Once, InQueue
<1>6. \A e : Waiting(e)' => Waiting(e)
  BY <1>4 DEF Waiting
<1>7. Apart'
  BY <1>1, <1>2, <1>6 DEF Once, Apart
<1> QED BY <1>3, <1>5, <1>7 DEF Once

\* What is left of an orderly past.
OnceInv == Smooth => Once

\* Every step that is no fault and no stop keeps all of it.
LEMMA OnceStep == Inv /\ OnceInv /\ [Next]_vars => OnceInv'
<1> SUFFICES ASSUME Inv, OnceInv, [Next]_vars, Smooth' PROVE Once'
  BY DEF OnceInv
<1>0. Smooth
  <2> USE DEF Inv, TypeOK, Smooth, bounds
  <2>1. OneGroup
    BY DEF OneGroup
  <2>a. \A able, a : Charge(able, a) => faults = 0
    BY DEF Charge
  <2>2. ASSUME NEW t \in Task, Handler(t) PROVE Smooth
    <3>1. CASE Process(t)
      BY <2>1, <3>1 DEF Process
    <3>2. ASSUME SendToDLQ(t) PROVE Smooth
      BY <2>1, <2>a, <3>2 DEF SendToDLQ
    <3>3. ASSUME NEW next, Commit(t, next) PROVE Smooth
      BY <2>1, <2>a, <3>3 DEF Commit
    <3>4. CASE CheckCap(t)
      BY <2>1, <2>a, <3>4 DEF CheckCap
    <3>5. CASE ScheduleRetry(t)
      BY <2>1, <2>a, <3>5 DEF ScheduleRetry
    <3> QED BY <2>2, <3>1, <3>2, <3>3, <3>4, <3>5
               DEF Handler, InvalidJson, CommitHandled, CommitSettled, GiveUp
  <2>3. ASSUME NEW p \in Pod, Worker(p) PROVE Smooth
    <3>1. CASE Pop(p)
      BY <2>1, <2>a, <3>1 DEF Pop
    <3>2. CASE Resend(p)
      BY <2>1, <2>a, <3>2 DEF Resend
    <3>3. CASE ResendFailed(p)
      BY <2>1, <2>a, <3>3 DEF ResendFailed
    <3> QED BY <2>3, <3>1, <3>2, <3>3 DEF Worker
  <2>4. ASSUME NEW p \in Pod, Closing(p) \/ Crash(p) \/ Disconnect(p) PROVE Smooth
    BY <2>1, <2>4 DEF Closing, DisconnectProducer, Boot, Reload, Crash, Disconnect, Stops
  <2>5. ASSUME NEW m \in Message, Publish(m) PROVE Smooth
    BY <2>1, <2>5 DEF Publish
  <2>6. ASSUME NEW g \in Group, Evict(g) \/ \E p \in Pod : Assign(g, p) PROVE Smooth
    <3>1. CASE Evict(g)
      BY <2>1, <3>1 DEF Evict, Stops
    <3>2. ASSUME NEW p \in Pod, Assign(g, p) PROVE Smooth
      BY <2>1, <3>2 DEF Assign
    <3> QED BY <2>6, <3>1, <3>2
  <2>7. CASE UNCHANGED vars
    BY <2>1, <2>7 DEF vars
  <2> QED BY <2>2, <2>3, <2>4, <2>5, <2>6, <2>7 DEF Next
<1>1. Once /\ Calm /\ OneGroup /\ faults' = 0 /\ stops' = 0
  BY <1>0 DEF OnceInv, Once, Smooth
<1>2. ASSUME NEW m \in Message, Publish(m) PROVE Once'
  <2>1. Enter(m) /\ batch' = batch /\ m \notin Published
    <3>1. [msg |-> m, count |-> 0] \in Entry
      BY ConstantsAssumption DEF Entry
    <3> QED BY <1>2, <3>1 DEF Publish, Enter, workers
  <2>2. ~Fated(m) /\ \A i \in Rest : log[i].msg # m
    BY <1>1, <2>1 DEF Once, FatesOnce, Rest, Published
  <2> QED BY <1>1, <2>1, <2>2, EnterOnce
<1>3. ASSUME NEW t \in Task, Handler(t) PROVE Once'
  BY <1>0, <1>1, <1>3, SmoothHandler, DecideOnce, ProceedOnce, YieldOnce DEF Once
<1>4. ASSUME NEW p \in Pod, Worker(p) PROVE Once'
  <2>0. Sending(p) = TRUE /\ stuck[p] = None
    BY <1>1 DEF Calm, Sending
  <2>1. CASE Pop(p)
    <3>1. PICK a \in Answers(TRUE), popped \in SUBSET queue :
            /\ queue' = IF TakesEffect(a) THEN queue \ popped ELSE queue
            /\ batch' = IF a = "ok" THEN [batch EXCEPT ![p] = popped] ELSE batch
            /\ lost' = IF a = "unanswered" THEN Dropped(ForAll(popped)) ELSE lost
            /\ Charge(TRUE, a)
      BY <2>1 DEF Pop
    <3>2. a = "ok" /\ TakesEffect(a)
      BY <1>0, <1>1, <3>1, AnswerOk DEF TakesEffect
    <3>3. /\ batch[p] = {} /\ queue' = queue \ popped /\ batch' = [batch EXCEPT ![p] = popped]
          /\ UNCHANGED <<topic, consumers, stuck, phase, fates>>
      BY <2>1, <3>1, <3>2 DEF Pop, topic, consumers, fates
    <3> QED BY <1>1, <3>3, PopOnce
  <2>2. CASE Resend(p)
    <3>1. PICK e \in batch[p], a \in Answers(TRUE) :
            /\ log' = IF TakesEffect(a)
                      THEN Append(log, [msg |-> e.msg, count |-> e.count]) ELSE log
            /\ a = "ok" => batch' = [batch EXCEPT ![p] = @ \ {e}] /\ UNCHANGED stuck
            /\ Charge(TRUE, a)
      BY <2>0, <2>2 DEF Resend
    <3>2. a = "ok" /\ TakesEffect(a)
      BY <1>0, <1>1, <3>1, AnswerOk DEF TakesEffect
    <3>3. e \in Member /\ Waiting(e) /\ e.msg \in Message
      BY DEF Inv, TypeOK, Waiting, Member
    <3>4. [msg |-> e.msg, count |-> e.count] \in Entry
      BY <3>3 DEF Member, Entry
    <3>5. Enter(e.msg) /\ batch' = [batch EXCEPT ![p] = @ \ {e}]
      BY <2>2, <3>1, <3>2, <3>4 DEF Resend, Enter, topic, consumers, fates
    <3>6. ~Fated(e.msg) /\ \A i \in Rest : log[i].msg # e.msg
      BY <1>1, <3>3 DEF Once, Apart
    <3> QED BY <1>1, <3>3, <3>5, <3>6, EnterOnce
  <2>3. CASE ResendFailed(p)
    BY <2>0, <2>3 DEF ResendFailed
  <2> QED BY <1>4, <2>1, <2>2, <2>3 DEF Worker
<1>5. ASSUME NEW p \in Pod, Closing(p) \/ Crash(p) \/ Disconnect(p) PROVE FALSE
  BY <1>0, <1>1, <1>5 DEF Closing, DisconnectProducer, Boot, Reload, Crash, Disconnect, Stops,
     Calm, Smooth
<1>6. ASSUME NEW g \in Group, Evict(g) \/ \E p \in Pod : Assign(g, p) PROVE Once'
  <2>1. CASE Evict(g)
    BY <1>0, <1>1, <2>1 DEF Evict, Stops, Smooth
  <2>2. ASSUME NEW p \in Pod, Assign(g, p) PROVE Once'
    BY <1>1, <2>2, AssignOnce
  <2> QED BY <1>6, <2>1, <2>2
<1>7. CASE UNCHANGED vars
  <2> USE <1>7 DEF vars, topic, consumers, workers, fates
  <2>1. Published' = Published /\ Rest' = Rest /\ \A x : Fated(x)' = Fated(x)
    BY DEF Published, Rest, Passed, Owns, Fated
  <2>2. Calm' /\ Steady' /\ InTopic' /\ InQueue'
    BY <1>1, <2>1 DEF Once, Calm, Steady, Owns, InTopic, InQueue
  <2>3. Apart' /\ FatesOnce'
    BY <1>1, <2>1 DEF Once, Apart, Waiting, FatesOnce
  <2> QED BY <2>2, <2>3 DEF Once
<1> QED BY <1>2, <1>3, <1>4, <1>5, <1>6, <1>7 DEF Next

(* With one group, at least one retry allowed, no fault and no stop, no message
   is dropped and none is both handled and dead-lettered, for every number of messages, pods and retries:
   there is never a second copy of it to be decided about. *)
THEOREM FateDecidedOnce == Spec => []OneFate
<1>1. Init => OnceInv
  <2> SUFFICES ASSUME Init PROVE Once
    BY DEF OnceInv
  <2>1. log = <<>> /\ DOMAIN log = {} /\ Published = {}
    BY DEF Init, Published
  <2>2. Calm /\ Steady
    BY ConstantsAssumption, TaskType DEF Init, Calm, Steady
  <2>3. \A m : ~Fated(m)
    BY DEF Init, Fated
  <2> QED BY <2>1, <2>2, <2>3 DEF Init, Once, InTopic, InQueue, Apart, FatesOnce, Rest, Waiting
<1>2. OnceInv => OneFate
  BY DEF OnceInv, OneFate, Smooth, Once, Calm, FatesOnce
<1> QED BY <1>1, <1>2, InvInit, InvStep, OnceStep, PTL DEF Spec

-----------------------------------------------------------------------------
(* The queue, the workers and the offsets implement AtLeastOnce. *)

\* What waits for a retry was published.
Known ==
    /\ \A e \in queue : e.msg \in Published
    /\ \A p \in Pod : \A e \in batch[p] : e.msg \in Published
    /\ \A p \in Pod : stuck[p] # None => stuck[p].msg \in Published

\* Messages, and the pairs that are owed, one by one.
LEMMA PublishedType == ASSUME TypeOK PROVE Published \subseteq Message
<1>1. \A i \in DOMAIN log : log[i] \in Entry
  BY DEF TypeOK
<1> QED BY <1>1 DEF Published, Entry

LEMMA PublishedCurrent ==
    ASSUME TypeOK, NEW t \in Task, at[t] < Len(log)
    PROVE  Current(t).msg \in Published
<1>1. at[t] + 1 \in DOMAIN log
  BY DEF TypeOK
<1> QED BY <1>1 DEF Published, Current

LEMMA OwedPairs ==
    /\ \A g, m : <<g, m>> \in Owed
            <=> g \in Group /\ m \in Published /\ (Queued(m) \/ InLog(m, committed[g]))
    /\ \A x \in Owed : x = <<x[1], x[2]>>
  BY DEF Owed

LEMMA OwedPairsNext ==
    /\ \A g, m : <<g, m>> \in Owed'
            <=> g \in Group /\ m \in Published' /\ (Queued(m)' \/ InLog(m, committed[g])')
    /\ \A x \in Owed' : x = <<x[1], x[2]>>
  BY DEF Owed

\* What is published stays so, and a message is published only by its producer:
\* what a worker sends again has been published before.
LEMMA PublishedGrows ==
    ASSUME Inv, Known, [Next]_vars
    PROVE  /\ Published \subseteq Published'
           /\ (\A m \in Message : ~Publish(m)) => Published' = Published
<1>1. Published \subseteq Published'
  BY LogGrows DEF Published
<1>2. ASSUME \A m \in Message : ~Publish(m)
      PROVE  log' = log \/ \E n \in Entry : n.msg \in Published /\ log' = Append(log, n)
  <2>1. ASSUME NEW p \in Pod, Resend(p)
        PROVE  log' = log \/ \E n \in Entry : n.msg \in Published /\ log' = Append(log, n)
    <3>1. PICK n \in batch[p] : log' = log \/ log' = Append(log, [msg |-> n.msg, count |-> n.count])
      BY <2>1 DEF Resend
    <3>2. n.msg \in Published /\ n \in Member
      BY DEF Known, Inv, TypeOK
    <3> DEFINE e == [msg |-> n.msg, count |-> n.count]
    <3>3. e \in Entry /\ e.msg = n.msg
      BY <3>2 DEF Member, Entry
    <3> QED BY <3>1, <3>2, <3>3
  <2>2. ASSUME \A p \in Pod : ~Resend(p)
        PROVE  log' = log
    BY <1>2, <2>2
       DEF Next, vars, topic, Handler, Process, InvalidJson, GiveUp, SendToDLQ, CommitHandled,
           CommitSettled, Commit, CheckCap, ScheduleRetry, Worker, Pop, ResendFailed, Closing,
           DisconnectProducer, Boot, Reload, Crash, Disconnect, Evict, Assign
  <2> QED BY <2>1, <2>2
<1>3. ASSUME NEW n \in Entry, n.msg \in Published, log' = Append(log, n)
      PROVE  Published' = Published
  <2>1. Len(log') = Len(log) + 1 /\ log'[Len(log) + 1] = n
        /\ \A i \in 1..Len(log) : log'[i] = log[i]
    BY <1>3, AppendFacts DEF Inv
  <2>2. ASSUME NEW i \in DOMAIN log' PROVE log'[i].msg \in Published
    <3>1. i \in 1..Len(log) \/ i = Len(log) + 1
      BY <2>1, LogGrows
    <3>2. ASSUME i \in 1..Len(log) PROVE log'[i].msg \in Published
      BY <2>1, <3>2, LogGrows DEF Published
    <3> QED BY <1>3, <2>1, <3>1, <3>2
  <2> QED BY <1>1, <2>2 DEF Published
<1>4. ASSUME log' = log PROVE Published' = Published
  BY <1>4 DEF Published
<1> QED BY <1>1, <1>2, <1>3, <1>4

LEMMA KnownStep ==
    ASSUME Inv, Known, [Next]_vars
    PROVE  Known'
<1> USE DEF Known, topic, consumers, workers, fates, bounds
<1>1. Published \subseteq Published'
  BY PublishedGrows
<1>2. CASE UNCHANGED <<queue, batch, stuck>>
  BY <1>1, <1>2
<1>3. ASSUME NEW t \in Task, ScheduleRetry(t) PROVE Known'
  <2>1. Current(t).msg \in Published
    BY <1>3, PublishedCurrent DEF ScheduleRetry, Inv, Working
  <2>2. \A e \in queue' : e \in queue \/ e.msg = Current(t).msg
    BY <1>3 DEF ScheduleRetry
  <2> QED BY <1>1, <1>3, <2>1, <2>2 DEF ScheduleRetry
<1>4. ASSUME NEW p \in Pod, Pop(p) PROVE Known'
  <2>1. queue' \subseteq queue /\ stuck' = stuck
        /\ (batch' = batch \/ \E S \in SUBSET queue : batch' = [batch EXCEPT ![p] = S])
    BY <1>4 DEF Pop
  <2>2. \A q \in Pod : batch'[q] \subseteq batch[q] \cup queue
    BY <2>1 DEF Inv, TypeOK
  <2> QED BY <1>1, <2>1, <2>2
<1>5. ASSUME NEW p \in Pod, Resend(p) PROVE Known'
  <2>1. PICK n \in batch[p] :
            \/ batch' = [batch EXCEPT ![p] = @ \ {n}] /\ stuck' = stuck
            \/ stuck' = [stuck EXCEPT ![p] = n] /\ batch' = batch
    BY <1>5 DEF Resend
  <2>2. queue' = queue /\ \A q \in Pod : batch'[q] \subseteq batch[q]
    BY <1>5, <2>1 DEF Resend, Inv, TypeOK
  <2>3. \A q \in Pod : stuck'[q] = stuck[q] \/ stuck'[q] = n
    BY <2>1 DEF Inv, TypeOK
  <2> QED BY <1>1, <2>2, <2>3
<1>6. ASSUME NEW p \in Pod, queue' = queue, stuck' = [stuck EXCEPT ![p] = None],
             \E S \in SUBSET batch[p] : batch' = [batch EXCEPT ![p] = S]
      PROVE  Known'
  <2>2. \A q \in Pod : batch'[q] \subseteq batch[q] /\ stuck'[q] \in {stuck[q], None}
    BY <1>6 DEF Inv, TypeOK
  <2> QED BY <1>1, <1>6, <2>2
<1>7. CASE \E t \in Task : Handler(t) /\ ~ScheduleRetry(t)
  BY <1>2, <1>7 DEF Handler, Process, InvalidJson, GiveUp, SendToDLQ, CommitHandled,
                    CommitSettled, Commit, CheckCap
<1>8. CASE \/ \E m \in Message : Publish(m)
           \/ \E p \in Pod : DisconnectProducer(p) \/ Reload(p) \/ Disconnect(p)
           \/ \E g \in Group : Evict(g) \/ \E p \in Pod : Assign(g, p)
           \/ UNCHANGED vars
  <2>1. UNCHANGED <<queue, batch, stuck>>
    BY <1>8 DEF vars, Publish, DisconnectProducer, Reload, Disconnect, Evict, Assign
  <2> QED BY <1>2, <2>1
<1>9. ASSUME NEW p \in Pod, Boot(p) \/ Crash(p) PROVE Known'
  <2>1. queue' = queue /\ stuck' = [stuck EXCEPT ![p] = None]
        /\ batch' = [batch EXCEPT ![p] = {}]
    BY <1>9 DEF Boot, Crash, ForgetBatch
  <2> QED BY <1>6, <2>1
<1>10. ASSUME NEW p \in Pod, ResendFailed(p) PROVE Known'
  <2>1. /\ queue' = queue /\ stuck' = [stuck EXCEPT ![p] = None]
        /\ \E S \in SUBSET batch[p] : batch' = [batch EXCEPT ![p] = S]
    BY <1>10 DEF ResendFailed
  <2> QED BY <1>6, <2>1
<1>11. ASSUME NEW t \in Task, Handler(t) PROVE Known'
  BY <1>3, <1>7, <1>11
<1> QED BY <1>4, <1>5, <1>8, <1>9, <1>10, <1>11 DEF Next, Worker, Closing

\* Nobody is owed more, when nothing joins what waits and no offset moves back.
LEMMA OwedShrinks ==
    ASSUME Inv, UNCHANGED log, \A m : Queued(m)' => Queued(m),
           \A g \in Group : committed'[g] \in Int /\ committed'[g] >= committed[g]
    PROVE  Owed' \subseteq Owed
<1>1. Published' = Published
  BY DEF Published
<1>2. ASSUME NEW g \in Group, NEW m, InLog(m, committed[g])' PROVE InLog(m, committed[g])
  <2>1. PICK i \in DOMAIN log : i > committed'[g] /\ log[i].msg = m
    BY <1>2 DEF InLog
  <2>2. i \in Int /\ committed[g] \in Int
    BY DEF Inv, TypeOK
  <2>3. i > committed[g]
    BY <2>1, <2>2
  <2> QED BY <2>1, <2>3 DEF InLog
<1>3. ASSUME NEW x \in Owed' PROVE x \in Owed
  <2>1. x = <<x[1], x[2]>>
    BY OwedPairsNext
  <2>2. /\ x[1] \in Group /\ x[2] \in Published'
        /\ Queued(x[2])' \/ InLog(x[2], committed[x[1]])'
    BY <2>1, OwedPairsNext
  <2>3. <<x[1], x[2]>> \in Owed
    BY <1>1, <1>2, <2>2, OwedPairs
  <2> QED BY <2>1, <2>3
<1> QED BY <1>3

\* One message is owed to every group, and nothing else changes.
LEMMA OwedMore ==
    ASSUME NEW m, Published' = Published \cup {m},
           \A n : \A g \in Group : n # m =>
                (Queued(n)' <=> Queued(n)) /\ (InLog(n, committed[g])' <=> InLog(n, committed[g])),
           \A g \in Group : Queued(m)' \/ InLog(m, committed[g])'
    PROVE  Owed' = Owed \cup (Group \X {m})
<1>1. ASSUME NEW x \in Owed' PROVE x \in Owed \cup (Group \X {m})
  <2>1. /\ x = <<x[1], x[2]>> /\ x[1] \in Group /\ x[2] \in Published \cup {m}
        /\ Queued(x[2])' \/ InLog(x[2], committed[x[1]])'
    BY OwedPairsNext
  <2>2. CASE x[2] = m
    BY <2>1, <2>2
  <2>3. CASE x[2] # m
    <3>1. x[2] \in Published /\ (Queued(x[2]) \/ InLog(x[2], committed[x[1]]))
      BY <2>1, <2>3
    <3>2. <<x[1], x[2]>> \in Owed
      BY <2>1, <3>1, OwedPairs
    <3> QED BY <2>1, <3>2
  <2> QED BY <2>2, <2>3
<1>2. ASSUME NEW x \in Owed PROVE x \in Owed'
  <2>1. /\ x = <<x[1], x[2]>> /\ x[1] \in Group /\ x[2] \in Published
        /\ Queued(x[2]) \/ InLog(x[2], committed[x[1]])
    BY OwedPairs
  <2>2. Queued(x[2])' \/ InLog(x[2], committed[x[1]])'
    BY <2>1
  <2>3. <<x[1], x[2]>> \in Owed'
    BY <2>1, <2>2, OwedPairsNext
  <2> QED BY <2>1, <2>3
<1>3. ASSUME NEW x \in Group \X {m} PROVE x \in Owed'
  <2>1. PICK g \in Group : x = <<g, m>>
    OBVIOUS
  <2> QED BY <2>1, OwedPairsNext
<1> QED BY <1>1, <1>2, <1>3

\* What stops being owed has its fate, and what is dropped is owed: a step that
\* settles, or changes nothing of what is promised.
LEMMA Settling ==
    ASSUME Inv, Accounted', Published' = Published, Owed' \subseteq Owed, handled' = handled,
           lost \subseteq lost', lost' \ lost \subseteq Owed \ (handled \cup dead),
           \/ dead' = dead
           \/ \E m \in Published : dead \subseteq dead' /\ dead' \subseteq dead \cup (Group \X {m})
    PROVE  [Promise!Next]_(Promise!vars)
<1>1. Owed \ Owed' \subseteq handled \cup dead' \cup lost'
  <2>1. ASSUME NEW x \in Owed, x \notin Owed'
        PROVE  x \in handled \cup dead' \cup lost'
    <3>1. x = <<x[1], x[2]>> /\ x[1] \in Group /\ x[2] \in Published'
      BY OwedPairs
    <3>2. ~(Queued(x[2]) \/ InLog(x[2], committed[x[1]]))'
      BY <2>1, <3>1, OwedPairsNext
    <3>3. (Kept(x[1], x[2]) \/ InLog(x[2], committed[x[1]]))'
      BY <3>1 DEF Accounted
    <3>4. <<x[1], x[2]>> \in handled' \cup dead' \cup lost'
      BY <3>2, <3>3 DEF Kept
    <3> QED BY <3>1, <3>4
  <2> QED BY <2>1
<1>2. CASE Published = {}
  <2>1. Owed = {}
    BY <1>2 DEF Owed
  <2> QED BY <1>2, <2>1 DEF Promise!vars
<1>3. CASE Published # {}
  <2>1. PICK m \in Published :
            dead \subseteq dead' /\ dead' \subseteq dead \cup (Group \X {m})
    BY <1>3
  <2>2. m \in Message
    BY PublishedType DEF Inv
  <2>3. Promise!Settle(m)
    BY <1>1, <2>1 DEF Promise!Settle
  <2> QED BY <2>2, <2>3 DEF Promise!Next
<1> QED BY <1>2, <1>3

\* What is dropped of the messages that wait was owed to every group.
LEMMA DroppedOwed ==
    ASSUME Inv, Known, NEW S,
           \/ S \subseteq queue
           \/ \E p \in Pod : S \subseteq batch[p],
           lost' \in {lost, Dropped(ForAll(S))}
    PROVE  lost \subseteq lost' /\ lost' \ lost \subseteq Owed \ (handled \cup dead)
<1>1. ASSUME NEW x \in ForAll(S) PROVE x \in Owed
  <2>1. PICK e \in S : x \in Group \X {e.msg}
    BY <1>1 DEF ForAll
  <2>2. Queued(e.msg) /\ e.msg \in Published
    BY DEF Queued, Known
  <2>3. PICK g \in Group : x = <<g, e.msg>>
    BY <2>1
  <2> QED BY <2>2, <2>3, OwedPairs
<1> QED BY <1>1 DEF Dropped

\* A step that leaves the log, the offsets, the queue and the batches alone
\* leaves the same owed.
LEMMA OwedKept ==
    ASSUME UNCHANGED <<log, committed, queue, batch>>
    PROVE  Published' = Published /\ Owed' = Owed
<1>1. Published' = Published
  BY DEF Published
<1>2. \A m : Queued(m)' <=> Queued(m)
  BY DEF Queued
<1>3. \A g, m : InLog(m, committed[g])' <=> InLog(m, committed[g])
  BY DEF InLog
<1>4. Owed' = Owed
  BY <1>1, <1>2, <1>3 DEF Owed
<1> QED BY <1>1, <1>4

LEMMA PromiseHandler ==
    ASSUME Inv, Known, Accounted', NEW t \in Task, Handler(t),
           \A g \in Group : committed'[g] \in Int /\ committed'[g] >= committed[g]
    PROVE  [Promise!Next]_(Promise!vars)
<1> USE DEF topic, consumers, workers, fates, bounds
<1>0. t[2] \in Group /\ (at[t] < Len(log) => Current(t).msg \in Published
                                                /\ Current(t).msg \in Message)
  BY TaskType, PublishedCurrent, PublishedType DEF Inv
<1>1. CASE Process(t)
  <2>1. Published' = Published /\ Owed' = Owed
    BY <1>1, OwedKept DEF Process
  <2>2. /\ at[t] < Len(log) /\ UNCHANGED <<dead, lost>>
        /\ handled' = handled \cup {<<t[2], Current(t).msg>>} \/ handled' = handled
    BY <1>1 DEF Process, Delivered, Fate
  <2>3. CASE handled' = handled
    BY <2>1, <2>2, <2>3 DEF Promise!vars
  <2>4. CASE handled' = handled \cup {<<t[2], Current(t).msg>>}
    <3>1. Promise!Handle(t[2], Current(t).msg)
      BY <1>0, <2>1, <2>2, <2>4 DEF Promise!Handle
    <3> QED BY <1>0, <2>2, <3>1 DEF Promise!Next
  <2> QED BY <2>2, <2>3, <2>4
<1>2. CASE InvalidJson(t) \/ GiveUp(t)
  <2>1. SendToDLQ(t) /\ at[t] < Len(log)
    BY <1>2 DEF InvalidJson, GiveUp, Delivered, Inv, Working
  <2>2. Published' = Published /\ Owed' = Owed
    BY <2>1, OwedKept DEF SendToDLQ
  <2>3. dead \subseteq dead' /\ dead' \subseteq dead \cup (Group \X {Current(t).msg})
        /\ UNCHANGED <<handled, lost>>
    BY <1>0, <2>1 DEF SendToDLQ, Fate
  <2> QED BY <1>0, <2>1, <2>2, <2>3, Settling
<1>3. CASE CommitHandled(t) \/ CommitSettled(t)
  <2>1. UNCHANGED <<log, queue, batch, handled, dead, lost>>
    BY <1>3 DEF CommitHandled, CommitSettled, Commit
  <2>2. Published' = Published /\ \A m : Queued(m)' => Queued(m)
    BY <2>1 DEF Published, Queued
  <2>3. Owed' \subseteq Owed
    BY <2>1, <2>2, OwedShrinks
  <2> QED BY <2>1, <2>2, <2>3, Settling
<1>4. CASE CheckCap(t)
  <2>1. UNCHANGED <<log, committed, queue, batch, handled, dead, lost>>
    BY <1>4 DEF CheckCap
  <2> QED BY <2>1, OwedKept DEF Promise!vars
<1>5. CASE ScheduleRetry(t)
  <2> PICK m : m = Current(t).msg
    OBVIOUS
  <2>1. m \in Published /\ m \in Message
    BY <1>0, <1>5 DEF ScheduleRetry, Inv, Working
  <2>2. /\ UNCHANGED <<log, committed, batch, handled, dead, lost>>
        /\ queue' = queue \/ \E e : e.msg = m /\ queue' = queue \cup {e}
    <3>1. \A n \in Second : [msg |-> m, count |-> Current(t).count + 1, firstSeen |-> n].msg = m
      OBVIOUS
    <3> QED BY <1>5, <3>1 DEF ScheduleRetry
  <2>3. CASE queue' = queue
    BY <2>2, <2>3, OwedKept DEF Promise!vars
  <2>4. CASE \E e : e.msg = m /\ queue' = queue \cup {e}
    <3>1. Published' = Published
      BY <2>2 DEF Published
    <3>2. \A n : Queued(n)' <=> Queued(n) \/ n = m
      BY <2>2, <2>4 DEF Queued
    <3>3. \A n : \A g \in Group : InLog(n, committed[g])' <=> InLog(n, committed[g])
      BY <2>2 DEF InLog
    <3>5. Owed' = Owed \cup (Group \X {m})
      <4>1. Published' = Published \cup {m}
        BY <2>1, <3>1
      <4>2. \A g \in Group : Queued(m)' \/ InLog(m, committed[g])'
        BY <3>2
      <4>3. \A n : \A g \in Group : n # m =>
                (Queued(n)' <=> Queued(n)) /\ (InLog(n, committed[g])' <=> InLog(n, committed[g]))
        BY <3>2, <3>3
      <4> QED BY <4>1, <4>2, <4>3, OwedMore
    <3>6. Promise!Return(m)
      BY <2>1, <2>2, <3>1, <3>5 DEF Promise!Return
    <3> QED BY <2>1, <3>6 DEF Promise!Next
  <2> QED BY <2>2, <2>3, <2>4
<1> QED BY <1>1, <1>2, <1>3, <1>4, <1>5 DEF Handler

LEMMA PromiseWorker ==
    ASSUME Inv, Known, Accounted', NEW p \in Pod, Worker(p), Published' = Published
    PROVE  [Promise!Next]_(Promise!vars)
<1> USE DEF topic, consumers, workers, fates, bounds
<1>0. \A g \in Group : committed[g] \in Int /\ committed[g] >= committed[g]
                          /\ committed[g] <= Len(log)
  BY DEF Inv, TypeOK, Behind
<1>1. CASE Pop(p)
  <2>1. PICK popped \in SUBSET queue :
          \/ queue' = queue /\ batch' = batch /\ lost' = lost
          \/ queue' = queue \ popped /\ batch' = [batch EXCEPT ![p] = popped] /\ lost' = lost
          \/ queue' = queue \ popped /\ batch' = batch /\ lost' = Dropped(ForAll(popped))
    BY <1>1 DEF Pop, Answers, TakesEffect
  <2>2. UNCHANGED <<log, committed, handled, dead>>
    BY <1>1 DEF Pop
  <2>3. \A q \in Pod : batch'[q] \subseteq batch[q] \cup queue
    BY <2>1 DEF Inv, TypeOK
  <2>4. \A m : Queued(m)' => Queued(m)
    BY <2>1, <2>3 DEF Queued
  <2>5. Owed' \subseteq Owed
    BY <1>0, <2>2, <2>4, OwedShrinks
  <2>6. lost \subseteq lost' /\ lost' \ lost \subseteq Owed \ (handled \cup dead)
    BY <2>1, DroppedOwed
  <2> QED BY <2>2, <2>5, <2>6, Settling
<1>2. CASE Resend(p)
  <2>1. PICK n \in batch[p] :
          /\ log' = log \/ log' = Append(log, [msg |-> n.msg, count |-> n.count])
          /\ batch' = batch \/ batch' = [batch EXCEPT ![p] = @ \ {n}]
    BY <1>2 DEF Resend
  <2>2. UNCHANGED <<committed, queue, handled, dead, lost>>
    BY <1>2 DEF Resend
  <2>3. \A m : Queued(m)' => Queued(m)
    <3>1. \A q \in Pod : batch'[q] \subseteq batch[q]
      BY <2>1 DEF Inv, TypeOK
    <3> QED BY <2>2, <3>1 DEF Queued
  <2>4. ASSUME NEW g \in Group, NEW m, InLog(m, committed[g])'
        PROVE  Queued(m) \/ InLog(m, committed[g])
    <3>1. PICK i \in DOMAIN log' : i > committed[g] /\ log'[i].msg = m
      BY <2>2, <2>4 DEF InLog
    <3>2. CASE log' = log
      BY <3>1, <3>2 DEF InLog
    <3>3. CASE log' = Append(log, [msg |-> n.msg, count |-> n.count])
      <4> DEFINE e == [msg |-> n.msg, count |-> n.count]
      <4>1. e \in Entry /\ e.msg = n.msg
        BY DEF Inv, TypeOK, Member, Entry
      <4> HIDE DEF e
      <4>2. log' = Append(log, e)
        BY <3>3 DEF e
      <4>3. /\ Len(log') = Len(log) + 1 /\ \A j \in 1..Len(log) : log'[j] = log[j]
            /\ log'[Len(log) + 1] = e /\ DOMAIN log' = 1..Len(log') /\ DOMAIN log = 1..Len(log)
            /\ Len(log) \in Nat
        BY <4>1, <4>2, AppendFacts DEF Inv, TypeOK
      <4>4. CASE i = Len(log) + 1
        BY <3>1, <4>1, <4>3, <4>4 DEF Queued
      <4>5. CASE i \in 1..Len(log)
        BY <3>1, <4>3, <4>5 DEF InLog
      <4> QED BY <4>3, <4>4, <4>5
    <3> QED BY <2>1, <3>2, <3>3
  <2>5. Owed' \subseteq Owed
    BY <2>3, <2>4, OwedPairs, OwedPairsNext
  <2> QED BY <2>2, <2>5, Settling
<1>3. CASE ResendFailed(p)
  <2>1. stuck[p] # None /\ UNCHANGED <<log, committed, queue, handled>>
    BY <1>3 DEF ResendFailed
  <2>2. \A q \in Pod : batch'[q] \subseteq batch[q]
    BY <1>3 DEF ResendFailed, Inv, TypeOK
  <2>3. \A m : Queued(m)' => Queued(m)
    BY <2>1, <2>2 DEF Queued
  <2>4. Owed' \subseteq Owed
    BY <1>0, <2>1, <2>3, OwedShrinks
  <2>5. stuck[p].msg \in Published
    BY <2>1 DEF Known
  <2>6. dead \subseteq dead' /\ dead' \subseteq dead \cup (Group \X {stuck[p].msg})
    BY <1>3 DEF ResendFailed, ForAll
  <2>7. lost' \in {lost, Dropped(ForAll(batch[p]))}
    BY <1>3 DEF ResendFailed
  <2>8. lost \subseteq lost' /\ lost' \ lost \subseteq Owed \ (handled \cup dead)
    BY <2>7, DroppedOwed
  <2> QED BY <2>1, <2>4, <2>5, <2>6, <2>8, Settling
<1> QED BY <1>1, <1>2, <1>3 DEF Worker

\* Memory is lost, or a group starts without an offset.
LEMMA PromiseDrops ==
    ASSUME Inv, Known, Accounted',
           \/ \E p \in Pod : ForgetBatch(p) /\ UNCHANGED <<log, committed, queue, handled, dead>>
           \/ \E g \in Group, p \in Pod : Assign(g, p)
    PROVE  [Promise!Next]_(Promise!vars)
<1> USE DEF topic, consumers, workers, fates, bounds
<1>0. \A g \in Group : committed[g] \in Int /\ committed[g] >= committed[g]
  BY DEF Inv, TypeOK
<1>1. ASSUME NEW p \in Pod, ForgetBatch(p), UNCHANGED <<log, committed, queue, handled, dead>>
      PROVE  [Promise!Next]_(Promise!vars)
  <2>1. \A q \in Pod : batch'[q] \subseteq batch[q]
    BY <1>1 DEF ForgetBatch, Inv, TypeOK
  <2>2. Published' = Published /\ \A m : Queued(m)' => Queued(m)
    BY <1>1, <2>1 DEF Queued, Published
  <2>3. Owed' \subseteq Owed
    BY <1>0, <1>1, <2>2, OwedShrinks
  <2>4. lost' = Dropped(ForAll(batch[p]))
    BY <1>1 DEF ForgetBatch
  <2>5. lost \subseteq lost' /\ lost' \ lost \subseteq Owed \ (handled \cup dead)
    BY <2>4, DroppedOwed
  <2> QED BY <1>1, <2>2, <2>3, <2>5, Settling
<1>2. ASSUME NEW g \in Group, NEW p \in Pod, Assign(g, p)
      PROVE  [Promise!Next]_(Promise!vars)
  <2>1. /\ UNCHANGED <<log, committed, queue, batch, handled, dead>>
        /\ \/ committed[g] = -1 /\ lost' = Dropped({g} \X Published)
           \/ lost' = lost
    BY <1>2 DEF Assign
  <2>2. Published' = Published /\ Owed' = Owed
    BY <2>1, OwedKept
  <2>3. CASE lost' = lost
    BY <2>1, <2>2, <2>3 DEF Promise!vars
  <2>4. CASE committed[g] = -1 /\ lost' = Dropped({g} \X Published)
    <3>1. ASSUME NEW m \in Published PROVE <<g, m>> \in Owed
      <4>1. PICK i \in DOMAIN log : log[i].msg = m
        BY DEF Published
      <4>2. i > -1
        BY DEF Inv, TypeOK
      <4>3. InLog(m, committed[g])
        BY <2>4, <4>1, <4>2 DEF InLog
      <4> QED BY <4>3, OwedPairs
    <3>2. lost \subseteq lost' /\ lost' \ lost \subseteq Owed \ (handled \cup dead)
      BY <2>4, <3>1 DEF Dropped
    <3> QED BY <2>1, <2>2, <3>2, Settling
  <2> QED BY <2>1, <2>3, <2>4
<1> QED BY <1>1, <1>2

LEMMA PromisePublish ==
    ASSUME Inv, Known, NEW m \in Message, Publish(m)
    PROVE  Promise!Send(m)
<1> USE DEF topic, consumers, workers, fates, bounds
<1> DEFINE e == [msg |-> m, count |-> 0]
<1>1. e \in Entry /\ e.msg = m
  BY ConstantsAssumption DEF Entry
<1>2. log' = Append(log, e) /\ UNCHANGED <<committed, queue, batch, handled, dead, lost>>
      /\ m \notin Published
  BY DEF Publish
<1> HIDE DEF e
<1>3. /\ Len(log') = Len(log) + 1 /\ \A j \in 1..Len(log) : log'[j] = log[j]
      /\ log'[Len(log) + 1] = e /\ DOMAIN log' = 1..Len(log') /\ DOMAIN log = 1..Len(log)
      /\ Len(log) \in Nat
  BY <1>1, <1>2, AppendFacts DEF Inv, TypeOK
<1>4. Len(log) + 1 \in DOMAIN log' /\ \A i \in DOMAIN log' : i \in DOMAIN log \/ i = Len(log) + 1
  BY <1>3
<1>5. Published' = Published \cup {m}
  <2>1. \A i \in DOMAIN log' : log'[i].msg \in Published \cup {m}
    BY <1>1, <1>3, <1>4 DEF Published
  <2>2. Published' \subseteq Published \cup {m}
    BY <2>1 DEF Published
  <2>3. Published \subseteq Published'
    <3>1. \A i \in DOMAIN log : i \in DOMAIN log' /\ log'[i] = log[i]
      BY <1>3
    <3> QED BY <3>1 DEF Published
  <2>4. m \in Published'
    <3>1. log'[Len(log) + 1].msg = m
      BY <1>1, <1>3
    <3> QED BY <1>4, <3>1 DEF Published
  <2> QED BY <2>2, <2>3, <2>4
<1>6. ASSUME NEW g \in Group, NEW n
      PROVE  InLog(n, committed[g])' <=> InLog(n, committed[g]) \/ n = m
  <2>1. committed[g] \in Int /\ committed[g] <= Len(log) /\ committed'[g] = committed[g]
    BY <1>2 DEF Inv, TypeOK, Behind
  <2>2. InLog(m, committed[g])'
    BY <1>1, <1>3, <1>4, <2>1 DEF InLog
  <2>3. InLog(n, committed[g]) => InLog(n, committed[g])'
    BY <1>3, <2>1 DEF InLog
  <2>4. ASSUME InLog(n, committed[g])', n # m PROVE InLog(n, committed[g])
    BY <1>1, <1>3, <1>4, <2>1, <2>4 DEF InLog
  <2> QED BY <2>2, <2>3, <2>4
<1>7. \A n : Queued(n)' <=> Queued(n)
  BY <1>2 DEF Queued
<1>9. Owed' = Owed \cup (Group \X {m})
  BY <1>5, <1>6, <1>7, OwedMore
<1> QED BY <1>2, <1>5, <1>9 DEF Promise!Send

\* Initial states map to the initial state, ...
LEMMA PromiseInit == Init => Promise!Init /\ Known
<1> SUFFICES ASSUME Init PROVE Promise!Init /\ Known
  OBVIOUS
<1>1. Published = {}
  BY DEF Init, Published
<1>2. Owed = {}
  BY <1>1 DEF Owed
<1> QED BY <1>1, <1>2 DEF Init, Promise!Init, Known

\* ... and every step to a step or to none.
LEMMA PromiseStep ==
    ASSUME Inv, OwnerAhead, Known, Accounted', [Next]_vars
    PROVE  [Promise!Next]_(Promise!vars)
<1> USE DEF topic, consumers, workers, fates, bounds
<1>1. \A g \in Group : committed'[g] \in Int /\ committed'[g] >= committed[g]
  BY InvStep, OwnerAheadStep DEF Inv, TypeOK
<1>2. ASSUME NEW m \in Message, Publish(m) PROVE [Promise!Next]_(Promise!vars)
  BY <1>2, PromisePublish DEF Promise!Next
<1>3. ASSUME NEW t \in Task, Handler(t) PROVE [Promise!Next]_(Promise!vars)
  BY <1>1, <1>3, PromiseHandler
<1>4. ASSUME NEW p \in Pod, Worker(p), \A m \in Message : ~Publish(m)
      PROVE  [Promise!Next]_(Promise!vars)
  BY <1>4, PublishedGrows, PromiseWorker
<1>5. ASSUME NEW p \in Pod, Crash(p) \/ Boot(p) PROVE [Promise!Next]_(Promise!vars)
  BY <1>5, PromiseDrops DEF Crash, Boot
<1>6. ASSUME NEW p \in Pod, DisconnectProducer(p) \/ Reload(p) \/ Disconnect(p)
      PROVE  [Promise!Next]_(Promise!vars)
  <2>1. UNCHANGED <<log, committed, queue, batch, handled, dead, lost>>
    BY <1>6 DEF DisconnectProducer, Reload, Disconnect
  <2> QED BY <2>1, OwedKept DEF Promise!vars
<1>7. ASSUME NEW g \in Group, Evict(g) PROVE [Promise!Next]_(Promise!vars)
  <2>1. UNCHANGED <<log, committed, queue, batch, handled, dead, lost>>
    BY <1>7 DEF Evict
  <2> QED BY <2>1, OwedKept DEF Promise!vars
<1>8. ASSUME NEW g \in Group, NEW p \in Pod, Assign(g, p) PROVE [Promise!Next]_(Promise!vars)
  BY <1>8, PromiseDrops
<1>9. CASE UNCHANGED vars
  <2>1. UNCHANGED <<log, committed, queue, batch, handled, dead, lost>>
    BY <1>9 DEF vars
  <2> QED BY <2>1, OwedKept DEF Promise!vars
<1> QED BY <1>2, <1>3, <1>4, <1>5, <1>6, <1>7, <1>8, <1>9 DEF Next, Closing

(* Whatever is refused or unanswered, whoever is evicted, shut down, crashes or
   starts without an offset: the topic, the retry queue, the workers and the
   committed offsets implement AtLeastOnce, for every number of groups, pods and
   messages and every bound. *)
THEOREM PromiseKept == Spec => ImplementsAtLeastOnce
<1>1. Init => OwnerAhead
  BY TaskType DEF Init, OwnerAhead
<1>2. Inv /\ OwnerAhead /\ Known /\ Accounted' /\ [Next]_vars => [Promise!Next]_(Promise!vars)
  BY PromiseStep
<1>3. Inv /\ Known /\ [Next]_vars => Known'
  BY KnownStep
<1> QED BY <1>1, <1>2, <1>3, InvInit, InvStep, OwnerAheadStep, NothingForgotten, PromiseInit, PTL
        DEF Spec, ImplementsAtLeastOnce, Promise!Spec
=============================================================================
