----------------------------- MODULE KafkaRetry -----------------------------
(***************************************************************************)
(* config/kafka/kafkaManager.ts: the consumers of one topic on several     *)
(* pods, the retry queue they share in Redis, the retry worker of each     *)
(* pod, the dead-letter topic, and what a crash, a shutdown or a reload of *)
(* the broker list does to messages on their way.                          *)
(*                                                                         *)
(* An action is the code between two awaits with the effect of the call it *)
(* awaits: a call is answered, refused, or takes effect and its answer is  *)
(* lost.  A message's content matters only to JSON.parse; its header       *)
(* x-retry-count is "count".  A member of the Redis set is told apart by   *)
(* its content and the second (firstSeen) it was added in: two equal ones  *)
(* are one.  Scores are left out: the worker pops the lowest whether they  *)
(* are due or not, so any members may be the ones it pops.                 *)
(***************************************************************************)
EXTENDS Integers, FiniteSets, Sequences

CONSTANTS
    Message,    \* the messages producers send, each once
    Form,       \* what the value of each is: "json", "text", or "null"
    Group,      \* consumer groups
    Pod,        \* processes, each with a KafkaManager and a consumer per group
    Second,     \* values of the clock
    MaxRetries, \* config.KAFKA_MAX_RETRIES
    Cap,        \* config.KAFKA_RETRY_QUEUE_CAP
    Batch,      \* members popped in one tick: 50 in the code
    MaxFaults,  \* bound: calls refused or unanswered
    MaxStops,   \* bound: crashes, shutdowns and evictions from a group
    MaxReloads, \* bound: pods left by a reload of the broker list
    None

Task == Pod \X Group
Entry == [msg : Message, count : 0..MaxRetries]
Member == [msg : Message, count : 0..MaxRetries, firstSeen : Second]

ASSUME ConstantsAssumption ==
    /\ Form \in [Message -> {"json", "text", "null"}]
    /\ IsFiniteSet(Group) /\ IsFiniteSet(Pod) /\ Group # {} /\ Pod # {}
    /\ Second # {}
    /\ MaxRetries \in Nat /\ Cap \in Nat \ {0} /\ Batch \in Nat \ {0}
    /\ MaxFaults \in Nat /\ MaxStops \in Nat /\ MaxReloads \in Nat
    /\ None \notin Pod \cup Member

VARIABLES
    log,       \* the topic: one partition
    committed, \* the offset each group has committed, -1 before the first
    owner,     \* the pod whose consumer has the group's partition, or None
    at,        \* how far each consumer has come in the log
    pc,        \* where its eachMessage is
    queue,     \* the sorted set RETRY_QUEUE
    batch,     \* what the retry worker of each pod has popped and not yet sent
    stuck,     \* the member it could not send again, or None
    phase,     \* "up", "draining" and "closed" by disconnect(), or "reloaded"
    handled,   \* <<group, message>>: eachMessage has succeeded
    dead,      \* <<group, message>>: sent to the dead-letter topic
    lost,      \* <<group, message>>: history, where the code drops it
    faults, stops

topic == <<log, committed>>
consumers == <<owner, at, pc>>
workers == <<batch, stuck>>
fates == <<handled, dead, lost>>
bounds == <<faults, stops>>
vars == <<topic, consumers, queue, workers, phase, fates, bounds>>

Init ==
    /\ log = <<>> /\ committed = [g \in Group |-> -1]
    /\ owner \in [Group -> Pod]
    /\ at = [t \in Task |-> 0] /\ pc = [t \in Task |-> "idle"]
    /\ queue = {}
    /\ batch = [p \in Pod |-> {}] /\ stuck = [p \in Pod |-> None]
    /\ phase = [p \in Pod |-> "up"]
    /\ handled = {} /\ dead = {} /\ lost = {}
    /\ faults = 0 /\ stops = 0

-----------------------------------------------------------------------------
Published == {log[i].msg : i \in DOMAIN log}
Goto(t, label) == pc' = [pc EXCEPT ![t] = label]
Current(t) == log[at[t] + 1]
Fate(t) == {<<t[2], Current(t).msg>>}
ForAll(members) == Group \X {m.msg : m \in members}
Dropped(pairs) == lost \cup (pairs \ (handled \cup dead))
Owns(t) == owner[t[2]] = t[1]
Ticking(p) == phase[p] \in {"up", "reloaded"}
Sending(p) == phase[p] \in {"up", "draining"}

\* The answers of an awaited call; without the faults a call that cannot
\* succeed is refused.
Answers(able) == IF ~able THEN {"refused"}
                 ELSE IF faults < MaxFaults THEN {"ok", "refused", "unanswered"}
                 ELSE {"ok"}
Charge(able, a) == faults' = IF able /\ a # "ok" THEN faults + 1 ELSE faults
TakesEffect(a) == a # "refused"

\* A message sent without a value comes back from the retry queue with the empty
\* string (message.value?.toString() || '').
HasValue(e) == Form[e.msg] # "null" \/ e.count > 0

\* JSON.parse is not asked where there is no value, and refuses the empty string.
Parses(e) == Form[e.msg] = "json" \/ ~HasValue(e)

\* Mutant of Throw: nothing takes the consumer out of its error.
ThrowSwallowed(t) == Goto(t, "failed") /\ UNCHANGED owner

\* eachMessage throws: the message is delivered again, or the consumer starts
\* anew and the group is assigned once more.
Throw(t) ==
    /\ Goto(t, "idle")
    /\ \/ owner' = owner
       \/ Owns(t) /\ owner' = [owner EXCEPT ![t[2]] = None]

-----------------------------------------------------------------------------
\* A producer somewhere sends a message of its own.
Publish(m) ==
    /\ m \notin Published
    /\ log' = Append(log, [msg |-> m, count |-> 0])
    /\ UNCHANGED <<committed, consumers, queue, workers, phase, fates, bounds>>

Delivered(t) == pc[t] = "idle" /\ Owns(t) /\ at[t] < Len(log)

\* await eachMessage(payload), which succeeds or rejects.
Process(t) ==
    /\ Delivered(t) /\ Parses(Current(t))
    /\ \/ Goto(t, "commit") /\ handled' = handled \cup Fate(t)
       \/ Goto(t, "retry") /\ UNCHANGED handled
    /\ UNCHANGED <<topic, owner, at, queue, workers, phase, dead, lost, bounds>>

\* kafkajs sends no message whose value is undefined.
Sendable(t) == Sending(t[1]) /\ HasValue(Current(t))

\* Mutant of SendToDLQ: the offset is committed whatever the answer was.
SendToDLQBlindly(t) ==
    /\ \E a \in Answers(Sendable(t)) :
         /\ dead' = IF TakesEffect(a) THEN dead \cup Fate(t) ELSE dead
         /\ Charge(Sendable(t), a)
    /\ Goto(t, "settle")
    /\ UNCHANGED <<topic, owner, at, queue, workers, phase, handled, lost, stops>>

SendToDLQ(t) ==
    /\ \E a \in Answers(Sendable(t)) :
         /\ dead' = IF TakesEffect(a) THEN dead \cup Fate(t) ELSE dead
         /\ IF a = "ok" THEN Goto(t, "settle") /\ UNCHANGED owner ELSE Throw(t)
         /\ Charge(Sendable(t), a)
    /\ UNCHANGED <<topic, at, queue, workers, phase, handled, lost, stops>>

InvalidJson(t) == Delivered(t) /\ ~Parses(Current(t)) /\ SendToDLQ(t)

\* Mutant of Commit: the broker takes the offset of whoever sends one.
CommitUnfenced(t, next) ==
    \E a \in Answers(TRUE) :
      /\ committed' = IF TakesEffect(a)
                      THEN [committed EXCEPT ![t[2]] = at[t] + 1] ELSE committed
      /\ IF a = "ok"
         THEN Goto(t, "idle") /\ at' = [at EXCEPT ![t] = @ + 1] /\ UNCHANGED owner
         ELSE UNCHANGED at /\ IF next = "retry"
                              THEN Goto(t, "retry") /\ UNCHANGED owner
                              ELSE Throw(t)
      /\ Charge(TRUE, a)
      /\ UNCHANGED <<log, queue, workers, phase, fates, stops>>

\* commitOffsets; refused to a consumer that has lost the partition.
Commit(t, next) ==
    \E a \in Answers(Owns(t)) :
      /\ committed' = IF TakesEffect(a)
                      THEN [committed EXCEPT ![t[2]] = at[t] + 1] ELSE committed
      /\ IF a = "ok"
         THEN Goto(t, "idle") /\ at' = [at EXCEPT ![t] = @ + 1] /\ UNCHANGED owner
         ELSE UNCHANGED at /\ IF next = "retry"
                              THEN Goto(t, "retry") /\ UNCHANGED owner
                              ELSE Throw(t)
      /\ Charge(Owns(t), a)
      /\ UNCHANGED <<log, queue, workers, phase, fates, stops>>

\* The commit after success is in the same try as eachMessage: when it fails
\* the message is scheduled for a retry although it was handled.
CommitHandled(t) == pc[t] = "commit" /\ Commit(t, "retry")

CommitSettled(t) == pc[t] = "settle" /\ Commit(t, "throw")

\* Mutant of Exhausted: one retry too many.
ExhaustedLate(t) == Current(t).count > MaxRetries

Exhausted(t) == Current(t).count >= MaxRetries
Full == Cardinality(queue) >= Cap

\* scheduleRetry up to its branch: the dead-letter topic, ...
GiveUp(t) == pc[t] = "retry" /\ (Exhausted(t) \/ Full) /\ SendToDLQ(t)

\* Mutant of CheckCap: the queue has no cap.
CheckNoCap(t) ==
    /\ pc[t] = "retry" /\ ~Exhausted(t)
    /\ Goto(t, "zadd")
    /\ UNCHANGED <<topic, owner, at, queue, workers, phase, fates, bounds>>

\* ... or ZCARD and on to ZADD, ...
CheckCap(t) ==
    /\ pc[t] = "retry" /\ ~Exhausted(t)
    /\ \E a \in Answers(TRUE) :
         /\ IF a = "ok" THEN ~Full /\ Goto(t, "zadd") /\ UNCHANGED owner ELSE Throw(t)
         /\ Charge(TRUE, a)
    /\ UNCHANGED <<topic, at, queue, workers, phase, fates, stops>>

\* ... whose answer comes after another consumer's may have changed the queue.
ScheduleRetry(t) ==
    /\ pc[t] = "zadd"
    /\ \E a \in Answers(TRUE), now \in Second :
         /\ queue' = IF TakesEffect(a)
                     THEN queue \cup {[msg |-> Current(t).msg,
                                       count |-> Current(t).count + 1,
                                       firstSeen |-> now]}
                     ELSE queue
         /\ IF a = "ok" THEN Goto(t, "settle") /\ UNCHANGED owner ELSE Throw(t)
         /\ Charge(TRUE, a)
    /\ UNCHANGED <<topic, at, workers, phase, fates, stops>>

-----------------------------------------------------------------------------
\* Mutant of Pop: the members are read and stay in the queue.
PopPeeks(p) ==
    /\ Ticking(p) /\ batch[p] = {} /\ queue # {}
    /\ \E popped \in SUBSET queue :
         /\ popped # {} /\ Cardinality(popped) <= Batch
         /\ popped # queue => Cardinality(popped) = Batch
         /\ batch' = [batch EXCEPT ![p] = popped]
    /\ UNCHANGED <<topic, consumers, queue, stuck, phase, fates, bounds>>

\* A tick of the retry worker: ZPOPMIN takes the members out of the queue.
Pop(p) ==
    /\ Ticking(p) /\ batch[p] = {} /\ queue # {}
    /\ \E a \in Answers(TRUE), popped \in SUBSET queue :
         /\ popped # {} /\ Cardinality(popped) <= Batch
         /\ popped # queue => Cardinality(popped) = Batch
         /\ queue' = IF TakesEffect(a) THEN queue \ popped ELSE queue
         /\ batch' = IF a = "ok" THEN [batch EXCEPT ![p] = popped] ELSE batch
         /\ lost' = IF a = "unanswered" THEN Dropped(ForAll(popped)) ELSE lost
         /\ Charge(TRUE, a)
    /\ UNCHANGED <<topic, consumers, stuck, phase, handled, dead, stops>>

\* Mutant of Resend: nobody looks whether it was sent.
ResendUnchecked(p) ==
    /\ stuck[p] = None
    /\ \E m \in batch[p], a \in Answers(Sending(p)) :
         /\ log' = IF TakesEffect(a)
                   THEN Append(log, [msg |-> m.msg, count |-> m.count]) ELSE log
         /\ batch' = [batch EXCEPT ![p] = @ \ {m}]
         /\ Charge(Sending(p), a)
    /\ UNCHANGED <<committed, consumers, queue, stuck, phase, fates, stops>>

\* It sends each to its topic again, where every group will find it.
Resend(p) ==
    /\ stuck[p] = None
    /\ \E m \in batch[p], a \in Answers(Sending(p)) :
         /\ log' = IF TakesEffect(a)
                   THEN Append(log, [msg |-> m.msg, count |-> m.count]) ELSE log
         /\ IF a = "ok"
            THEN batch' = [batch EXCEPT ![p] = @ \ {m}] /\ UNCHANGED stuck
            ELSE stuck' = [stuck EXCEPT ![p] = m] /\ UNCHANGED batch
         /\ Charge(Sending(p), a)
    /\ UNCHANGED <<committed, consumers, queue, phase, fates, stops>>

\* What cannot be sent goes to the dead-letter topic; when that fails as well
\* the error leaves the loop and the rest of the batch is dropped.
ResendFailed(p) ==
    /\ stuck[p] # None
    /\ \E a \in Answers(Sending(p)) :
         /\ dead' = IF TakesEffect(a) THEN dead \cup ForAll({stuck[p]}) ELSE dead
         /\ batch' = [batch EXCEPT ![p] = IF a = "ok" THEN @ \ {stuck[p]} ELSE {}]
         /\ lost' = IF a = "ok" THEN lost ELSE Dropped(ForAll(batch[p]))
         /\ Charge(Sending(p), a)
    /\ stuck' = [stuck EXCEPT ![p] = None]
    /\ UNCHANGED <<topic, consumers, queue, phase, handled, stops>>

-----------------------------------------------------------------------------
\* The broker gives the partition to a consumer: it starts from the committed
\* offset, and at the end of the log when there is none (fromBeginning: false).
Assign(g, p) ==
    /\ owner[g] = None /\ phase[p] = "up" /\ pc[<<p, g>>] = "idle"
    /\ owner' = [owner EXCEPT ![g] = p]
    /\ IF committed[g] = -1
       THEN /\ at' = [at EXCEPT ![<<p, g>>] = Len(log)]
            /\ lost' = Dropped({g} \X Published)
       ELSE at' = [at EXCEPT ![<<p, g>>] = committed[g]] /\ UNCHANGED lost
    /\ UNCHANGED <<topic, pc, queue, workers, phase, handled, dead, bounds>>

Stops == stops < MaxStops /\ stops' = stops + 1

\* A consumer too slow for the broker loses its partition; its handler goes on.
Evict(g) ==
    /\ Stops /\ owner[g] # None
    /\ owner' = [owner EXCEPT ![g] = None]
    /\ UNCHANGED <<topic, at, pc, queue, workers, phase, fates, faults>>

Leaves(p) == owner' = [g \in Group |-> IF owner[g] = p THEN None ELSE owner[g]]
ForgetBatch(p) ==
    /\ batch' = [batch EXCEPT ![p] = {}] /\ stuck' = [stuck EXCEPT ![p] = None]
    /\ lost' = Dropped(ForAll(batch[p]))

\* The process dies and is started again.
Crash(p) ==
    /\ Stops /\ Leaves(p) /\ ForgetBatch(p)
    /\ pc' = [t \in Task |-> IF t[1] = p THEN "idle" ELSE pc[t]]
    /\ phase' = [phase EXCEPT ![p] = "up"]
    /\ UNCHANGED <<topic, at, queue, handled, dead, faults>>

\* disconnect(): the consumers, each when its handler has returned, and the
\* interval; a tick under way goes on ...
Disconnect(p) ==
    /\ Stops /\ phase[p] = "up" /\ \A g \in Group : pc[<<p, g>>] = "idle"
    /\ Leaves(p)
    /\ phase' = [phase EXCEPT ![p] = "draining"]
    /\ UNCHANGED <<topic, at, pc, queue, workers, fates, faults>>

\* ... then the producer, in the middle of that tick or not.
DisconnectProducer(p) ==
    /\ phase[p] = "draining"
    /\ phase' = [phase EXCEPT ![p] = "closed"]
    /\ UNCHANGED <<topic, consumers, queue, workers, fates, bounds>>

\* The process ends and another one takes its place.
Boot(p) ==
    /\ phase[p] = "closed" /\ ForgetBatch(p)
    /\ phase' = [phase EXCEPT ![p] = "up"]
    /\ UNCHANGED <<topic, consumers, queue, handled, dead, bounds>>

\* reloadConfig called disconnect(): init() connects nothing, for a producer
\* and an admin are there, and createConsumer returns the consumers of before.
\* Only the retry worker starts again when it is asked to.
Reload(p) ==
    /\ phase[p] = "closed"
    /\ Cardinality({q \in Pod : phase[q] = "reloaded"}) < MaxReloads
    /\ phase' = [phase EXCEPT ![p] = "reloaded"]
    /\ UNCHANGED <<topic, consumers, queue, workers, fates, bounds>>

-----------------------------------------------------------------------------
Handler(t) == \/ Process(t) \/ InvalidJson(t) \/ CommitHandled(t)
              \/ CommitSettled(t) \/ GiveUp(t) \/ CheckCap(t) \/ ScheduleRetry(t)
Worker(p) == Pop(p) \/ Resend(p) \/ ResendFailed(p)
Closing(p) == DisconnectProducer(p) \/ Boot(p) \/ Reload(p)

Next ==
    \/ \E m \in Message : Publish(m)
    \/ \E t \in Task : Handler(t)
    \/ \E p \in Pod : Worker(p) \/ Closing(p) \/ Crash(p) \/ Disconnect(p)
    \/ \E g \in Group : Evict(g) \/ \E p \in Pod : Assign(g, p)

Spec == Init /\ [][Next]_vars

\* The event loop runs what is ready, handlers settle, the broker assigns a
\* partition nobody has, the interval fires, a shutdown that began goes on.
FairSpec ==
    /\ Spec
    /\ \A t \in Task : WF_vars(Handler(t))
    /\ \A p \in Pod : WF_vars(Worker(p)) /\ WF_vars(Closing(p))
    /\ \A g \in Group : WF_vars(\E p \in Pod : Assign(g, p))

-----------------------------------------------------------------------------
(* Types.  No message has been retried more than MaxRetries times, and no pod
   of the shutdown protocol is anywhere else than the code can be. *)
TypeOK ==
    /\ log \in Seq(Entry)
    /\ committed \in [Group -> Nat \cup {-1}]
    /\ owner \in [Group -> Pod \cup {None}]
    /\ at \in [Task -> Nat]
    /\ pc \in [Task -> {"idle", "commit", "retry", "zadd", "settle"}]
    /\ queue \in SUBSET Member
    /\ batch \in [Pod -> SUBSET Member]
    /\ stuck \in [Pod -> Member \cup {None}]
    /\ phase \in [Pod -> {"up", "draining", "closed", "reloaded"}]
    /\ handled \subseteq Group \X Message
    /\ dead \subseteq Group \X Message
    /\ lost \subseteq Group \X Message
    /\ faults \in Nat /\ stops \in Nat

(* scheduleRetry compares ZCARD with the cap and adds in a later call: the queue
   outgrows the cap, but never by more than the other handlers that may have
   been told the same size, consumers that lost their partition included. *)
QueueBounded == Cardinality(queue) <= Cap + Cardinality(Task) - 1

InLog(m, from) == \E i \in DOMAIN log : i > from /\ log[i].msg = m
Queued(m) == \/ \E e \in queue : e.msg = m
             \/ \E p \in Pod : \E e \in batch[p] : e.msg = m
Kept(g, m) == <<g, m>> \in handled \cup dead \cup lost \/ Queued(m)

(* Whatever fails and whoever stops, every message is accounted for in every
   group: it was handled, dead-lettered or dropped by one of the three steps
   that drop (a worker that loses its batch, an unanswered ZPOPMIN, a group that
   starts without an offset), or it is in the retry queue, in a worker's batch,
   or in the topic after the offset the group has committed. *)
Accounted == \A g \in Group, m \in Published : Kept(g, m) \/ InLog(m, committed[g])

(* Only one consumer group reads the topic. *)
OneGroup == \A g, h \in Group : g = h

(* While nothing fails or stops, a message that only one group reads has one
   fate: nothing is dropped, and nothing is both handled and dead-lettered,
   although it may travel through the retry queue and the workers of several
   pods several times, and its offset is committed only after it was put into
   the queue.  Where messages are not retried at all, a first message without a
   value cannot be dead-lettered, and is dropped when the consumer starts anew. *)
OneFate ==
    OneGroup /\ MaxRetries > 0 /\ faults = 0 /\ stops = 0
        => lost = {} /\ handled \cap dead = {}

(* A group's offset never moves back: neither a handler that goes on after its
   consumer lost the partition, nor a message delivered again because the answer
   to its commit was lost, takes the group behind what it has committed. *)
OffsetsForward == [][\A g \in Group : committed'[g] >= committed[g]]_vars

(* What a group will still be given: what is in the retry queue, in a worker's
   batch, or in the topic after the offset the group has committed. *)
Owed == {x \in Group \X Published : Queued(x[2]) \/ InLog(x[2], committed[x[1]])}

(* At every step, whatever is refused, unanswered, evicted or stopped: only a
   message with a known fate stops being owed to a group, only a handler that
   adds to the retry queue makes one owed again, and only what is owed is
   dropped: the queue, the workers and the offsets implement AtLeastOnce. *)
Promise == INSTANCE AtLeastOnce WITH sent <- Published, owed <- Owed
ImplementsAtLeastOnce == Promise!Spec

(* In the end every message published is handled, dead-lettered or dropped for
   every group: no failing call, eviction, crash or shutdown leaves it undecided. *)
Settles ==
    <>[](\A g \in Group, m \in Published : <<g, m>> \in handled \cup dead \cup lost)

(* Retries end: the queue and the workers run empty and stay so, and no handler
   goes on, although a message may be retried after it was handled (its commit
   failed), be delivered again from before its retry, and pass through the
   workers and consumers of several pods. *)
Quiesces ==
    <>[](/\ queue = {} /\ \A p \in Pod : batch[p] = {}
         /\ \A t \in Task : pc[t] = "idle")

=============================================================================
