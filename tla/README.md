# A TLA+ verification of the Codex Collab Service

The Collab Service lets several people edit one document. It runs as several
pods (Node.js processes); a client keeps one Socket.IO connection to one pod.
The pods share Redis (pub/sub, a set of participants and a "hot" snapshot per
session) and MongoDB (session records and snapshots).

This directory holds TLA+ modules translated from the source, TLC
configurations that check them on small instances, and TLAPS proofs that hold
for every instance. `PROJECT.json` lists the runs, the source lines of every
definition, the findings, the hazards and the theorems.

Run a configuration with `tlc -workers 2 -config MCDocSync_intended.cfg MCDocSync`
and check proofs with `tlapm DocSyncProofs.tla`.

## 1. The parts of the system

| Part | State it keeps | Operations | What makes it correct |
|---|---|---|---|
| `SessionService`, life of a session (`services/session.service.ts`) | per pod and session: `#_activeDocs`, `#_activeAwareness`, `#_activeSessionMetadata`, `#_sessionStates` with two intervals | `joinSession`, `leaveSession`, `closeSession`, `updateDocument`, `getOrLoadSessionState`, `restoreSession`, `cleanupSessionMemory` | what is in memory is complete and served; intervals and listeners are owned; memory is released after the last leave; every join is answered |
| `RedisService` (`services/Redis.service.ts`) | `#_sessionSubscriptions`, event listeners, Redis subscriptions; in Redis the participant set, the hot snapshot | subscribe, unsubscribe, publish, participants, snapshots | a listener is attached once and can be detached; a registered session is not deaf |
| Document synchronisation (`setupRedisSync`, `initSessionLoops`) | the Y.Doc of each pod, `isDirty`, saves in flight, the hot snapshot, messages in flight | edit, publish, deliver, save (2 s), heal (5 s), expire (24 h) | pods agree when nothing is lost; healing repairs; the hot snapshot does not go back; no update loops |
| Session records (`db/repos/session.repo.ts`, `index.ts`) | status, isClosed, endsAt, inviteToken of each session | `createSession`, status updates of join and leave, `closeSession`, the 5-minute job | a session that is over stays over; the status fits who is in the room; a created session has a token |
| `SocketManager` | none of its own | authenticates a socket, calls `joinSession`, then registers the event handlers | events of a socket that has no handlers yet are lost |
| Snapshot repository (`db/repos/snapshot.repo.ts`) | MongoDB snapshots | save, get latest | an edit survives every removal of the session from memory |
| Session metadata (`changeMetadata`) | language, fontSize, intelliSense per pod, in the record and in snapshots | change, load, emit | what a client was told is what its pod holds |
| Awareness (`handleAwarenessUpdate`, joins, leaves) | an Awareness per pod | renew, remove, time out | presence ends with the connection and comes back after a wrong removal |
| `KafkaManager` (`config/kafka/kafkaManager.ts`) | consumers, producer, retry interval; in Redis the retry queue | send, consume, retry, disconnect, reload | a message is processed or reaches the dead-letter topic; the queue keeps its cap. Nothing in the service calls it at this commit |
| gRPC server, authentication, cache provider, logging, configuration | — | — | set-up, I/O and stateless checks |

How they interact: a connection makes `SocketManager` call `joinSession`; when
it returns, the socket's events call the other handlers. Handlers await Redis
and MongoDB; between two awaits a handler runs alone on its pod, and at every
await any other handler of the pod, a timer or a message may run. The last
leaver of a session publishes `DESTROY` on the session's control channel; every
pod that subscribed cleans the session up. Document updates travel on another
channel; timers save the document to Redis and read it back.

What is hard here: handlers interleave at some thirty awaits and share maps
keyed by session id; loads take four awaits during which the map entry is
already visible; cleanups overlap loads and each other; sets are keyed by user,
handlers run per connection; status writes rest on records read earlier;
messages get lost; pods crash; any call may be rejected. `PROJECT.json` lists
these hazards at their lines.

## 2. The modules

    SharedDoc      <- implemented by -  DocSync        - MCDocSync        - DocSyncProofs
                                        SessionMemory  - MCSessionMemory  - SessionMemoryProofs
                                                                            \- SessionReleaseProofs
                                        SessionRecord  - MCSessionRecord  - SessionRecordProofs
                                        SessionContent - MCSessionContent - SessionContentProofs
                                                                            \- SessionDurableProofs
                                        Presence       - MCPresence       - PresenceProofs
    AtLeastOnce    <- implemented by -  KafkaRetry     - MCKafkaRetry     - KafkaRetryProofs

All system modules use the same convention: an action is the code between
two awaits, together with the effect at Redis or MongoDB of the call whose reply
it consumes. Calls to different servers can thus take effect in any order, and
any handler may run at any await.

**SessionMemory** is the life of one session in the memory of several pods.
Sessions do not share state, so one is enough. A *task* is one invocation of a
handler for a socket (`join`, `update`, `leave`, `disconnect`, `close`); `pc[t]`
names the await it is in, `cur[t]` the document object it holds across it. The
maps of `SessionService` become `doc`, `meta` and `state` (one value per pod),
the intervals are counted in `timers`, the registrations of `RedisService` are
`sub`, `listeners`, `chan` (doc channels) and `ctlSub`, `ctl`, `ctlq` (control
channel), `parts` is the Redis set. Document objects have identities, because
the code deletes by session id whichever object is there; `loaded` and `ready`
remember how far an object's load went. A load attaches its listener first and
then awaits SUBSCRIBE (`pc` is `"subscribe"`): when Redis rejects it, the listener
stays registered for a session that hears nothing, and every later
`subscribeToSession` returns early. Two history variables say what became of
listeners: `dropped` are the documents a leave or a close took out of the maps while
it kept their listener, `refused` those about whose listener a SUBSCRIBE or an
UNSUBSCRIBE was rejected. An Awareness lives and dies with its Y.Doc, so the two
are one object. The session record is left open: a join may find
it live or ended at any time. A socket raises each event at most once, which
bounds the client, not the service. Faults (a rejected call at every await that
can reject) and crashes are bounded by `MaxFaults` and `MaxCrashes`. A rejection
that no handler catches ends a Node.js process, so it is a crash.

**DocSync** is what the pods do to the content of the document. A Y.Doc is the
set of client edits applied to it: applying is union, idempotent and
commutative, and an update event fires only for what is new. `net` is a set of
messages, because receiving a copy twice changes nothing. `saving` is the queue
of snapshots a pod has sent (Redis executes a connection's commands in order).
`Connected` says whether `RedisService.connect()` has attached the message
listener: at this commit nothing calls it, so `Connected = FALSE` is the code as
wired and `TRUE` the code as its README describes it.

**SharedDoc** is the abstract specification: replicas and the stored copy hold
edits that clients made and nothing else, and a replica forgets only all at
once. It allows any loss and any delay; DocSync implements it with
`replica <- doc, stored <- hot`.

**SessionRecord** is the record of each session of one owner. `expired` stands
for `endsAt <= now`; `closed` is `isClosed`; `token` says whether the invite
token was written. `write[t]` is the status a join or a leave has decided on
after reading the record and will write whatever the record holds by then.
`Creator` are calls of `createSession`; the record of an earlier call may stand
already. A handler that a crash interrupts looks, to the record, like one whose
call is rejected.

**SessionContent** is what one session holds and where: the same handlers as in
SessionMemory, with the awaits between which content moves. Documents and
metadata objects are named by the task whose load made them, so `doc[p]` and
`held[p]` say which object the maps of a pod hold, `content` and `setting` what
is in it. `snaps` is the set of MongoDB snapshots; `findOne` has no sort, so any
of them may be found. `final[t]` is what a leave or a close has encoded before it
awaits MongoDB, and what it decides to do with it. `Learn` brings an edit another
way (DocSync says how); that it may come at any time covers every order.
`excused` collects the edits that one of the losses named in section 3 may take.

**Presence** is the Awareness of each pod. `states[p]` are the connections shown
at pod p, `before[p]` their order of insertion (the leave removes the *first*
entry of the user), `clock[p]` the clocks y-protocols keeps even of removed
entries, `mine` the client's own clock. Every update a client sends is modelled
as a renewal of its entry: what it says about cursor and name is data. A leave whose
participant update is rejected removes nothing (`LeaveFails`), and `failed`
remembers whose. The copies of clients are left out, and so is the copy of a message a pod receives from
itself, which changes nothing. `Expire` is the 30-second timeout of y-protocols:
an entry of a client that has gone, or of one whose renewal the pod missed, once
no message about it is under way (a message takes less than 30 seconds).

**KafkaRetry** is the consumers of one topic. The log has one partition; `at` and
`committed` are a consumer's position and the group's offset. `pc` is where
`eachMessage` is: before the commit of a handled message, in `scheduleRetry`
before ZCARD, before ZADD, or before the commit of a retried one. Every awaited
call to Redis or Kafka is answered, refused, or takes effect without an answer.
The dead-letter topic takes a message only if it has a value to write (`Sendable`):
kafkajs refuses one without, which is then delivered again.
`batch` is what a worker has popped and holds in memory, `phase` follows
`disconnect()` and `reloadConfig()`. `lost` is a history variable that grows in
the steps of the code that drop a message, and in no others.

**AtLeastOnce** is the abstract specification of that topic: a message that was
sent is `owed` to every group until it has been handled there, dead-lettered or
dropped while it was owed, and is owed again only when a consumer returns it, to
every group. Log, offsets, queue, pods and failures do not appear. KafkaRetry
implements it with `sent <- Published` and `owed <- Owed`, what is in the retry
queue, in a worker's batch or in the topic after the group's offset.

## 3. What is checked

Every property is a statement about several handlers or several pods; the
comments above them in the modules say which code they are about. Each property
of a passing run has a mutant (an operator defined just before the one it
replaces) that makes TLC report it.

### Passing runs

| Run | Instance | Shows |
|---|---|---|
| `faults` | 2 pods, 2 users, 1 rejected call, 1 crash, clients vanish at any time, owner closes | `TypeOK`, `NeverDeaf`, `LoadedDocServed`: what is loaded is served, by a listener that hears, unless a call about that listener was rejected; `JoinAnswered`: no client waits for ever |
| `update` | 1 pod, 2 users who update, 1 rejected call | `NoOrphanTimer`, `NoOrphanListener`, `NeverDeaf`, `LoadedDocServed` when loads of one pod overlap and updates load the session again: the listener is that of the document, or of one that a leave has dropped |
| `release` | 2 pods, 2 users, orderly leaves | `ParticipantsExact` and `ReleasedAtRest`: at rest the set is right and nobody keeps an empty session; everything is `Released` in the end |
| `wired` | 2 pods, 2 edits, listener not attached, every fault once | `ImplementsSharedDoc`, `Healed`, `Quiesces` |
| `intended` | 2 pods, 2 edits, listener attached, no loss, failing and expiring saves | `Consistent`, `Converges`, `Quiesces` |
| `records` | 1 session, new or standing, 2 users, 1 creator, close, expiry, job, 1 rejected call | `InactiveWhenLeft`; `EndsForGood` whatever stale status is written |
| `content` | 1 pod, 2 users, one who edits and an owner who closes, both leaving; DESTROY cleanups, 1 rejected write | `Durable`: an edit is lost in the four named ways only |
| `settings` | 1 pod, 2 users who change settings, 1 rejected write | `ToldWhatIsHeld` |
| `presence` | 2 connections: of one user on one pod, of one user on two, of two users on two; 2 messages in flight in any order; 1 loss, 1 reload, 1 rejected leave or 1 extra update | `NeverAhead`; at rest who left is not shown (`NoGhostAtRest`) and the pods show whom the client's own pod shows (`AgreedAtRest`); `GhostsVanish` and `ShownAgain` |
| `retry` | 1 group on 2 pods, a JSON message and an empty one, 1 fault, 1 stop, 1 reload | `QueueBounded`, `Accounted`, `OneFate`, `OffsetsForward`, `ImplementsAtLeastOnce`; every message `Settles` and the retries of the group end (`Quiesces`) |

Each module's `TypeOK` is checked by one of its runs.

### Runs that show a disagreement

Each checks one statement of a comment or the README that the code does not
keep; TLC prints the behaviour.

| Run | Statement | What happens |
|---|---|---|
| `reconnect` | "handles rapid reconnects" (`session.service.ts:128`) | the old connection's leave removes the user and destroys the session under the new connection |
| `restart` | the hot state is for "pod restarts" (`README.md:120`) | a restarted pod overwrites it before reading it |

### What the conditions of the passing runs keep out

The modules contain the following behaviours; the instances of the passing runs
exclude them, because the property fails there:

- `ParticipantsExact` and `ReleasedAtRest` with `DropMidJoin = TRUE`: the
  disconnect handler is
  registered only when `joinSession` has returned (`socketManager.ts:74`), so a
  client that vanishes during its join stays in the participant set.
- `ReleasedAtRest` and `Released` with `"update"` in `Requests`: an update handled
  after the last
  leave loads the session again, and nobody releases it (`session.service.ts:217`).
- `Converges` with `MaxLost = 1`: when the message of an update is lost and an
  older save resets its dirty mark, no save ever holds it and healing never
  brings it to the other pod (`session.service.ts:572`).
- `Converges` with `Connected = FALSE`: nothing in `src/` calls
  `RedisService.connect()`, the only place that attaches the message listener
  (`Redis.service.ts:21`), so edits reach other pods by healing alone.
- `NeverDeaf` and `LoadedDocServed` excuse documents of `refused`. The listener is
  registered before SUBSCRIBE is awaited (`Redis.service.ts:62`, `:68`), so a
  rejected SUBSCRIBE leaves the session deaf, and the next load returns early
  (`:50`), until a cleanup detaches the listener. A rejected UNSUBSCRIBE (`:76`) may
  leave it so, too.
- `LoadedDocServed` excuses listeners of `dropped` documents: a leave or a close
  deletes the document and keeps its listener (`session.service.ts:317`), so a
  document that an update loads afterwards (`:217`) is fed by nobody: the
  listener applies messages to the document that is gone.
- `ReconnectKeepsSession` fails; `InactiveWhenLeft` (`OneSocketEach`) and
  `NoGhostAtRest` (`Alone`) therefore speak of users with one connection.
- `HotGrows` with a second pod: each pod saves its own document, and one that has
  not received an edit saves over the hot snapshot of one that has
  (`session.service.ts:571`).
- `Durable` excuses the edits of four losses:
  - an edit applied to a document that nobody had joined, that a handler was
    about to delete, or that had been replaced (`session.service.ts:317`, `:217`);
  - an edit of a save that MongoDB rejects in the last leave
    (`session.service.ts:311`), because it was down or because the settings are
    ones its schema does not support: `changeMetadata` takes any string
    (`session.service.ts:411`), and then every final save fails;
  - an edit that DESTROY finds on a pod that is not the leaver's: DESTROY removes
    the documents of all pods, and only the last leaver's pod saves
    (`session.service.ts:545`);
  - the leaver's own document, when the cleanup that DESTROY sets off on its own pod
    (an UNSUBSCRIBE) ends before the answer of the PUBLISH is handled: the document
    is gone from the map and nothing is saved (`session.service.ts:290`).
- `NoGhostAtRest` after a lost message or a reload: the ghost stays until the
  timeout; an entry that was lost stays away until the client's next renewal. The
  same after a rejected leave: when the removal of the participant from the record
  or from the set rejects (`session.service.ts:241`), control goes to the catch (`:330`), nothing is
  removed or published, and the ghost is shown until the timeout.
- `AgreedAtRest` does not speak of pods on which the user joined again: the
  join removes the user's entries on that pod alone (`Cleared`).
  As wired (`Connected = FALSE`) pods do not show each other's users.
- `OneFate` with two groups or a fault: a message one group retries is delivered to
  all of them again, and one that was handled but not committed is processed twice,
  so a group may handle a message and dead-letter a copy of it. `OneFate` with
  `MaxRetries = 0`: a first message without a value is refused by the dead-letter
  topic too, nothing is committed, and a consumer that starts anew begins after it.
- `Accounted` names three steps that drop messages: a worker that stops or fails
  while it holds a batch (`kafkaManager.ts:266`, `:285`), a ZPOPMIN whose answer
  is lost, and a group that has not committed an offset and starts at the end of
  the topic (`kafkaManager.ts:141`).

The modules also contain these behaviours, which no property excludes:

- A rejected control SUBSCRIBE (`Redis.service.ts:95`) leaves a pod that does not
  hear DESTROY: the document the fallback then serves is released by no other
  pod's last leave. A document served by the fallback after a failed restore
  has no snapshot, no metadata and no loops; no property calls it loaded.
- A client that vanishes during its join stays in the participant set.
- A message without a value cannot be dead-lettered before its first retry
  (`kafkaManager.ts:206`, `:221`, `:89`): with a full queue it is refused and
  delivered again until there is room.
- A second join while the first loads the document finds it in the map and is
  sent it before the snapshot is applied (`session.service.ts:503`, where
  `socketManager.ts:73` says that joinSession "ensures initial-state"); it may
  also find no settings yet and be told none (`session.service.ts:161`).
- `isDirty` is reset after the awaited save, for updates that save does not hold
  (`session.service.ts:572`).
- A join or leave writes the status it decided on before a close: ended becomes
  active or offline for a while (`session.service.ts:173`, `:283`), until the
  periodic job ends it again.
- `createSession` answers a `null` token for a record whose token is not written
  yet (`session.service.ts:59`), and two calls may insert two live sessions.
- With several snapshots any may be restored, an older one included
  (`snapshot.repo.ts:50`): the edits are in MongoDB but not on the screen.
- After `reloadConfig` a pod neither consumes nor sends, since `init()` finds
  producer and admin set and connects nothing (`kafkaManager.ts:45`): its retry
  worker, if started again, can only drop what it pops.
- An empty message that is retried comes back as an empty string, which is not
  JSON, and goes to the dead-letter topic (`kafkaManager.ts:234`).

### Bounds

Two sockets are the fewest that overlap, and one user with two of them the
fewest that reconnect. Each handler runs at most once per socket, which gives all
orders of two joins, leaves, updates and a close; the proofs of section 5 show
that the safety properties do not depend on any of these numbers. One fault and
one crash are enough to interrupt any handler at any await once. In DocSync an
edit that is saved and one that is not need two edits; two saves in flight let
one tick overtake another. In SessionRecord two clients give a join that overlaps
the last leave and a close that overlaps both; the standing record gives a call of
createSession that finds what another has inserted. In SessionContent two clients
give a join, an update and a leave that overlap a close and its DESTROY cleanups;
two settings give two values a client can be told. In Presence two connections
are the fewest of which one may be removed for the other; `MaxNet = 2` bounds when
a client sends, so that a renewal and a removal of one connection are in flight
together and arrive in either order, and `MaxEvents` bounds extra updates, losses,
reloads and rejected leaves together. In the update run the two clients are alike,
so one order of them is enough (`SYMMETRY`). In KafkaRetry two pods are the
fewest between which a partition moves and whose handlers pass the cap together;
one retry and a cap of one make exhaustion and a full queue happen; one group
and two messages keep the run small. Of several groups the proofs of section 5
cover the safety properties; that their retries end is not checked (`Quiesces` and
`Settles` speak of the one group of the run). `CHECK_DEADLOCK FALSE` is set because
every client
acts a bounded number of times (and producers send a bounded number of messages):
when all have gone, nothing is left to do.

## 4. Fairness

`FairSpec` assumes weak fairness of: the next step of every running handler
(Node.js runs a continuation whose reply has come; Redis and MongoDB answer,
possibly by rejecting, which is a fault step), the delivery of control and
document messages, the persistence and healing intervals, and the periodic job
(timers tick for ever). SessionRecord takes handlers
and creations together, the weaker assumption. In KafkaRetry the broker assigns a
partition nobody has and a shutdown that began goes on; in Presence one weak fairness
condition covers leaves, the renewals of connected clients that are not shown
everywhere, deliveries and timeouts together: the timers of y-protocols tick and
messages arrive. Nothing makes a client connect, edit, leave or disconnect, time pass, a
message be published, a process stop, or a fault happen. Interval callbacks that
find nothing to do are not steps.

## 5. What is proved

For every set of pods, sockets, users, edits and sessions, and every bound,
from the constant assumptions of the modules (`ConstantsAssumption`: functions
have their domains, bounds are naturals, `None` is no document, record, status or
session).

**SessionMemoryProofs.** `Inv1` is type correctness with `NoOrphanTimer`,
`NoOrphanListener` and `HeldDoc` (a loading task holds the object it created).
It is inductive and gives `TypeCorrect`, `TimersOwned` and `ListenersOwned`.
`NeverDeaf` is inductive over it (`DeafOnlyInCleanup`). `LoadedDocServed` is not
inductive: an object becomes ready at the end of a load that other handlers
interrupt, and a DESTROY callback removes loops before it removes the document.
`Inv2` says what holds meanwhile: a document in memory has a registered listener
(`Housed`), which is its own or that of a document a leave or a close has dropped
(`Bound`), a ready object's load is over (`ReadyIsOver`), a load in its last
await already has metadata and the control subscription (`AlmostReady`), and a
ready document has its loops unless a callback is about to remove it
(`ReadyServed`). With `NeverDeaf` it gives `LoadedServed`.

**SessionReleaseProofs.** What holds only when clients behave in an orderly way is
stated with the conditions without which it is false: one socket for each user, no
client that vanishes during its join and no close (`Undisturbed`), and no rejected
call and no crash so far (`Orderly`). `ParticipantsExact` speaks of states in which
nothing runs; `Inv3` says what holds in between: a user is in the set exactly from
the SADD of its join to the first SREM (`PartsExact`), which needs that leaves come
after their join (`LeavesLater`) and who is connected (`ConnExact`). With it comes
`ParticipantsAgree`. For `NothingLeftBehind` (no client sends updates, either)
`Inv4` says that a pod that keeps anything of the session will hear DESTROY, now or
at the end of the load that is under way (`Heard`), and that whenever the set is
empty and no leave is on its way to its publish, DESTROY has been sent to every pod
that keeps something and has not yet been handled there (`Swept`).

**DocSyncProofs.** `Known` (whatever holds an edit, the edit was made) with the
types is inductive, and makes every step a step of SharedDoc or a stutter
(`Refinement`). What holds only with the listener attached (`Consistent`,
`Converges`) is left to TLC, since nothing attaches it at this commit.
`HotGrows` fails when a pod restarts (run `restart`) or when there are two; for one
pod that does not crash (`OnePod`) it holds, because the hot snapshot, the saves in
flight and the document are then ordered by age (`InOrder`), whatever overlaps,
fails or expires (`HotNeverGoesBack`).

**SessionRecordProofs.** `Inv` adds to the types that a running handler works on
a session that was created (`Placed`, `MadeOne`) and that a pending write has a
value (`Decided`). `InactiveWhenLeft` speaks of sessions at rest only; `Settled`
says what holds on the way: in an empty session that somebody left, the status is
not active or a leave is still between SREM and its write. It needs that a join
about to write keeps its user in the set (`Present`, which is where two
connections of one user would break it), that leaves never write active
(`LeaveWrites`), and that handlers of a socket start after its join (`NotYet`).

**SessionContentProofs.** `Inv` adds to the types that every metadata object
somebody holds or was told of has been loaded and is not loaded again
(`Objects`), without which a load could change what clients were told, and that a
change under way has its object. `ToldWhatIsHeld` speaks of moments when no change
is unanswered; `Answered` says what holds in between: what a client was told is
what the object holds, or a change of that object is still to be announced
(`ToldTheTruth`).

**SessionDurableProofs.** For several pods and any settings; the losses are those
`Durable` names and no others. `Safe` strengthens `Durable`: an edit that is only in
a pod's document is there while nothing is about to remove it, except a cleanup that
waits for a leaver who will take the document first (`Calm`). What happens on one
pod leaves the others calm (`CalmElsewhere`), but for DESTROY, which excuses what
it finds there. `Skipped` says that a save the de-dupe skips was made before.
Together they give `EditsDurable`.

**PresenceProofs.** `NeverAhead` and the types are inductive with three facts
about connections without entries, the insertion order and the unwired case.
`NoGhostAtRest` needs `Tracked`, which says for a user's only connection why each
pod shows it: its own because it is connected or its leave is still to come,
another one because its own does or because a removal with a clock high enough is
on its way, whatever older messages are, too; an entry that has expired elsewhere
sends a removal back to its own pod, and then nothing that would show it is under
way. It is inductive while nothing was lost or reloaded, says of a rejected leave
that the entry may stay (`failed`), and gives `NoGhosts`. `AgreedAtRest` has an
invariant of its own, `Agreed`, for every connection: while its own pod shows it,
and no removal at its clock is coming back, every other pod shows it at that clock or
has the message with it on its way, and every removal under way is older
(`UpToDate`), but for pods its user has joined from again (`PodsAgree`). Both were
checked by TLC as invariants on larger instances first.

**KafkaRetryProofs.** `Inv` adds to the types that a handler at work has a message
in the log, and one about to add it may retry it. `CapHolds` counts: the members
of the queue and the handlers that were told there is room are at most the cap
and the other handlers together (`Capped`). `Accounted` is not inductive either:
what matters is every position a group may start from. `Covered` says that
nothing before the committed offset, nor before the position of the consumer that
owns the partition, would be missed by starting there, and what a handler about
to commit has done for its message (`NothingForgotten`). `OffsetsForward` rests on
`OwnerAhead`: the consumer that owns the partition is at most one message behind the
committed offset (the commit whose answer was lost), and who lost the partition
commits nothing (`OffsetsOnlyForward`). `OneFate` needs to know where the only copy
of a message is: `Once` says that, with one group and without faults, nothing is
twice in the rest of the topic (`InTopic`) or in queue and batches (`InQueue`), that
what waits there is not in the topic and has no fate (`Apart`), and that only the
owner of the partition is at work (`Calm`). A partition also changes hands without a
fault, and what the next consumer starts with is the same rest of the topic, because
the owner is where the group has committed, and it has committed before it gives up a
message it has put into the queue (`Steady`). Together they give `FateDecidedOnce`. The
refinement `PromiseKept` uses `OwnerAhead`, `NothingForgotten` of the next state
(what stops being owed has a fate) and `Known` (what waits for a retry was
published); the lemmas before it say how `Owed` moves with the log, the queue, the
batches and the offsets.

**Only model-checked:** the liveness properties (`Released`, `JoinAnswered`,
`Healed`, `Quiesces` in both modules, `Converges`, `EndsForGood`, `Settles`,
`GhostsVanish`, `ShownAgain`), which need reasoning about ENABLED that the prover
does not offer, and `Consistent`. Every other invariant and action property of a
passing run is stated by a theorem, those of SessionReleaseProofs under conditions
that its theorems name.

## 6. What is not modelled, and the plan

Not modelled for good: chat and code-execution events (stateless relays),
authentication, gRPC set-up, statistics, logging, configuration, the cache
provider (unused by the session service), `createTopic` and `sendBatch` of the
Kafka manager (one call, no state), `shutdownAndSaveAllSessions` and
`logOperation` (called by nothing).

Left out of the modules that exist: the expiry of snapshots in MongoDB and
rejected loads in SessionContent (SessionMemory has the rejected loads, without
contents); validation of the font size, which changes and sends nothing; several
partitions and several retry topics in KafkaRetry; the scores of the retry queue,
since the worker pops the lowest whether or not they are due
(`kafkaManager.ts:266`).

Next, in this order:

1. A run of two pods for `Durable`, with DocSync's message delivery in place of
   `Learn`, and one of two groups for the retries' end.
2. An abstract specification of a session record (created, in use, over) that
   SessionRecord implements, with the writes of stale statuses as its only
   excursions.
3. `NothingLeftBehind` for clients that send updates: what an update that comes
   after the last leave keeps alive, stated as what remains instead of nothing.
