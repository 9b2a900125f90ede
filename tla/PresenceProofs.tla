--------------------------- MODULE PresenceProofs ---------------------------
(***************************************************************************)
(* Proofs about Presence, for every set of pods, connections and users,    *)
(* every placement of the connections, both wirings and every bound.       *)
(***************************************************************************)
EXTENDS Presence, TLAPS

-----------------------------------------------------------------------------
(* The inductive invariant. *)

\* A removal of c that pod q will take for what it shows at clock k.
OffComing(c, q, k) ==
    \E m \in net : m.to = q /\ m.conn = c /\ ~m.on /\ m.clock >= k

\* Nothing of a connection exists before its join has returned.
Unborn ==
    \A c \in Conn : pc[c] = "new" =>
        /\ c \notin conn /\ leaves[c] = 0
        /\ \A p \in Pod : c \notin states[p]
        /\ \A m \in net : m.conn # c

\* An entry was not inserted before itself: First is not empty for nothing.
Irreflexive == \A p \in Pod, c \in Conn : <<c, c>> \notin before[p]

\* As wired, nothing crosses pods.
Separate ==
    ~Connected => /\ net = {}
                  /\ \A c \in Conn : \A p \in Pod \ {Home(c)} : c \notin states[p]

\* What the pods show of the only connection of a user, while nothing was lost
\* and no pod has loaded the session anew.
Tracked(c) ==
    /\ clock[Home(c)][c] = mine[c]
    /\ c \in states[Home(c)] => c \in conn \/ leaves[c] > 0 \/ c \in failed
    \* Another pod shows it because its own does, or until a removal arrives.
    /\ \A q \in Pod \ {Home(c)} :
        c \in states[q] => c \in states[Home(c)] \/ OffComing(c, q, clock[q][c])
    \* The same of a message that would show it, unless it comes too late.
    /\ \A m \in net : m.conn = c /\ m.on =>
        /\ m.to # Home(c)
        /\ \/ c \in states[Home(c)]
           \/ OffComing(c, m.to, m.clock)
           \/ clock[m.to][c] >= m.clock
    \* A removal goes to its own pod only when the entry has expired elsewhere.
    /\ \A m \in net : m.conn = c /\ m.to = Home(c) =>
        /\ c \notin conn
        /\ \A n \in net : n.conn = c => ~n.on
        /\ m.clock = mine[c] =>
            \A q \in Pod \ {Home(c)} :
                c \in states[q] => OffComing(c, q, clock[q][c])

Orderly == lost = 0 /\ reloads = 0

Base ==
    /\ TypeOK /\ NeverAhead
    /\ Unborn /\ Irreflexive /\ Separate
    /\ lost = 0 => missed = {}

Inv ==
    /\ Base
    /\ Orderly => \A c \in Conn : Alone(c) => Tracked(c)

\* Pod q shows c at the client's clock, or is about to, and nothing on its way
\* there can take that back.
UpToDate(q, c) ==
    /\ \A m \in net : m.to = q /\ m.conn = c /\ ~m.on => m.clock < mine[c]
    /\ \/ clock[q][c] = mine[c] /\ c \in states[q]
       \/ /\ clock[q][c] < mine[c]
          /\ \E m \in net : m.to = q /\ m.conn = c /\ m.on /\ m.clock = mine[c]

\* While c is shown by its own pod, and no removal will change that, the others
\* keep up, but those that its user's joins have cleared.
Agrees(c) ==
    /\ clock[Home(c)][c] = mine[c]
    /\ \A m \in net : m.conn = c /\ m.on => m.to # Home(c)
    /\ Connected /\ c \in states[Home(c)] /\ ~OffComing(c, Home(c), mine[c]) =>
        \A q \in Pod \ {Home(c)} : Cleared(q, c) \/ UpToDate(q, c)

Agreed == Orderly => \A c \in Conn : Agrees(c)

-----------------------------------------------------------------------------
(* What the helpers do, entry by entry. *)

LEMMA RemoveFacts ==
    ASSUME TypeOK, NEW p \in Pod, NEW C \in SUBSET Conn, Remove(p, C)
    PROVE  /\ states' \in [Pod -> SUBSET Conn]
           /\ before' \in [Pod -> SUBSET (Conn \X Conn)]
           /\ \A q \in Pod, d \in Conn :
                d \in states'[q] <=> d \in states[q] /\ ~(q = p /\ d \in C)
           /\ \A q \in Pod : before'[q] \subseteq before[q]
<1>1. /\ states' = [states EXCEPT ![p] = states[p] \ C]
      /\ before' = [before EXCEPT ![p] =
                        {o \in before[p] : o[1] \notin C /\ o[2] \notin C}]
  BY DEF Remove
<1>2. states' \in [Pod -> SUBSET Conn] /\ before' \in [Pod -> SUBSET (Conn \X Conn)]
  BY <1>1 DEF TypeOK
<1>3. \A q \in Pod, d \in Conn :
        d \in states'[q] <=> d \in states[q] /\ ~(q = p /\ d \in C)
  BY <1>1 DEF TypeOK
<1>4. \A q \in Pod : before'[q] \subseteq before[q]
  BY <1>1 DEF TypeOK
<1> QED BY <1>2, <1>3, <1>4

LEMMA InsertFacts ==
    ASSUME TypeOK, Irreflexive, NEW p \in Pod, NEW c \in Conn, Insert(p, c)
    PROVE  /\ states' \in [Pod -> SUBSET Conn]
           /\ before' \in [Pod -> SUBSET (Conn \X Conn)]
           /\ \A q \in Pod, d \in Conn :
                d \in states'[q] <=> d \in states[q] \/ (q = p /\ d = c)
           /\ Irreflexive'
<1> DEFINE b == IF c \in states[p] THEN before[p]
                ELSE before[p] \cup ((states[p] \cap Sibling(c)) \X {c})
<1>1. states' = [states EXCEPT ![p] = states[p] \cup {c}] /\ before' = [before EXCEPT ![p] = b]
  BY DEF Insert
<1>2. b \in SUBSET (Conn \X Conn) /\ \A d \in Conn : <<d, d>> \notin b
  BY DEF TypeOK, Irreflexive
<1> HIDE DEF b
<1>3. states' \in [Pod -> SUBSET Conn] /\ before' \in [Pod -> SUBSET (Conn \X Conn)]
  BY <1>1, <1>2 DEF TypeOK
<1>4. \A q \in Pod, d \in Conn : d \in states'[q] <=> d \in states[q] \/ (q = p /\ d = c)
  BY <1>1 DEF TypeOK
<1>5. Irreflexive'
  BY <1>1, <1>2 DEF TypeOK, Irreflexive
<1> QED BY <1>3, <1>4, <1>5

\* An update of c changes c at p, and only if it is accepted.
Applied(p, c, k, on) ==
    /\ states' \in [Pod -> SUBSET Conn]
    /\ before' \in [Pod -> SUBSET (Conn \X Conn)]
    /\ clock' \in [Pod -> [Conn -> Nat]]
    /\ Irreflexive'
    /\ \A q \in Pod, d \in Conn : q # p \/ d # c =>
        (d \in states'[q] <=> d \in states[q]) /\ clock'[q][d] = clock[q][d]
    /\ Accepts(p, c, k, on) =>
        (c \in states'[p] <=> on) /\ clock'[p][c] = k
    /\ ~Accepts(p, c, k, on) =>
        (c \in states'[p] <=> c \in states[p]) /\ clock'[p][c] = clock[p][c]

LEMMA ApplyFacts ==
    ASSUME TypeOK, Irreflexive, NEW p \in Pod, NEW c \in Conn, NEW k \in Nat,
           NEW on \in BOOLEAN, Apply(p, c, k, on)
    PROVE  Applied(p, c, k, on)
<1> USE DEF Applied
<1>1. CASE ~Accepts(p, c, k, on)
  BY <1>1 DEF Apply, entries, TypeOK, Irreflexive
<1>2. CASE Accepts(p, c, k, on)
  <2>1. clock' = [clock EXCEPT ![p][c] = k]
    BY <1>2 DEF Apply
  <2>2. /\ clock' \in [Pod -> [Conn -> Nat]]
        /\ \A q \in Pod, d \in Conn :
            clock'[q][d] = IF q = p /\ d = c THEN k ELSE clock[q][d]
    BY <2>1 DEF TypeOK
  <2>3. CASE on
    <3>1. Insert(p, c)
      BY <1>2, <2>3 DEF Apply
    <3> QED BY <1>2, <2>2, <2>3, <3>1, InsertFacts
  <2>4. CASE ~on
    <3>1. Remove(p, {c})
      BY <1>2, <2>4 DEF Apply
    <3>2. /\ states' \in [Pod -> SUBSET Conn]
          /\ before' \in [Pod -> SUBSET (Conn \X Conn)]
          /\ \A q \in Pod, d \in Conn :
                d \in states'[q] <=> d \in states[q] /\ ~(q = p /\ d \in {c})
          /\ \A q \in Pod : before'[q] \subseteq before[q]
      BY <3>1, RemoveFacts
    <3>3. Irreflexive'
      BY <3>2 DEF Irreflexive
    <3> QED BY <1>2, <2>2, <2>4, <3>2, <3>3
  <2> QED BY <2>3, <2>4
<1> QED BY <1>1, <1>2

\* What is published is in flight to every other pod, beside what was before.
Published(p, c, k, on) ==
    /\ net' \subseteq Message /\ net \subseteq net'
    /\ \A m \in net' \ net :
        Connected /\ m.to # p /\ m.conn = c /\ m.clock = k /\ m.on = on
    /\ Connected => \A q \in Pod \ {p} :
        [to |-> q, conn |-> c, clock |-> k, on |-> on] \in net'

LEMMA PublishFacts ==
    ASSUME TypeOK, NEW p \in Pod, NEW c \in Conn, NEW k \in Nat, NEW on \in BOOLEAN,
           net' = Publish(p, c, k, on)
    PROVE  Published(p, c, k, on)
  BY DEF Published, Publish, TypeOK, Message

\* Places of connections do not change.
LEMMA PlaceFacts ==
    ASSUME TypeOK
    PROVE  /\ \A c \in Conn : Home(c) \in Pod /\ c \in Sibling(c)
           /\ \A c \in Conn : Sibling(c) \subseteq Conn
           /\ \A c, d \in Conn : Alone(c) /\ c \in Sibling(d) => d = c
           /\ UNCHANGED origin => \A c \in Conn :
                /\ Home(c)' = Home(c)
                /\ Sibling(c)' = Sibling(c)
                /\ Alone(c)' <=> Alone(c)
<1>1. \A c \in Conn : Home(c) \in Pod /\ c \in Sibling(c) /\ Sibling(c) \subseteq Conn
  BY DEF TypeOK, Home, Sibling
<1>2. ASSUME NEW c \in Conn, NEW d \in Conn, Alone(c), c \in Sibling(d)
      PROVE  d = c
  <2>1. d \in Sibling(c)
    BY <1>2 DEF Sibling
  <2> QED BY <2>1, <1>2 DEF Alone
<1>3. ASSUME UNCHANGED origin, NEW c \in Conn
      PROVE  Home(c)' = Home(c) /\ Sibling(c)' = Sibling(c) /\ (Alone(c)' <=> Alone(c))
  BY <1>3 DEF Home, Sibling, Alone
<1> QED BY <1>1, <1>2, <1>3

-----------------------------------------------------------------------------
(* Base is inductive by itself. *)

LEMMA BaseJoin ==
    ASSUME Base, NEW c \in Conn, Join(c)
    PROVE  Base'
<1> USE DEF Base
<1>1. Home(c) \in Pod /\ Sibling(c) \in SUBSET Conn
  BY PlaceFacts
<1>2. /\ states' \in [Pod -> SUBSET Conn]
      /\ before' \in [Pod -> SUBSET (Conn \X Conn)]
      /\ \A q \in Pod, d \in Conn : d \in states'[q] => d \in states[q]
      /\ \A q \in Pod : before'[q] \subseteq before[q]
  <2> HIDE DEF Base
  <2>1. TypeOK /\ Remove(Home(c), Sibling(c))
    BY DEF Base, Join
  <2> QED BY <1>1, <2>1, RemoveFacts
<1>3. TypeOK'
  BY <1>2 DEF TypeOK, Join, budget
<1>4. NeverAhead'
  BY DEF NeverAhead, Join
<1>5. Unborn'
  BY <1>2 DEF Unborn, Join, TypeOK
<1>6. Irreflexive' /\ Separate'
  BY <1>2 DEF Irreflexive, Separate, Join, Home
<1>7. (lost = 0 => missed = {})'
  BY DEF Join, budget
<1> QED BY <1>3, <1>4, <1>5, <1>6, <1>7

LEMMA BaseSend ==
    ASSUME Base, NEW c \in Conn, Send(c)
    PROVE  Base'
<1> DEFINE k == mine[c] + 1
<1>1. TypeOK /\ Irreflexive /\ NeverAhead /\ Unborn /\ Separate
  BY DEF Base
<1>2. Home(c) \in Pod /\ k \in Nat /\ TRUE \in BOOLEAN
  BY <1>1, PlaceFacts DEF TypeOK
<1>3. Apply(Home(c), c, k, TRUE) /\ net' = Publish(Home(c), c, k, TRUE)
  BY DEF Send
<1>4. /\ \A d \in Conn : mine'[d] = IF d = c THEN k ELSE mine[d]
      /\ mine' \in [Conn -> Nat]
  BY <1>1, <1>2 DEF Send, TypeOK
<1>5. /\ states' \in [Pod -> SUBSET Conn]
      /\ before' \in [Pod -> SUBSET (Conn \X Conn)]
      /\ clock' \in [Pod -> [Conn -> Nat]]
      /\ Irreflexive'
      /\ \A q \in Pod, d \in Conn : q # Home(c) \/ d # c =>
            (d \in states'[q] <=> d \in states[q]) /\ clock'[q][d] = clock[q][d]
      /\ clock'[Home(c)][c] \in {k, clock[Home(c)][c]}
  <2> HIDE DEF k
  <2>1. Applied(Home(c), c, k, TRUE)
    BY <1>1, <1>2, <1>3, ApplyFacts
  <2> QED BY <2>1 DEF Applied
<1>6. /\ net' \subseteq Message /\ net \subseteq net'
      /\ \A m \in net' \ net : Connected /\ m.conn = c /\ m.clock = k
  <2> HIDE DEF k
  <2>1. Published(Home(c), c, k, TRUE)
    BY <1>1, <1>2, <1>3, PublishFacts
  <2> QED BY <2>1 DEF Published
<1>7. TypeOK'
  <2>1. updates' \in Nat /\ missed' \subseteq missed
    BY <1>1 DEF Send, TypeOK
  <2>2. UNCHANGED <<origin, pc, conn, leaves, failed, lost, reloads>>
    BY DEF Send
  <2> QED BY <1>1, <1>4, <1>5, <1>6, <2>1, <2>2 DEF TypeOK
<1>8. NeverAhead'
  <2>1. ASSUME NEW p \in Pod, NEW d \in Conn
        PROVE  clock'[p][d] <= mine'[d]
    <3>1. clock[p][d] <= mine[d] /\ clock[p][d] \in Nat /\ mine[d] \in Nat /\ mine[c] \in Nat
      BY <1>1 DEF TypeOK, NeverAhead
    <3>2. CASE p = Home(c) /\ d = c
      BY <1>2, <1>4, <1>5, <3>1, <3>2
    <3>3. CASE p # Home(c) \/ d # c
      BY <1>4, <1>5, <3>1, <3>3
    <3> QED BY <3>2, <3>3
  <2>2. ASSUME NEW m \in net'
        PROVE  m.clock <= mine'[m.conn]
    <3>1. m.conn \in Conn /\ mine[m.conn] \in Nat /\ m.clock \in Nat /\ mine[c] \in Nat
      BY <1>1, <1>6 DEF TypeOK, Message
    <3>2. CASE m \in net
      BY <1>1, <1>4, <3>1, <3>2 DEF NeverAhead
    <3>3. CASE m \notin net
      BY <1>2, <1>4, <1>6, <3>1, <3>3
    <3> QED BY <3>2, <3>3
  <2> QED BY <2>1, <2>2 DEF NeverAhead
<1>9. Unborn'
  <2>1. pc' = pc /\ conn' = conn /\ leaves' = leaves /\ pc[c] # "new"
    BY DEF Send
  <2> QED BY <1>1, <1>5, <1>6, <2>1 DEF Unborn
<1>10. Separate'
  <2>1. \A d \in Conn : Home(d)' = Home(d)
    BY <1>1, PlaceFacts DEF Send
  <2>2. \A d \in Conn : \A p \in Pod \ {Home(d)} : d \in states'[p] => d \in states[p]
    BY <1>5
  <2> QED BY <1>1, <1>6, <2>1, <2>2 DEF Separate
<1>11. (lost = 0 => missed = {})'
  BY DEF Send, Base
<1> QED BY <1>5, <1>7, <1>8, <1>9, <1>10, <1>11 DEF Base

LEMMA BaseLeave ==
    ASSUME Base, NEW c \in Conn, Leave(c)
    PROVE  Base'
<1> USE DEF Base
<1>1. TypeOK'
  BY DEF TypeOK, Leave, entries, budget
<1>2. NeverAhead' /\ Irreflexive' /\ Separate'
  BY DEF NeverAhead, Irreflexive, Separate, Leave, entries, Home
<1>3. Unborn'
  BY DEF Unborn, Leave, entries, TypeOK
<1>4. (lost = 0 => missed = {})'
  BY DEF Leave, budget
<1> QED BY <1>1, <1>2, <1>3, <1>4

\* The common part of LeaveRemove and Expire: entries leave a pod, and the
\* removal of one of them is published.
LEMMA BaseWithdraw ==
    ASSUME Base, NEW p \in Pod, NEW C \in SUBSET Conn, NEW d \in Conn, d \in states[p],
           Remove(p, C), net' \in {net, Publish(p, d, clock[p][d], FALSE)},
           UNCHANGED <<origin, pc, conn, mine, clock, missed, budget>>,
           leaves' \in [Conn -> Nat], failed' \subseteq Conn,
           \A e \in Conn : leaves[e] = 0 => leaves'[e] = 0
    PROVE  Base'
<1>1. TypeOK /\ Irreflexive /\ NeverAhead /\ Unborn /\ Separate
  BY DEF Base
<1>2. /\ states' \in [Pod -> SUBSET Conn]
      /\ before' \in [Pod -> SUBSET (Conn \X Conn)]
      /\ \A q \in Pod, e \in Conn : e \in states'[q] => e \in states[q]
      /\ \A q \in Pod : before'[q] \subseteq before[q]
  BY <1>1, RemoveFacts
<1>3. clock[p][d] \in Nat /\ FALSE \in BOOLEAN
  BY <1>1 DEF TypeOK
<1>4. /\ net' \subseteq Message
      /\ \A m \in net' \ net : Connected /\ m.conn = d /\ m.clock = clock[p][d]
  <2>1. CASE net' = net
    BY <1>1, <2>1 DEF TypeOK
  <2>2. CASE net' = Publish(p, d, clock[p][d], FALSE)
    <3>1. Published(p, d, clock[p][d], FALSE)
      BY <1>1, <1>3, <2>2, PublishFacts
    <3> QED BY <3>1 DEF Published
  <2> QED BY <2>1, <2>2
<1>5. TypeOK'
  BY <1>1, <1>2, <1>4 DEF TypeOK, budget
<1>6. NeverAhead'
  BY <1>1, <1>4 DEF NeverAhead
<1>7. Unborn'
  BY <1>1, <1>2, <1>4 DEF Unborn
<1>8. Irreflexive' /\ Separate'
  BY <1>1, <1>2, <1>4 DEF Irreflexive, Separate, Home
<1>9. (lost = 0 => missed = {})'
  BY DEF Base, budget
<1> QED BY <1>5, <1>6, <1>7, <1>8, <1>9 DEF Base

LEMMA BaseLeaveRemove ==
    ASSUME Base, NEW c \in Conn, LeaveRemove(c)
    PROVE  Base'
<1> DEFINE p == Home(c)
<1>1. TypeOK
  BY DEF Base
<1>2. p \in Pod /\ First(p, c) \in SUBSET (states[p] \cap Conn)
  BY <1>1, PlaceFacts DEF First, TypeOK
<1>3. /\ leaves' \in [Conn -> Nat] /\ failed' \subseteq Conn
      /\ \A e \in Conn : leaves[e] = 0 => leaves'[e] = 0
  BY <1>1 DEF LeaveRemove, TypeOK
<1>4. /\ Remove(p, First(p, c))
      /\ UNCHANGED <<origin, pc, conn, mine, clock, missed, budget>>
  BY DEF LeaveRemove
<1>5. CASE First(p, c) = {}
  <2>1. states' = states /\ before' = before /\ UNCHANGED net
    BY <1>1, <1>2, <1>4, <1>5 DEF Remove, LeaveRemove, TypeOK
  <2> QED BY <1>3, <1>4, <2>1
    DEF Base, TypeOK, NeverAhead, Unborn, Irreflexive, Separate, Home, budget
<1>6. CASE First(p, c) # {}
  <2>1. PICK d \in First(p, c) : net' = Publish(p, d, clock[p][d], FALSE)
    BY <1>6 DEF LeaveRemove
  <2> QED BY <1>2, <1>3, <1>4, <2>1, BaseWithdraw
<1> QED BY <1>5, <1>6

LEMMA BaseLeaveFails ==
    ASSUME Base, NEW c \in Conn, LeaveFails(c)
    PROVE  Base'
<1> USE DEF Base
<1>1. TypeOK'
  BY DEF TypeOK, LeaveFails, entries, budget
<1>2. NeverAhead' /\ Irreflexive' /\ Separate'
  BY DEF NeverAhead, Irreflexive, Separate, LeaveFails, entries, Home
<1>3. Unborn'
  BY DEF Unborn, LeaveFails, entries, TypeOK
<1>4. (lost = 0 => missed = {})'
  BY DEF LeaveFails, budget
<1> QED BY <1>1, <1>2, <1>3, <1>4

LEMMA BaseExpire ==
    ASSUME Base, NEW p \in Pod, NEW c \in Conn, Expire(p, c)
    PROVE  Base'
<1>1. TypeOK
  BY DEF Base
<1>2. /\ c \in states[p] /\ Remove(p, {c})
      /\ net' = Publish(p, c, clock[p][c], FALSE)
      /\ UNCHANGED <<origin, pc, conn, mine, clock, missed, budget>>
      /\ leaves' \in [Conn -> Nat] /\ failed' \subseteq Conn
      /\ \A e \in Conn : leaves[e] = 0 => leaves'[e] = 0
  BY <1>1 DEF Expire, TypeOK
<1> QED BY <1>2, BaseWithdraw

LEMMA BaseDeliver ==
    ASSUME Base, NEW m \in net, Deliver(m)
    PROVE  Base'
<1>1. TypeOK /\ Irreflexive /\ NeverAhead /\ Unborn /\ Separate
  BY DEF Base
<1>2. /\ m.to \in Pod /\ m.conn \in Conn /\ m.clock \in Nat /\ m.on \in BOOLEAN
      /\ m.clock <= mine[m.conn] /\ Connected /\ pc[m.conn] # "new"
  BY <1>1 DEF TypeOK, Message, NeverAhead, Separate, Unborn
<1>3. Apply(m.to, m.conn, m.clock, m.on) /\ net' \subseteq net
  BY DEF Deliver
<1>4. /\ states' \in [Pod -> SUBSET Conn]
      /\ before' \in [Pod -> SUBSET (Conn \X Conn)]
      /\ clock' \in [Pod -> [Conn -> Nat]]
      /\ Irreflexive'
      /\ \A q \in Pod, d \in Conn : q # m.to \/ d # m.conn =>
            (d \in states'[q] <=> d \in states[q]) /\ clock'[q][d] = clock[q][d]
      /\ clock'[m.to][m.conn] \in {m.clock, clock[m.to][m.conn]}
  <2>1. Applied(m.to, m.conn, m.clock, m.on)
    BY <1>1, <1>2, <1>3, ApplyFacts
  <2> QED BY <2>1 DEF Applied
<1>5. TypeOK'
  BY <1>1, <1>3, <1>4 DEF TypeOK, Deliver, budget
<1>6. NeverAhead'
  <2>1. UNCHANGED mine
    BY DEF Deliver
  <2> QED BY <1>1, <1>2, <1>3, <1>4, <2>1 DEF NeverAhead
<1>7. Unborn'
  BY <1>1, <1>2, <1>3, <1>4 DEF Unborn, Deliver
<1>8. Separate'
  BY <1>2 DEF Separate, Deliver
<1>9. (lost = 0 => missed = {})'
  BY DEF Base, Deliver, budget
<1> QED BY <1>4, <1>5, <1>6, <1>7, <1>8, <1>9 DEF Base

LEMMA BaseLose ==
    ASSUME Base, NEW m \in net, Lose(m)
    PROVE  Base'
<1> USE DEF Base
<1>1. m.to \in Pod /\ m.conn \in Conn
  BY DEF TypeOK, Message
<1>2. TypeOK'
  BY <1>1 DEF TypeOK, Lose, entries
<1>3. NeverAhead' /\ Irreflexive' /\ Separate' /\ Unborn'
  BY DEF NeverAhead, Irreflexive, Separate, Unborn, Lose, entries, Home
<1>4. lost' # 0
  BY DEF TypeOK, Lose
<1> QED BY <1>2, <1>3, <1>4

LEMMA BaseReload ==
    ASSUME Base, NEW p \in Pod, Reload(p)
    PROVE  Base'
<1> USE DEF Base
<1>1. /\ states' = [states EXCEPT ![p] = {}] /\ before' = [before EXCEPT ![p] = {}]
      /\ clock' = [clock EXCEPT ![p] = [c \in Conn |-> 0]]
      /\ net' \subseteq net /\ missed' \subseteq missed
      /\ reloads' = reloads + 1
      /\ UNCHANGED <<origin, pc, conn, leaves, failed, mine, updates, lost>>
  BY DEF Reload
<1>2. /\ \A q \in Pod : states'[q] \subseteq states[q] /\ before'[q] \subseteq before[q]
      /\ \A q \in Pod, c \in Conn : clock'[q][c] \in {0, clock[q][c]}
  BY <1>1 DEF TypeOK
<1>3. TypeOK'
  BY <1>1 DEF TypeOK
<1>4. NeverAhead'
  BY <1>1, <1>2 DEF TypeOK, NeverAhead
<1>5. Irreflexive' /\ Separate' /\ Unborn'
  BY <1>1, <1>2 DEF Irreflexive, Separate, Unborn, Home
<1>6. (lost = 0 => missed = {})'
  BY <1>1
<1> QED BY <1>3, <1>4, <1>5, <1>6

LEMMA BaseInit == Init => Base
<1> SUFFICES ASSUME Init PROVE Base
  OBVIOUS
<1>1. TypeOK
  BY ConstantsAssumption DEF Init, TypeOK, Message
<1>2. NeverAhead /\ Unborn /\ Irreflexive /\ Separate
  BY <1>1, PlaceFacts DEF Init, NeverAhead, Unborn, Irreflexive, Separate
<1> QED BY <1>1, <1>2 DEF Init, Base

LEMMA BaseStep ==
    ASSUME Base, [Next]_vars
    PROVE  Base'
<1>1. ASSUME NEW c \in Conn,
             Join(c) \/ Send(c) \/ Leave(c) \/ LeaveRemove(c) \/ LeaveFails(c)
      PROVE  Base'
  BY <1>1, BaseJoin, BaseSend, BaseLeave, BaseLeaveRemove, BaseLeaveFails
<1>2. ASSUME NEW m \in net, Deliver(m) \/ Lose(m)
      PROVE  Base'
  BY <1>2, BaseDeliver, BaseLose
<1>3. ASSUME NEW p \in Pod, Reload(p) \/ \E c \in Conn : Expire(p, c)
      PROVE  Base'
  BY <1>3, BaseReload, BaseExpire
<1>4. CASE UNCHANGED vars
  BY <1>4 DEF vars, entries, budget, Base, TypeOK, NeverAhead, Unborn, Irreflexive,
              Separate, Home
<1> QED BY <1>1, <1>2, <1>3, <1>4 DEF Next

-----------------------------------------------------------------------------
(* Tracked, for the only connection c of a user. *)

\* A step that changes neither what is shown of c nor its messages.
LEMMA TrackedKept ==
    ASSUME Base, NEW c \in Conn, Tracked(c), UNCHANGED origin, mine'[c] = mine[c],
           \A q \in Pod : (c \in states'[q] <=> c \in states[q])
                            /\ clock'[q][c] = clock[q][c],
           {m \in net' : m.conn = c} = {m \in net : m.conn = c},
           c \in states[Home(c)] => c \in conn' \/ leaves'[c] > 0 \/ c \in failed',
           c \in conn' => c \in conn \/ \A m \in net : m.conn # c
    PROVE  Tracked(c)'
<1>1. Home(c) \in Pod /\ Home(c)' = Home(c)
  BY PlaceFacts DEF Base
<1>2. \A m : m \in net' /\ m.conn = c <=> m \in net /\ m.conn = c
  OBVIOUS
<1>3. \A m \in net : m.to \in Pod
  BY DEF Base, TypeOK, Message
<1>4. ASSUME NEW q, NEW k
      PROVE  OffComing(c, q, k) => OffComing(c, q, k)'
  BY <1>2 DEF OffComing
<1>5. \A q \in Pod : OffComing(c, q, clock[q][c]) => OffComing(c, q, clock[q][c])'
  <2>1. ASSUME NEW q \in Pod, OffComing(c, q, clock[q][c])
        PROVE  OffComing(c, q, clock[q][c])'
    BY <1>2, <2>1 DEF OffComing
  <2> QED BY <2>1
<1>6. (clock[Home(c)][c] = mine[c])' /\ (c \in states[Home(c)] => c \in conn \/ leaves[c] > 0 \/ c \in failed)'
  BY <1>1 DEF Tracked
<1>7. \A q \in Pod \ {Home(c)'} :
        c \in states'[q] => c \in states'[Home(c)'] \/ OffComing(c, q, clock[q][c])'
  BY <1>1, <1>5 DEF Tracked
<1>8. ASSUME NEW m \in net', m.conn = c, m.on
      PROVE  /\ m.to # Home(c)'
             /\ \/ c \in states'[Home(c)']
                \/ OffComing(c, m.to, m.clock)'
                \/ clock'[m.to][c] >= m.clock
  BY <1>1, <1>2, <1>3, <1>4, <1>8 DEF Tracked
<1>9. ASSUME NEW m \in net', m.conn = c, m.to = Home(c)'
      PROVE  /\ c \notin conn'
             /\ \A n \in net' : n.conn = c => ~n.on
             /\ m.clock = mine'[c] =>
                    \A q \in Pod \ {Home(c)'} :
                        c \in states'[q] => OffComing(c, q, clock[q][c])'
  BY <1>1, <1>2, <1>5, <1>9 DEF Tracked
<1> QED BY <1>6, <1>7, <1>8, <1>9 DEF Tracked

\* Its own pod withdraws c, at the client's clock: every other pod will hear.
LEMMA TrackedWithdrawn ==
    ASSUME Base, NEW c \in Conn, Tracked(c), c \in states[Home(c)],
           Remove(Home(c), {c}), net' = Publish(Home(c), c, clock[Home(c)][c], FALSE),
           UNCHANGED <<origin, conn, mine, clock>>
    PROVE  Tracked(c)'
<1> DEFINE h == Home(c)
<1>1. TypeOK /\ NeverAhead /\ Separate
  BY DEF Base
<1>2. h \in Pod /\ Home(c)' = h /\ clock[h][c] = mine[c] /\ mine[c] \in Nat /\ FALSE \in BOOLEAN
  BY <1>1, PlaceFacts DEF Tracked, TypeOK
<1> HIDE DEF h
<1>3. Published(h, c, mine[c], FALSE)
  BY <1>1, <1>2, PublishFacts DEF h
<1>4. \A q \in Pod : c \in states'[q] <=> c \in states[q] /\ q # h
  <2>1. Remove(h, {c}) /\ {c} \in SUBSET Conn
    BY DEF h
  <2> QED BY <1>1, <1>2, <2>1, RemoveFacts
<1>5. ASSUME NEW q \in Pod \ {h}, NEW k \in Nat, k <= mine[c], Connected
      PROVE  \E m \in net' : m.to = q /\ m.conn = c /\ ~m.on /\ m.clock >= k
  <2> DEFINE m == [to |-> q, conn |-> c, clock |-> mine[c], on |-> FALSE]
  <2>1. m \in net'
    BY <1>3, <1>5 DEF Published
  <2>2. m.to = q /\ m.conn = c /\ ~m.on /\ m.clock >= k
    BY <1>2, <1>5
  <2> QED BY <2>1, <2>2
<1>6. \A q \in Pod \ {h} : c \in states[q] => Connected
  BY <1>1, <1>2 DEF Separate, h
<1>7. ASSUME NEW q \in Pod \ {h}, c \in states[q]
      PROVE  OffComing(c, q, clock[q][c])'
  <2>1. clock[q][c] \in Nat /\ clock[q][c] <= mine[c]
    BY <1>1 DEF TypeOK, NeverAhead
  <2> QED BY <1>5, <1>6, <1>7, <2>1 DEF OffComing
<1>8. \A m \in net' : m \in net \/ (~m.on /\ m.to # h)
  BY <1>3 DEF Published
<1>9. ASSUME NEW m \in net', m.conn = c, m.on
      PROVE  m.to # h /\ OffComing(c, m.to, m.clock)'
  <2>1. m \in net /\ m.to # h /\ Connected
    BY <1>1, <1>8, <1>9 DEF Tracked, Separate, h
  <2>2. m.to \in Pod \ {h} /\ m.clock \in Nat
    BY <1>1, <2>1 DEF TypeOK, Message
  <2>3. m.clock <= mine[c]
    BY <1>1, <1>9, <2>1 DEF NeverAhead
  <2>4. \E n \in net' : n.to = m.to /\ n.conn = c /\ ~n.on /\ n.clock >= m.clock
    BY <1>5, <2>1, <2>2, <2>3
  <2> QED BY <2>1, <2>4 DEF OffComing
<1>10. ASSUME NEW m \in net', m.conn = c, m.to = h
       PROVE  /\ c \notin conn
              /\ \A n \in net' : n.conn = c => ~n.on
  <2>1. m \in net
    BY <1>8, <1>10
  <2> QED BY <1>8, <1>10, <2>1 DEF Tracked, h
<1> QED BY <1>2, <1>4, <1>7, <1>9, <1>10 DEF Tracked

\* Another pod withdraws c: nothing of c was in flight and c has gone.
LEMMA TrackedExpired ==
    ASSUME Base, Orderly, NEW c \in Conn, Tracked(c), NEW p \in Pod, p # Home(c),
           Expire(p, c)
    PROVE  Tracked(c)'
<1> DEFINE h == Home(c)
           k == clock[p][c]
<1>1. TypeOK /\ NeverAhead /\ missed = {}
  BY DEF Base, Orderly
<1>2. h \in Pod /\ h # p /\ Home(c)' = h
  BY <1>1, PlaceFacts DEF Expire
<1>3. k \in Nat /\ k <= mine[c] /\ FALSE \in BOOLEAN
  BY <1>1 DEF TypeOK, NeverAhead
<1>4. /\ c \in states[p] /\ c \notin conn
      /\ \A m \in net : m.conn # c
      /\ Remove(p, {c}) /\ {c} \in SUBSET Conn
      /\ net' = Publish(p, c, k, FALSE)
      /\ UNCHANGED <<origin, conn, leaves, failed, mine, clock>>
  BY <1>1 DEF Expire
<1> HIDE DEF h, k
<1>5. Published(p, c, k, FALSE)
  BY <1>1, <1>3, <1>4, PublishFacts
<1>6. \A q \in Pod : c \in states'[q] <=> c \in states[q] /\ q # p
  BY <1>1, <1>4, RemoveFacts
<1>7. \A q \in Pod \ {h} : c \in states[q] => c \in states[h]
  BY <1>4 DEF Tracked, OffComing, h
<1>8. Connected
  BY <1>4 DEF Base, Separate, h
<1>9. ASSUME k = mine[c], NEW q \in Pod \ {h}, c \in states'[q]
      PROVE  OffComing(c, q, clock[q][c])'
  <2> DEFINE m == [to |-> q, conn |-> c, clock |-> k, on |-> FALSE]
  <2>1. m \in net'
    BY <1>5, <1>6, <1>8, <1>9 DEF Published
  <2>2. clock[q][c] \in Nat /\ clock[q][c] <= mine[c]
    BY <1>1 DEF TypeOK, NeverAhead
  <2>3. m.to = q /\ m.conn = c /\ ~m.on /\ m.clock >= clock'[q][c]
    BY <1>3, <1>4, <1>9, <2>2
  <2> QED BY <2>1, <2>3 DEF OffComing
<1>10. \A m \in net' : m.conn = c => ~m.on /\ m.clock = k
  BY <1>4, <1>5 DEF Published
<1>11. (clock[Home(c)][c] = mine[c])' /\ (c \in states[Home(c)] => c \in conn \/ leaves[c] > 0 \/ c \in failed)'
  BY <1>2, <1>4, <1>6 DEF Tracked, h
<1> QED BY <1>2, <1>4, <1>6, <1>7, <1>9, <1>10, <1>11 DEF Tracked

\* The client renews its entry: its own pod shows it.
LEMMA TrackedSent ==
    ASSUME Base, NEW c \in Conn, Tracked(c), Send(c)
    PROVE  Tracked(c)'
<1> DEFINE h == Home(c)
           k == mine[c] + 1
<1>1. TypeOK /\ Irreflexive /\ NeverAhead
  BY DEF Base
<1>2. h \in Pod /\ Home(c)' = h /\ mine[c] \in Nat /\ k \in Nat /\ TRUE \in BOOLEAN
  BY <1>1, PlaceFacts DEF Send, TypeOK
<1>3. Accepts(h, c, k, TRUE)
  BY <1>1, <1>2 DEF Accepts, NeverAhead, TypeOK
<1>4. /\ Apply(h, c, k, TRUE) /\ net' = Publish(h, c, k, TRUE)
      /\ mine'[c] = k /\ c \in conn /\ UNCHANGED conn
  BY <1>1 DEF Send, TypeOK
<1> HIDE DEF h, k
<1>5. c \in states'[h] /\ clock'[h][c] = k
  <2>1. Applied(h, c, k, TRUE)
    BY <1>1, <1>2, <1>4, ApplyFacts
  <2> QED BY <1>3, <2>1 DEF Applied
<1>6. \A m \in net' : m.conn = c => m.to # h
  <2>1. Published(h, c, k, TRUE)
    BY <1>1, <1>2, <1>4, PublishFacts
  <2>2. \A m \in net : m.conn = c => m.to # h
    BY <1>4 DEF Tracked, h
  <2> QED BY <2>1, <2>2 DEF Published
<1> QED BY <1>2, <1>4, <1>5, <1>6 DEF Tracked

\* A message of c arrives.
LEMMA TrackedDelivered ==
    ASSUME Base, NEW c \in Conn, Tracked(c), NEW m \in net, m.conn = c, Deliver(m)
    PROVE  Tracked(c)'
<1> DEFINE h == Home(c)
           q == m.to
           k == m.clock
           \* OffComing(c, r, j) after the step.
           Still(r, j) == \E n \in net' : n.to = r /\ n.conn = c /\ ~n.on /\ n.clock >= j
<1>1. TypeOK /\ Irreflexive /\ NeverAhead
  BY DEF Base
<1>2. /\ h \in Pod /\ Home(c)' = h /\ q \in Pod /\ k \in Nat /\ m.on \in BOOLEAN
      /\ k <= mine[c] /\ mine[c] \in Nat
  BY <1>1, PlaceFacts DEF Deliver, TypeOK, Message, NeverAhead
<1>3. /\ Apply(q, c, k, m.on) /\ net' = net \ {m}
      /\ UNCHANGED <<conn, leaves, failed, mine>>
  BY DEF Deliver
<1>4. /\ clock[h][c] = mine[c]
      /\ c \in states[h] => c \in conn \/ leaves[c] > 0 \/ c \in failed
      /\ \A r \in Pod \ {h} :
            c \in states[r] => c \in states[h] \/ OffComing(c, r, clock[r][c])
      /\ \A n \in net : n.conn = c /\ n.on =>
            /\ n.to # h
            /\ c \in states[h] \/ OffComing(c, n.to, n.clock) \/ clock[n.to][c] >= n.clock
      /\ \A n \in net : n.conn = c /\ n.to = h =>
            /\ c \notin conn
            /\ \A i \in net : i.conn = c => ~i.on
            /\ n.clock = mine[c] =>
                \A r \in Pod \ {h} : c \in states[r] => OffComing(c, r, clock[r][c])
  BY DEF Tracked
<1>5. \A r \in Pod : clock[r][c] \in Nat
  BY <1>1 DEF TypeOK
<1>6. \A n \in net : n.to \in Pod /\ n.clock \in Nat
  BY <1>1 DEF TypeOK, Message
<1> HIDE DEF h, q, k
<1>7. Applied(q, c, k, m.on)
  BY <1>1, <1>2, <1>3, ApplyFacts
<1>8. /\ \A r \in Pod : r # q =>
            (c \in states'[r] <=> c \in states[r]) /\ clock'[r][c] = clock[r][c]
      /\ \A r \in Pod : clock'[r][c] >= clock[r][c]
      /\ clock'[q][c] >= k
  BY <1>2, <1>5, <1>7 DEF Applied, Accepts
<1>9. \A r, j : OffComing(c, r, j) => Still(r, j) \/ (~m.on /\ r = q /\ k >= j)
  BY <1>3 DEF OffComing, q, k
<1> HIDE DEF Still
<1>10. SUFFICES /\ clock'[h][c] = mine'[c]
                /\ c \in states'[h] => c \in states[h]
                /\ \A r \in Pod \ {h} : c \in states'[r] =>
                        c \in states'[h] \/ Still(r, clock'[r][c])
                /\ \A n \in net' : n.conn = c /\ n.on =>
                        /\ n.to # h
                        /\ \/ c \in states'[h] \/ Still(n.to, n.clock)
                           \/ clock'[n.to][c] >= n.clock
                /\ \A n \in net' : n.conn = c /\ n.to = h =>
                        /\ c \notin conn'
                        /\ \A i \in net' : i.conn = c => ~i.on
                        /\ n.clock = mine'[c] =>
                            \A r \in Pod \ {h} :
                                c \in states'[r] => Still(r, clock'[r][c])
  BY <1>2, <1>3, <1>4 DEF Tracked, OffComing, Still
<1>11. CASE m.on
  <2>1. /\ q # h /\ \A n \in net : n.conn = c => n.to # h
        /\ c \in states[h] \/ OffComing(c, q, k) \/ clock[q][c] >= k
    BY <1>4, <1>11 DEF q, k
  <2>2. clock'[h][c] = mine'[c] /\ (c \in states'[h] <=> c \in states[h])
    BY <1>2, <1>3, <1>4, <1>8, <2>1
  <2>3. ASSUME NEW r \in Pod \ {h}, c \in states'[r]
        PROVE  c \in states'[h] \/ Still(r, clock'[r][c])
    <3>1. CASE r # q \/ ~Accepts(q, c, k, m.on)
      <4>1. c \in states[r] /\ clock'[r][c] = clock[r][c]
        BY <1>7, <1>8, <2>3, <3>1 DEF Applied
      <4> QED BY <1>4, <1>9, <1>11, <2>2, <4>1
    <3>2. CASE r = q /\ Accepts(q, c, k, m.on)
      <4>1. clock'[q][c] = k /\ ~(clock[q][c] >= k)
        BY <1>2, <1>5, <1>7, <1>11, <3>2 DEF Applied, Accepts
      <4> QED BY <1>9, <1>11, <2>1, <2>2, <3>2, <4>1
    <3> QED BY <3>1, <3>2
  <2>4. ASSUME NEW n \in net', n.conn = c, n.on
        PROVE  \/ c \in states'[h] \/ Still(n.to, n.clock)
               \/ clock'[n.to][c] >= n.clock
    <3>1. n \in net /\ n.to \in Pod /\ n.clock \in Nat
      BY <1>3, <1>6
    <3>2. clock[n.to][c] >= n.clock => clock'[n.to][c] >= n.clock
      <4>1. clock'[n.to][c] \in Nat
        BY <3>1, <1>7, <1>2 DEF Applied
      <4> QED BY <1>5, <1>8, <3>1, <4>1
    <3> QED BY <1>4, <1>9, <1>11, <2>2, <2>4, <3>1, <3>2
  <2> QED BY <1>3, <2>1, <2>2, <2>3, <2>4
<1>12. CASE ~m.on /\ q = h
  <2>1. /\ \A n \in net : n.conn = c => ~n.on
        /\ c \notin conn
        /\ k = mine[c] =>
            \A r \in Pod \ {h} : c \in states[r] => OffComing(c, r, clock[r][c])
    BY <1>4, <1>12 DEF q, k
  <2>2. /\ clock'[h][c] = mine'[c]
        /\ c \in states'[h] => c \in states[h]
        /\ c \notin states'[h] => c \notin states[h] \/ k = mine[c]
    BY <1>2, <1>3, <1>4, <1>7, <1>12 DEF Applied, Accepts
  <2>3. ASSUME NEW r \in Pod \ {h}, OffComing(c, r, clock[r][c])
        PROVE  Still(r, clock'[r][c])
    BY <1>8, <1>9, <1>12, <2>3
  <2>4. ASSUME NEW r \in Pod \ {h}, c \in states'[r]
        PROVE  c \in states'[h] \/ Still(r, clock'[r][c])
    BY <1>4, <1>8, <1>12, <2>1, <2>2, <2>3, <2>4
  <2>5. ASSUME NEW n \in net', n.conn = c, n.to = h, n.clock = mine'[c],
               NEW r \in Pod \ {h}, c \in states'[r]
        PROVE  Still(r, clock'[r][c])
    BY <1>3, <1>4, <1>8, <1>12, <2>3, <2>5
  <2> QED BY <1>3, <2>1, <2>2, <2>4, <2>5
<1>13. CASE ~m.on /\ q # h
  <2>1. clock'[h][c] = mine'[c] /\ (c \in states'[h] <=> c \in states[h])
    BY <1>2, <1>3, <1>4, <1>8, <1>13
  <2>2. ASSUME NEW r \in Pod \ {h}, c \in states'[r]
        PROVE  /\ c \in states[r]
               /\ OffComing(c, r, clock[r][c]) => Still(r, clock'[r][c])
    <3>1. CASE r # q
      BY <1>8, <1>9, <2>2, <3>1
    <3>2. CASE r = q
      <4>1. ~Accepts(q, c, k, m.on)
        BY <1>7, <1>13, <2>2, <3>2 DEF Applied
      <4>2. c \in states[q] /\ clock'[q][c] = clock[q][c]
        BY <1>7, <2>2, <3>2, <4>1 DEF Applied
      <4>3. ~(k >= clock[q][c])
        BY <1>2, <1>5, <1>13, <4>1, <4>2 DEF Accepts
      <4> QED BY <1>9, <3>2, <4>2, <4>3
    <3> QED BY <3>1, <3>2
  <2>3. ASSUME NEW n \in net', n.conn = c, n.on
        PROVE  \/ c \in states'[h] \/ Still(n.to, n.clock)
               \/ clock'[n.to][c] >= n.clock
    <3>1. n \in net /\ n.to \in Pod /\ n.clock \in Nat /\ clock'[n.to][c] \in Nat
      BY <1>3, <1>6, <1>7 DEF Applied
    <3>2. clock[n.to][c] >= n.clock \/ (n.to = q /\ k >= n.clock)
            => clock'[n.to][c] >= n.clock
      BY <1>2, <1>5, <1>8, <3>1
    <3> QED BY <1>4, <1>9, <2>1, <2>3, <3>1, <3>2
  <2> QED BY <1>3, <1>4, <2>1, <2>2, <2>3
<1> QED BY <1>2, <1>11, <1>12, <1>13

-----------------------------------------------------------------------------
(* Every step. *)

LEMMA OrderlyBefore ==
    ASSUME Base, [Next]_vars, Orderly'
    PROVE  Orderly
<1>1. lost \in Nat /\ reloads \in Nat
  BY DEF Base, TypeOK
<1>2. lost' >= lost /\ reloads' >= reloads
  <2>1. CASE \E m \in net : Lose(m)
    BY <1>1, <2>1 DEF Lose
  <2>2. CASE \E p \in Pod : Reload(p)
    BY <1>1, <2>2 DEF Reload
  <2>3. CASE UNCHANGED <<lost, reloads>>
    BY <1>1, <2>3
  <2>4. (\E m \in net : Lose(m)) \/ (\E p \in Pod : Reload(p)) \/ UNCHANGED <<lost, reloads>>
    BY DEF Next, Join, Send, Leave, LeaveRemove, LeaveFails, Deliver, Expire, vars, budget
  <2> QED BY <2>1, <2>2, <2>3, <2>4
<1> QED BY <1>1, <1>2 DEF Orderly

LEMMA TrackedConnection ==
    ASSUME Base, NEW c \in Conn, Alone(c), Tracked(c), NEW d \in Conn,
           Join(d) \/ Send(d) \/ Leave(d) \/ LeaveRemove(d) \/ LeaveFails(d)
    PROVE  Tracked(c)'
<1>1. TypeOK /\ Irreflexive /\ Unborn
  BY DEF Base
<1>2. Home(c) \in Pod /\ Home(d) \in Pod /\ Sibling(d) \in SUBSET Conn
  BY <1>1, PlaceFacts
<1>3. d # c => c \notin Sibling(d)
  BY <1>1, PlaceFacts
<1>4. CASE Join(d)
  <2>1. pc[d] = "new" /\ Remove(Home(d), Sibling(d))
        /\ UNCHANGED <<origin, mine, clock, net, leaves, failed>>
        /\ conn' \in {conn, conn \cup {d}}
    BY <1>4 DEF Join
  <2>2. \A q \in Pod : c \in states'[q] <=> c \in states[q] /\ ~(q = Home(d) /\ c \in Sibling(d))
    BY <1>1, <1>2, <2>1, RemoveFacts
  <2>3. c = d => /\ \A q \in Pod : c \notin states[q]
                 /\ \A m \in net : m.conn # c
    BY <1>1, <2>1 DEF Unborn
  <2>4. \A q \in Pod : c \in states'[q] <=> c \in states[q]
    BY <1>3, <2>2, <2>3
  <2>5. c \in states[Home(c)] => c \in conn' \/ leaves'[c] > 0 \/ c \in failed'
    BY <2>1 DEF Tracked
  <2> QED BY <2>1, <2>3, <2>4, <2>5, TrackedKept
<1>5. CASE Send(d)
  <2>1. CASE d = c
    BY <1>5, <2>1, TrackedSent
  <2>2. CASE d # c
    <3> DEFINE k == mine[d] + 1
    <3>1. k \in Nat /\ TRUE \in BOOLEAN
      BY <1>1 DEF TypeOK
    <3>2. /\ Apply(Home(d), d, k, TRUE) /\ net' = Publish(Home(d), d, k, TRUE)
          /\ UNCHANGED <<origin, conn, leaves, failed>> /\ mine'[c] = mine[c]
      BY <1>1, <1>5, <2>2 DEF Send, TypeOK
    <3> HIDE DEF k
    <3>3. Applied(Home(d), d, k, TRUE) /\ Published(Home(d), d, k, TRUE)
      BY <1>1, <1>2, <3>1, <3>2, ApplyFacts, PublishFacts
    <3>4. \A q \in Pod : (c \in states'[q] <=> c \in states[q])
                            /\ clock'[q][c] = clock[q][c]
      BY <2>2, <3>3 DEF Applied
    <3>5. {m \in net' : m.conn = c} = {m \in net : m.conn = c}
      BY <2>2, <3>3 DEF Published
    <3>6. c \in states[Home(c)] => c \in conn' \/ leaves'[c] > 0 \/ c \in failed'
      BY <3>2 DEF Tracked
    <3> QED BY <3>2, <3>4, <3>5, <3>6, TrackedKept
  <2> QED BY <2>1, <2>2
<1>6. CASE Leave(d)
  <2>1. /\ UNCHANGED <<origin, failed, mine, states, clock, net>>
        /\ conn' \in {conn, conn \ {d}}
        /\ leaves' = [leaves EXCEPT ![d] = @ + 1]
    BY <1>6 DEF Leave, entries
  <2>2. c \in states[Home(c)] => c \in conn' \/ leaves'[c] > 0 \/ c \in failed'
    <3>1. leaves[c] \in Nat /\ leaves'[c] = IF d = c THEN leaves[c] + 1 ELSE leaves[c]
      BY <1>1, <2>1 DEF TypeOK
    <3> QED BY <2>1, <3>1 DEF Tracked
  <2> QED BY <2>1, <2>2, TrackedKept
<1>7. CASE LeaveRemove(d)
  <2> DEFINE h == Home(d)
  <2>1. /\ Remove(h, First(h, d)) /\ leaves[d] > 0
        /\ UNCHANGED <<origin, conn, mine, clock>>
        /\ leaves' = [leaves EXCEPT ![d] = @ - 1] /\ failed' = failed \ {d}
    BY <1>7 DEF LeaveRemove
  <2>2. First(h, d) \subseteq states[h] /\ First(h, d) \subseteq Sibling(d)
    BY DEF First
  <2>3. CASE d = c
    <3>1. First(h, d) = IF c \in states[h] THEN {c} ELSE {}
      <4>1. Sibling(d) = {c}
        BY <2>3 DEF Alone
      <4>2. <<c, c>> \notin before[h]
        BY <1>1, <1>2 DEF Irreflexive
      <4> QED BY <2>2, <4>1, <4>2 DEF First
    <3>2. CASE c \in states[h]
      BY <1>7, <2>1, <2>3, <3>1, <3>2, TrackedWithdrawn DEF LeaveRemove
    <3>3. CASE c \notin states[h]
      <4>1. UNCHANGED <<states, net>>
        BY <1>1, <1>2, <1>7, <2>1, <3>1, <3>3 DEF LeaveRemove, Remove, TypeOK
      <4> QED BY <2>1, <2>3, <3>3, <4>1, TrackedKept
    <3> QED BY <3>2, <3>3
  <2>4. CASE d # c
    <3>1. c \notin First(h, d) /\ First(h, d) \in SUBSET Conn
      BY <1>2, <1>3, <2>2, <2>4
    <3>2. \A q \in Pod : c \in states'[q] <=> c \in states[q]
      BY <1>1, <1>2, <2>1, <3>1, RemoveFacts
    <3>3. {m \in net' : m.conn = c} = {m \in net : m.conn = c}
      <4>1. CASE UNCHANGED net
        BY <4>1
      <4>2. CASE ~ UNCHANGED net
        <5>1. PICK e \in First(h, d) : net' = Publish(h, e, clock[h][e], FALSE)
          BY <1>7, <4>2 DEF LeaveRemove
        <5>2. clock[h][e] \in Nat /\ e \in Conn /\ e # c /\ FALSE \in BOOLEAN
          BY <1>1, <1>2, <3>1 DEF TypeOK
        <5>3. Published(h, e, clock[h][e], FALSE)
          BY <1>1, <1>2, <5>1, <5>2, PublishFacts
        <5> QED BY <5>2, <5>3 DEF Published
      <4> QED BY <4>1, <4>2
    <3>4. c \in states[Home(c)] => c \in conn' \/ leaves'[c] > 0 \/ c \in failed'
      BY <1>1, <2>1, <2>4 DEF Tracked, TypeOK
    <3> QED BY <2>1, <3>2, <3>3, <3>4, TrackedKept
  <2> QED BY <2>3, <2>4
<1>8. CASE LeaveFails(d)
  <2>1. /\ UNCHANGED <<origin, conn, mine, states, clock, net>>
        /\ leaves' = [leaves EXCEPT ![d] = @ - 1] /\ failed' = failed \cup {d}
    BY <1>8 DEF LeaveFails, entries
  <2>2. c \in states[Home(c)] => c \in conn' \/ leaves'[c] > 0 \/ c \in failed'
    <3>1. leaves'[c] = IF d = c THEN leaves[c] - 1 ELSE leaves[c]
      BY <1>1, <2>1 DEF TypeOK
    <3> QED BY <2>1, <3>1 DEF Tracked
  <2> QED BY <2>1, <2>2, TrackedKept
<1> QED BY <1>4, <1>5, <1>6, <1>7, <1>8

LEMMA TrackedPods ==
    ASSUME Base, Orderly, NEW c \in Conn, Tracked(c),
           \/ \E m \in net : Deliver(m)
           \/ \E p \in Pod, d \in Conn : Expire(p, d)
    PROVE  Tracked(c)'
<1>1. TypeOK /\ Irreflexive
  BY DEF Base
<1>2. Home(c) \in Pod
  BY <1>1, PlaceFacts
<1>3. ASSUME NEW m \in net, Deliver(m)
      PROVE  Tracked(c)'
  <2>1. CASE m.conn = c
    BY <1>3, <2>1, TrackedDelivered
  <2>2. CASE m.conn # c
    <3>1. m.to \in Pod /\ m.conn \in Conn /\ m.clock \in Nat /\ m.on \in BOOLEAN
      BY <1>1 DEF TypeOK, Message
    <3>2. Applied(m.to, m.conn, m.clock, m.on)
      BY <1>1, <1>3, <3>1, ApplyFacts DEF Deliver
    <3>3. UNCHANGED <<origin, conn, leaves, failed, mine>> /\ net' = net \ {m}
      BY <1>3 DEF Deliver
    <3>4. \A q \in Pod : (c \in states'[q] <=> c \in states[q])
                            /\ clock'[q][c] = clock[q][c]
      BY <2>2, <3>2 DEF Applied
    <3>5. {n \in net' : n.conn = c} = {n \in net : n.conn = c}
      BY <2>2, <3>3
    <3>6. c \in states[Home(c)] => c \in conn' \/ leaves'[c] > 0 \/ c \in failed'
      BY <3>3 DEF Tracked
    <3> QED BY <3>3, <3>4, <3>5, <3>6, TrackedKept
  <2> QED BY <2>1, <2>2
<1>4. ASSUME NEW p \in Pod, NEW d \in Conn, Expire(p, d)
      PROVE  Tracked(c)'
  <2>1. /\ d \in states[p] /\ Remove(p, {d}) /\ {d} \in SUBSET Conn
        /\ net' = Publish(p, d, clock[p][d], FALSE)
        /\ UNCHANGED <<origin, conn, leaves, failed, mine, clock>>
    BY <1>4 DEF Expire
  <2>2. CASE d = c /\ p = Home(c)
    BY <2>1, <2>2, TrackedWithdrawn
  <2>3. CASE d = c /\ p # Home(c)
    BY <1>4, <2>3, TrackedExpired
  <2>4. CASE d # c
    <3>1. \A q \in Pod : c \in states'[q] <=> c \in states[q]
      BY <1>1, <2>1, <2>4, RemoveFacts
    <3>2. Published(p, d, clock[p][d], FALSE)
      <4>1. clock[p][d] \in Nat /\ FALSE \in BOOLEAN
        BY <1>1 DEF TypeOK
      <4> QED BY <1>1, <2>1, <4>1, PublishFacts
    <3>3. {m \in net' : m.conn = c} = {m \in net : m.conn = c}
      BY <2>4, <3>2 DEF Published
    <3>4. c \in states[Home(c)] => c \in conn' \/ leaves'[c] > 0 \/ c \in failed'
      BY <2>1 DEF Tracked
    <3> QED BY <2>1, <3>1, <3>3, <3>4, TrackedKept
  <2> QED BY <2>2, <2>3, <2>4
<1> QED BY <1>3, <1>4

LEMMA InvInit == Init => Inv
<1> SUFFICES ASSUME Init PROVE Inv
  OBVIOUS
<1>1. Base
  BY BaseInit
<1>2. ASSUME NEW c \in Conn
      PROVE  Tracked(c)
  <2>1. Home(c) \in Pod
    BY <1>1, PlaceFacts DEF Base
  <2> QED BY <2>1 DEF Init, Tracked
<1> QED BY <1>1, <1>2 DEF Inv

LEMMA InvStep ==
    ASSUME Inv, [Next]_vars
    PROVE  Inv'
<1>1. Base /\ Base'
  BY BaseStep DEF Inv
<1>2. ASSUME Orderly', NEW c \in Conn, Alone(c)'
      PROVE  Tracked(c)'
  <2>1. Orderly
    BY <1>1, <1>2, OrderlyBefore
  <2>2. UNCHANGED origin
    BY DEF Next, Join, Send, Leave, LeaveRemove, LeaveFails, Deliver, Lose, Reload,
           Expire, vars
  <2>3. Alone(c) /\ Tracked(c)
    BY <1>1, <1>2, <2>1, <2>2, PlaceFacts DEF Inv, Base
  <2>4. CASE \E d \in Conn :
                Join(d) \/ Send(d) \/ Leave(d) \/ LeaveRemove(d) \/ LeaveFails(d)
    BY <1>1, <2>3, <2>4, TrackedConnection
  <2>5. CASE \/ \E m \in net : Deliver(m)
             \/ \E p \in Pod, d \in Conn : Expire(p, d)
    BY <1>1, <2>1, <2>3, <2>5, TrackedPods
  <2>6. CASE \/ \E m \in net : Lose(m)
             \/ \E p \in Pod : Reload(p)
    BY <1>1, <1>2, <2>1, <2>6 DEF Lose, Reload, Orderly
  <2>7. CASE UNCHANGED vars
    <3>1. UNCHANGED <<origin, conn, leaves, failed, mine, states, clock, net>>
      BY <2>7 DEF vars, entries
    <3>2. c \in states[Home(c)] => c \in conn' \/ leaves'[c] > 0 \/ c \in failed'
      BY <2>3, <3>1 DEF Tracked
    <3> QED BY <1>1, <2>3, <3>1, <3>2, TrackedKept
  <2> QED BY <2>4, <2>5, <2>6, <2>7 DEF Next
<1> QED BY <1>1, <1>2 DEF Inv

LEMMA Invariance == Spec => []Inv
BY InvInit, InvStep, PTL DEF Spec

-----------------------------------------------------------------------------
(* Agrees, for any connection c. *)

\* A pod that has been cleared stays so.
LEMMA ClearedStays ==
    ASSUME UNCHANGED origin, \A d \in Conn : pc[d] # "new" => pc'[d] # "new",
           NEW q, NEW c, Cleared(q, c)
    PROVE  Cleared(q, c)'
  BY DEF Cleared, Sibling, Home

\* A step that changes no message and no clock of c, and hides it at most where
\* it is its own pod or one that is cleared.
LEMMA AgreesKept ==
    ASSUME Base, NEW c \in Conn, Agrees(c), UNCHANGED origin, mine'[c] = mine[c],
           {m \in net' : m.conn = c} = {m \in net : m.conn = c},
           \A q \in Pod : clock'[q][c] = clock[q][c],
           c \in states'[Home(c)] => c \in states[Home(c)],
           \A q \in Pod \ {Home(c)} :
                c \in states[q] => c \in states'[q] \/ Cleared(q, c)',
           \A d \in Conn : pc[d] # "new" => pc'[d] # "new"
    PROVE  Agrees(c)'
<1>1. Home(c) \in Pod /\ Home(c)' = Home(c)
  BY PlaceFacts DEF Base
<1>2. \A m : m \in net' /\ m.conn = c <=> m \in net /\ m.conn = c
  OBVIOUS
<1>3. OffComing(c, Home(c), mine[c]) => OffComing(c, Home(c), mine[c])'
  BY <1>1, <1>2 DEF OffComing
<1>4. ASSUME NEW q \in Pod \ {Home(c)}, UpToDate(q, c), c \in states'[q] \/ c \notin states[q]
      PROVE  UpToDate(q, c)'
  BY <1>2, <1>4 DEF UpToDate
<1>5. \A q \in Pod \ {Home(c)} : Cleared(q, c) => Cleared(q, c)'
  BY ClearedStays
<1>6. (clock[Home(c)][c] = mine[c])'
  BY <1>1 DEF Agrees
<1>7. (\A m \in net : m.conn = c /\ m.on => m.to # Home(c))'
  BY <1>1, <1>2 DEF Agrees
<1>8. ASSUME Connected, c \in states'[Home(c)], ~OffComing(c, Home(c), mine[c])',
             NEW q \in Pod \ {Home(c)}
      PROVE  Cleared(q, c)' \/ UpToDate(q, c)'
  <2>1. Cleared(q, c) \/ UpToDate(q, c)
    BY <1>3, <1>8 DEF Agrees
  <2> QED BY <1>4, <1>5, <2>1
<1> QED BY <1>1, <1>6, <1>7, <1>8 DEF Agrees

\* The client renews its entry.
LEMMA AgreesSent ==
    ASSUME Base, NEW c \in Conn, Agrees(c), Send(c)
    PROVE  Agrees(c)'
<1> DEFINE h == Home(c)
           k == mine[c] + 1
<1>1. TypeOK /\ Irreflexive /\ NeverAhead
  BY DEF Base
<1>2. h \in Pod /\ Home(c)' = h /\ mine[c] \in Nat /\ k \in Nat /\ TRUE \in BOOLEAN
  BY <1>1, PlaceFacts DEF Send, TypeOK
<1>3. Accepts(h, c, k, TRUE)
  BY <1>1, <1>2 DEF Accepts, NeverAhead, TypeOK
<1>4. /\ Apply(h, c, k, TRUE) /\ net' = Publish(h, c, k, TRUE)
      /\ mine'[c] = k
  BY <1>1 DEF Send, TypeOK
<1>5. k > mine[c]
  BY <1>2
<1> HIDE DEF h, k
<1>6. Applied(h, c, k, TRUE) /\ Published(h, c, k, TRUE)
  BY <1>1, <1>2, <1>4, ApplyFacts, PublishFacts
<1>7. clock'[h][c] = k
  BY <1>3, <1>6 DEF Applied
<1>8. \A m \in net' : m.conn = c /\ m.on => m.to # h
  BY <1>6 DEF Published, Agrees, h
<1>9. ASSUME Connected, NEW q \in Pod \ {h}
      PROVE  UpToDate(q, c)'
  <2>1. clock'[q][c] = clock[q][c] /\ clock[q][c] <= mine[c] /\ clock[q][c] \in Nat
    BY <1>1, <1>6 DEF Applied, NeverAhead, TypeOK
  <2>2. clock'[q][c] < k
    BY <1>2, <1>5, <2>1
  <2>3. ASSUME NEW m \in net', m.conn = c, ~m.on
        PROVE  m.clock < k
    <3>1. m \in net
      BY <1>6, <2>3 DEF Published
    <3>2. m.clock <= mine[c] /\ m.clock \in Nat
      BY <1>1, <2>3, <3>1 DEF NeverAhead, TypeOK, Message
    <3> QED BY <1>2, <1>5, <3>2
  <2> DEFINE n == [to |-> q, conn |-> c, clock |-> k, on |-> TRUE]
  <2>4. n \in net' /\ n.to = q /\ n.conn = c /\ n.on /\ n.clock = k
    BY <1>6, <1>9 DEF Published
  <2> HIDE DEF n
  <2> QED BY <1>4, <2>2, <2>3, <2>4 DEF UpToDate
<1> QED BY <1>2, <1>4, <1>7, <1>8, <1>9 DEF Agrees, h

\* Pod p withdraws c and tells the others: where it is c's own pod, or where it
\* showed the client's last message, c's own pod will not show c for long.
LEMMA AgreesWithdrawn ==
    ASSUME Base, NEW c \in Conn, Agrees(c), NEW p \in Pod,
           \A q \in Pod : c \in states'[q] <=> c \in states[q] /\ q # p,
           net' = Publish(p, c, clock[p][c], FALSE),
           UNCHANGED <<origin, pc, mine, clock>>,
           \/ p = Home(c) \/ Cleared(p, c)
           \/ \A m \in net : m.conn # c
    PROVE  Agrees(c)'
<1> DEFINE h == Home(c)
           k == clock[p][c]
<1>1. TypeOK /\ NeverAhead
  BY DEF Base
<1>2. h \in Pod /\ Home(c)' = h /\ mine[c] \in Nat /\ k \in Nat /\ k <= mine[c]
      /\ FALSE \in BOOLEAN
  BY <1>1, PlaceFacts DEF TypeOK, NeverAhead
<1> HIDE DEF h, k
<1>3. Published(p, c, k, FALSE)
  BY <1>1, <1>2, PublishFacts DEF k
<1>4. clock'[h][c] = mine'[c] /\ \A m \in net' : m.conn = c /\ m.on => m.to # h
  BY <1>3 DEF Published, Agrees, h
<1>5. ASSUME Connected, c \in states'[h], NEW q \in Pod \ {h},
             \A n \in net' : ~(n.to = h /\ n.conn = c /\ ~n.on /\ n.clock >= mine[c])
      PROVE  Cleared(q, c)' \/ UpToDate(q, c)'
  <2>1. p # h /\ c \in states[h]
    BY <1>2, <1>5
  <2>2. ~OffComing(c, h, mine[c])
    BY <1>3, <1>5 DEF OffComing, Published
  <2>3. k < mine[c]
    <3>1. ASSUME k = mine[c]
          PROVE  FALSE
      <4> DEFINE n == [to |-> h, conn |-> c, clock |-> k, on |-> FALSE]
      <4>1. n \in net' /\ n.to = h /\ n.conn = c /\ ~n.on /\ n.clock = k
        BY <1>2, <1>3, <1>5, <2>1 DEF Published
      <4> HIDE DEF n
      <4>2. n.clock >= mine[c]
        BY <1>2, <3>1, <4>1
      <4> QED BY <1>5, <4>1, <4>2
    <3> QED BY <1>2, <3>1
  <2>4. Cleared(q, c) \/ UpToDate(q, c)
    BY <1>5, <2>1, <2>2 DEF Agrees, h
  <2>5. CASE Cleared(q, c)
    BY <2>5, ClearedStays
  <2>6. CASE UpToDate(q, c) /\ ~Cleared(q, c)
    <3>1. q # p
      <4>1. ASSUME q = p
            PROVE  FALSE
        <5>1. \A m \in net : m.conn # c
          BY <2>1, <2>6, <4>1 DEF h
        <5> QED BY <1>2, <2>3, <2>6, <4>1, <5>1 DEF UpToDate, k
      <4> QED BY <4>1
    <3>2. \A m \in net' : m.to = q /\ m.conn = c /\ ~m.on => m.clock < mine[c]
      BY <1>3, <2>3, <2>6 DEF UpToDate, Published
    <3>3. \/ clock'[q][c] = mine'[c] /\ c \in states'[q]
          \/ /\ clock'[q][c] < mine'[c]
             /\ \E m \in net' : m.to = q /\ m.conn = c /\ m.on /\ m.clock = mine'[c]
      BY <1>3, <2>6, <3>1 DEF UpToDate, Published
    <3> QED BY <3>2, <3>3 DEF UpToDate
  <2> QED BY <2>4, <2>5, <2>6
<1> QED BY <1>2, <1>4, <1>5 DEF Agrees, OffComing, h

\* A message of c arrives.
LEMMA AgreesDelivered ==
    ASSUME Base, NEW c \in Conn, Agrees(c), NEW m \in net, m.conn = c, Deliver(m)
    PROVE  Agrees(c)'
<1> DEFINE h == Home(c)
           p == m.to
           k == m.clock
<1>1. TypeOK /\ Irreflexive /\ NeverAhead
  BY DEF Base
<1>2. /\ h \in Pod /\ Home(c)' = h /\ p \in Pod /\ k \in Nat /\ m.on \in BOOLEAN
      /\ k <= mine[c] /\ mine[c] \in Nat
      /\ p = h => ~m.on
  BY <1>1, PlaceFacts DEF Deliver, TypeOK, Message, NeverAhead, Agrees
<1>3. /\ Apply(p, c, k, m.on) /\ net' = net \ {m}
      /\ UNCHANGED <<origin, pc, mine>>
  BY DEF Deliver
<1>4. /\ clock[h][c] = mine[c]
      /\ \A n \in net : n.conn = c /\ n.on => n.to # h
      /\ Connected /\ c \in states[h] /\ ~OffComing(c, h, mine[c]) =>
            \A q \in Pod \ {h} : Cleared(q, c) \/ UpToDate(q, c)
  BY DEF Agrees
<1>5. \A q \in Pod : clock[q][c] \in Nat /\ clock[q][c] <= mine[c]
  BY <1>1 DEF TypeOK, NeverAhead
<1> HIDE DEF h, p, k
<1>6. Applied(p, c, k, m.on)
  BY <1>1, <1>2, <1>3, ApplyFacts
<1>7. \A q \in Pod \ {p} :
        (c \in states'[q] <=> c \in states[q]) /\ clock'[q][c] = clock[q][c]
  BY <1>6 DEF Applied
<1>8. clock'[h][c] = mine[c]
  <2>1. CASE p = h
    BY <1>2, <1>4, <1>6, <2>1 DEF Applied, Accepts
  <2> QED BY <1>2, <1>4, <1>7, <2>1
<1>9. ASSUME Connected, c \in states'[h], NEW q \in Pod \ {h},
             \A n \in net' : ~(n.to = h /\ n.conn = c /\ ~n.on /\ n.clock >= mine[c])
      PROVE  Cleared(q, c)' \/ UpToDate(q, c)'
  <2>1. c \in states[h] /\ (p = h => k < mine[c])
    <3>1. CASE p = h
      <4>1. ~m.on /\ k <= mine[c] /\ clock[p][c] = mine[c]
        BY <1>2, <1>4, <3>1
      <4>2. ~Accepts(p, c, k, m.on)
        BY <1>6, <1>9, <3>1, <4>1 DEF Applied
      <4>3. c \in states[p]
        BY <1>6, <1>9, <3>1, <4>2 DEF Applied
      <4> QED BY <1>2, <3>1, <4>1, <4>2, <4>3 DEF Accepts
    <3> QED BY <1>2, <1>7, <1>9, <3>1
  <2>2. ~OffComing(c, h, mine[c])
    <3>1. ASSUME NEW n \in net, n.to = h, n.conn = c, ~n.on, n.clock >= mine[c]
          PROVE  FALSE
      <4>1. n = m => p = h /\ k >= mine[c]
        BY <3>1 DEF p, k
      <4>2. n # m
        BY <1>2, <2>1, <4>1
      <4> QED BY <1>3, <1>9, <3>1, <4>2
    <3> QED BY <3>1 DEF OffComing
  <2>3. Cleared(q, c) \/ UpToDate(q, c)
    BY <1>4, <1>9, <2>1, <2>2
  <2>4. CASE Cleared(q, c)
    BY <1>3, <2>4, ClearedStays
  <2>5. CASE UpToDate(q, c)
    <3>1. \A n \in net' : n.to = q /\ n.conn = c /\ ~n.on => n.clock < mine'[c]
      BY <1>3, <2>5 DEF UpToDate
    <3>2. CASE q # p
      BY <1>3, <1>7, <2>5, <3>1, <3>2 DEF UpToDate, p
    <3>3. CASE q = p /\ k = mine[c]
      <4>1. m.on
        BY <1>2, <2>5, <3>3 DEF UpToDate, p, k
      <4>2. clock'[q][c] = mine[c] /\ c \in states'[q]
        <5>1. CASE clock[q][c] < mine[c]
          BY <1>6, <3>3, <4>1, <5>1 DEF Applied, Accepts
        <5>2. CASE clock[q][c] = mine[c] /\ c \in states[q]
          BY <1>2, <1>6, <3>3, <4>1, <5>2 DEF Applied, Accepts
        <5> QED BY <2>5, <5>1, <5>2 DEF UpToDate
      <4> QED BY <1>3, <3>1, <4>2 DEF UpToDate
    <3>4. CASE q = p /\ k # mine[c]
      <4>1. k < mine[c]
        BY <1>2, <3>4
      <4>2. CASE clock[q][c] = mine[c] /\ c \in states[q]
        <5>1. clock'[q][c] = mine[c] /\ c \in states'[q]
          BY <1>2, <1>6, <3>4, <4>1, <4>2 DEF Applied, Accepts
        <5> QED BY <1>3, <3>1, <5>1 DEF UpToDate
      <4>3. CASE clock[q][c] < mine[c]
        <5>1. clock'[q][c] < mine[c]
          BY <1>6, <3>4, <4>1, <4>3 DEF Applied
        <5>2. PICK n \in net : n.to = q /\ n.conn = c /\ n.on /\ n.clock = mine[c]
          BY <1>2, <1>5, <2>5, <4>3 DEF UpToDate
        <5>3. n \in net'
          BY <1>3, <3>4, <5>2 DEF k
        <5> QED BY <1>3, <3>1, <5>1, <5>2, <5>3 DEF UpToDate
      <4> QED BY <2>5, <4>2, <4>3 DEF UpToDate
    <3> QED BY <3>2, <3>3, <3>4
  <2> QED BY <2>3, <2>4, <2>5
<1> QED BY <1>2, <1>3, <1>4, <1>8, <1>9 DEF Agrees, OffComing, h

LEMMA AgreesConnection ==
    ASSUME Base, NEW c \in Conn, Agrees(c), NEW d \in Conn,
           Join(d) \/ Send(d) \/ Leave(d) \/ LeaveRemove(d) \/ LeaveFails(d)
    PROVE  Agrees(c)'
<1> DEFINE g == Home(d)
<1>1. TypeOK /\ Irreflexive /\ Unborn
  BY DEF Base
<1>2. g \in Pod /\ Sibling(d) \in SUBSET Conn
  BY <1>1, PlaceFacts
<1>3. c \in Sibling(d) <=> d \in Sibling(c)
  BY DEF Sibling
<1>4. CASE Join(d)
  <2>1. /\ Remove(g, Sibling(d)) /\ UNCHANGED <<origin, mine, clock, net>>
        /\ pc' = [pc EXCEPT ![d] = "in"]
    BY <1>4 DEF Join
  <2>2. pc'[d] = "in" /\ \A e \in Conn : pc[e] # "new" => pc'[e] # "new"
    BY <1>1, <2>1 DEF TypeOK
  <2>3. \A q \in Pod : c \in states'[q] <=> c \in states[q] /\ ~(q = g /\ c \in Sibling(d))
    BY <1>1, <1>2, <2>1, RemoveFacts
  <2>4. ASSUME NEW q \in Pod \ {Home(c)}, c \in states[q]
        PROVE  c \in states'[q] \/ Cleared(q, c)'
    <3>1. CASE q = g /\ c \in Sibling(d)
      <4>1. d \in Sibling(c) \ {c} /\ Home(d) = q
        BY <1>3, <2>4, <3>1
      <4> QED BY <2>1, <2>2, <4>1 DEF Cleared, Sibling, Home
    <3> QED BY <2>3, <2>4, <3>1
  <2> QED BY <1>1, <2>1, <2>2, <2>3, <2>4, PlaceFacts, AgreesKept
<1>5. CASE Send(d)
  <2>1. CASE d = c
    BY <1>5, <2>1, AgreesSent
  <2>2. CASE d # c
    <3> DEFINE k == mine[d] + 1
    <3>1. k \in Nat /\ TRUE \in BOOLEAN
      BY <1>1 DEF TypeOK
    <3>2. /\ Apply(g, d, k, TRUE) /\ net' = Publish(g, d, k, TRUE)
          /\ UNCHANGED <<origin, pc>> /\ mine'[c] = mine[c]
      BY <1>1, <1>5, <2>2 DEF Send, TypeOK
    <3> HIDE DEF k
    <3>3. Applied(g, d, k, TRUE) /\ Published(g, d, k, TRUE)
      BY <1>1, <1>2, <3>1, <3>2, ApplyFacts, PublishFacts
    <3>4. \A q \in Pod : (c \in states'[q] <=> c \in states[q])
                            /\ clock'[q][c] = clock[q][c]
      BY <2>2, <3>3 DEF Applied
    <3>5. {m \in net' : m.conn = c} = {m \in net : m.conn = c}
      BY <2>2, <3>3 DEF Published
    <3> QED BY <1>1, <3>2, <3>4, <3>5, PlaceFacts, AgreesKept
  <2> QED BY <2>1, <2>2
<1>6. CASE Leave(d) \/ LeaveFails(d)
  <2>1. UNCHANGED <<origin, mine, states, clock, net>>
    BY <1>6 DEF Leave, LeaveFails, entries
  <2>2. \A e \in Conn : pc[e] # "new" => pc'[e] # "new"
    BY <1>1, <1>6 DEF Leave, LeaveFails, TypeOK
  <2> QED BY <1>1, <2>1, <2>2, PlaceFacts, AgreesKept
<1>7. CASE LeaveRemove(d)
  <2>1. /\ Remove(g, First(g, d)) /\ leaves[d] > 0
        /\ UNCHANGED <<origin, pc, mine, clock>>
    BY <1>7 DEF LeaveRemove
  <2>2. First(g, d) \subseteq states[g] /\ First(g, d) \subseteq Sibling(d)
        /\ First(g, d) \in SUBSET Conn
    BY <1>2 DEF First
  <2>3. \A q \in Pod : c \in states'[q] <=> c \in states[q] /\ ~(q = g /\ c \in First(g, d))
    BY <1>1, <1>2, <2>1, <2>2, RemoveFacts
  \* Whose leave it is has joined there.
  <2>4. pc[d] # "new"
    BY <1>1, <2>1 DEF Unborn, TypeOK
  <2>5. c \in First(g, d) => g = Home(c) \/ Cleared(g, c)
    BY <1>3, <2>2, <2>4 DEF Cleared
  <2>6. CASE {m \in net' : m.conn = c} = {m \in net : m.conn = c}
    <3>1. \A q \in Pod : Cleared(q, c) => Cleared(q, c)'
      BY <2>1, ClearedStays
    <3> QED BY <1>1, <2>1, <2>3, <2>5, <2>6, <3>1, PlaceFacts, AgreesKept
  <2>7. CASE {m \in net' : m.conn = c} # {m \in net : m.conn = c}
    <3>1. PICK e \in First(g, d) : net' = Publish(g, e, clock[g][e], FALSE)
      BY <1>7, <2>7 DEF LeaveRemove
    <3>2. clock[g][e] \in Nat /\ e \in Conn /\ FALSE \in BOOLEAN
      BY <1>1, <1>2, <2>2 DEF TypeOK
    <3>3. e = c
      <4>1. Published(g, e, clock[g][e], FALSE)
        BY <1>1, <1>2, <3>1, <3>2, PublishFacts
      <4> QED BY <2>7, <4>1 DEF Published
    <3>4. \A q \in Pod : c \in states'[q] <=> c \in states[q] /\ q # g
      BY <2>3, <3>3
    <3>5. net' = Publish(g, c, clock[g][c], FALSE)
      BY <3>1, <3>3
    <3>6. g = Home(c) \/ Cleared(g, c)
      BY <2>5, <3>3
    <3> HIDE DEF g
    <3> QED BY <1>2, <2>1, <3>4, <3>5, <3>6, AgreesWithdrawn
  <2> QED BY <2>6, <2>7
<1> QED BY <1>4, <1>5, <1>6, <1>7

LEMMA AgreesPods ==
    ASSUME Base, NEW c \in Conn, Agrees(c),
           \/ \E m \in net : Deliver(m)
           \/ \E p \in Pod, d \in Conn : Expire(p, d)
    PROVE  Agrees(c)'
<1>1. TypeOK /\ Irreflexive
  BY DEF Base
<1>2. ASSUME NEW m \in net, Deliver(m)
      PROVE  Agrees(c)'
  <2>1. CASE m.conn = c
    BY <1>2, <2>1, AgreesDelivered
  <2>2. CASE m.conn # c
    <3>1. m.to \in Pod /\ m.conn \in Conn /\ m.clock \in Nat /\ m.on \in BOOLEAN
      BY <1>1 DEF TypeOK, Message
    <3>2. Applied(m.to, m.conn, m.clock, m.on)
      BY <1>1, <1>2, <3>1, ApplyFacts DEF Deliver
    <3>3. UNCHANGED <<origin, pc, mine>> /\ net' = net \ {m}
      BY <1>2 DEF Deliver
    <3>4. \A q \in Pod : (c \in states'[q] <=> c \in states[q])
                            /\ clock'[q][c] = clock[q][c]
      BY <2>2, <3>2 DEF Applied
    <3>5. {n \in net' : n.conn = c} = {n \in net : n.conn = c}
      BY <2>2, <3>3
    <3> QED BY <1>1, <3>3, <3>4, <3>5, PlaceFacts, AgreesKept
  <2> QED BY <2>1, <2>2
<1>3. ASSUME NEW p \in Pod, NEW d \in Conn, Expire(p, d)
      PROVE  Agrees(c)'
  <2>1. /\ d \in states[p] /\ Remove(p, {d}) /\ {d} \in SUBSET Conn
        /\ \A m \in net : m.conn # d
        /\ net' = Publish(p, d, clock[p][d], FALSE)
        /\ UNCHANGED <<origin, pc, mine, clock>>
    BY <1>3 DEF Expire
  <2>2. \A q \in Pod : c \in states'[q] <=> c \in states[q] /\ ~(q = p /\ c \in {d})
    BY <1>1, <2>1, RemoveFacts
  <2>3. CASE d = c
    BY <2>1, <2>2, <2>3, AgreesWithdrawn
  <2>4. CASE d # c
    <3>1. Published(p, d, clock[p][d], FALSE)
      <4>1. clock[p][d] \in Nat /\ FALSE \in BOOLEAN
        BY <1>1 DEF TypeOK
      <4> QED BY <1>1, <2>1, <4>1, PublishFacts
    <3>2. {m \in net' : m.conn = c} = {m \in net : m.conn = c}
      BY <2>4, <3>1 DEF Published
    <3> QED BY <1>1, <2>1, <2>2, <2>4, <3>2, PlaceFacts, AgreesKept
  <2> QED BY <2>3, <2>4
<1> QED BY <1>2, <1>3

LEMMA AgreedInit == Init => Agreed
<1> SUFFICES ASSUME Init, NEW c \in Conn
             PROVE  Agrees(c)
  BY DEF Agreed
<1>1. Home(c) \in Pod
  BY BaseInit, PlaceFacts DEF Base
<1> QED BY <1>1 DEF Init, Agrees

LEMMA AgreedStep ==
    ASSUME Inv, Agreed, [Next]_vars
    PROVE  Agreed'
<1>1. Base
  BY DEF Inv
<1>2. SUFFICES ASSUME Orderly', NEW c \in Conn
               PROVE  Agrees(c)'
  BY DEF Agreed
<1>3. Orderly
  BY <1>1, <1>2, OrderlyBefore
<1>4. Agrees(c)
  BY <1>3 DEF Agreed
<1>5. CASE \E d \in Conn :
            Join(d) \/ Send(d) \/ Leave(d) \/ LeaveRemove(d) \/ LeaveFails(d)
  BY <1>1, <1>4, <1>5, AgreesConnection
<1>6. CASE \/ \E m \in net : Deliver(m)
           \/ \E p \in Pod, d \in Conn : Expire(p, d)
  BY <1>1, <1>4, <1>6, AgreesPods
<1>7. CASE \/ \E m \in net : Lose(m)
           \/ \E p \in Pod : Reload(p)
  <2>1. lost \in Nat /\ reloads \in Nat
    BY <1>1 DEF Base, TypeOK
  <2> QED BY <1>2, <1>3, <1>7, <2>1 DEF Lose, Reload, Orderly
<1>8. CASE UNCHANGED vars
  <2>1. UNCHANGED <<origin, pc, mine, states, clock, net>>
    BY <1>8 DEF vars, entries
  <2> QED BY <1>1, <1>4, <2>1, PlaceFacts, AgreesKept DEF Base
<1> QED BY <1>5, <1>6, <1>7, <1>8 DEF Next

LEMMA AgreedInvariance == Spec => []Agreed
BY InvInit, InvStep, AgreedInit, AgreedStep, PTL DEF Spec

-----------------------------------------------------------------------------
(* Results. *)

\* Types.
THEOREM TypeCorrect == Spec => []TypeOK
<1>1. Inv => TypeOK
  BY DEF Inv, Base
<1> QED BY <1>1, Invariance, PTL

\* However joins, leaves, timeouts, losses and reloads fall together, what is
\* shown of a client, and what is on its way, is never ahead of the client: its
\* next renewal will be taken by every pod.
THEOREM RenewalsTaken == Spec => []NeverAhead
<1>1. Inv => NeverAhead
  BY DEF Inv, Base
<1> QED BY <1>1, Invariance, PTL

\* Whatever the order in which the messages of a client come, and however they
\* fall together with its leaves and with the timeouts of the pods, the last pod
\* to hear of the leave of a user's only connection stops showing it, if its own
\* pod carried the leave out.
THEOREM NoGhosts == Spec => []NoGhostAtRest
<1>1. Inv => NoGhostAtRest
  <2> SUFFICES ASSUME Inv, lost = 0, reloads = 0, NEW c \in Conn, Alone(c),
                      c \notin conn, leaves[c] = 0, c \notin failed,
                      \A m \in net : m.conn # c,
                      NEW p \in Pod
               PROVE  c \notin states[p]
    BY DEF NoGhostAtRest
  <2>1. Tracked(c)
    BY DEF Inv, Orderly
  <2>2. c \notin states[Home(c)]
    BY <2>1 DEF Tracked
  <2> QED BY <2>1, <2>2 DEF Tracked, OffComing
<1> QED BY <1>1, Invariance, PTL

\* What a pod shows of its own connection, the others show when the messages have
\* come, in any order: a removal that overtakes the renewal it was made before, or
\* comes after it, changes nothing, and one that takes the entry away is one the
\* connection's own pod hears of as well.
THEOREM PodsAgree == Spec => []AgreedAtRest
<1>1. Agreed => AgreedAtRest
  <2> SUFFICES ASSUME Agreed, Connected, lost = 0, reloads = 0, NEW c \in Conn,
                      c \in states[Home(c)], \A m \in net : m.conn # c, NEW p \in Pod
               PROVE  c \in states[p] \/ Cleared(p, c)
    BY DEF AgreedAtRest
  <2>1. Agrees(c) /\ ~OffComing(c, Home(c), mine[c])
    BY DEF Agreed, Orderly, OffComing
  <2> QED BY <2>1 DEF Agrees, UpToDate
<1> QED BY <1>1, AgreedInvariance, PTL
=============================================================================
