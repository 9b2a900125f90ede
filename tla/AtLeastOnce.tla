---------------------------- MODULE AtLeastOnce ----------------------------
(***************************************************************************)
(* What the Kafka manager promises about the messages of a topic, whatever *)
(* calls fail and whichever processes stop: a message that was sent is     *)
(* owed to every consumer group until it has been handled there, put into  *)
(* the dead-letter topic, or dropped while it was owed; and what is owed   *)
(* no more is owed again only when a consumer that failed returns it, to   *)
(* every group.  KafkaRetry implements it.                                 *)
(***************************************************************************)
CONSTANTS Message, Group

VARIABLES
    sent,    \* the messages producers have sent
    owed,    \* <<group, message>>: still to be delivered
    handled, \* <<group, message>>
    dead,    \* <<group, message>>: in the dead-letter topic
    lost     \* <<group, message>>: dropped

vars == <<sent, owed, handled, dead, lost>>

Init == sent = {} /\ owed = {} /\ handled = {} /\ dead = {} /\ lost = {}

Send(m) ==
    /\ m \notin sent /\ sent' = sent \cup {m}
    /\ owed' = owed \cup (Group \X {m})
    /\ UNCHANGED <<handled, dead, lost>>

\* Whether it was owed or not: a message may be handled more than once.
Handle(g, m) ==
    /\ m \in sent /\ handled' = handled \cup {<<g, m>>}
    /\ UNCHANGED <<sent, owed, dead, lost>>

Return(m) ==
    /\ m \in sent /\ owed' = owed \cup (Group \X {m})
    /\ UNCHANGED <<sent, handled, dead, lost>>

\* One message may be dead-lettered, others dropped, and the debts end of
\* messages whose fate is known.
Settle(m) ==
    /\ m \in sent
    /\ dead \subseteq dead' /\ dead' \subseteq dead \cup (Group \X {m})
    /\ lost \subseteq lost' /\ lost' \ lost \subseteq owed \ (handled \cup dead)
    /\ owed' \subseteq owed /\ owed \ owed' \subseteq handled \cup dead' \cup lost'
    /\ UNCHANGED <<sent, handled>>

Next == \E m \in Message : \/ Send(m) \/ Return(m) \/ Settle(m)
                           \/ \E g \in Group : Handle(g, m)

Spec == Init /\ [][Next]_vars
=============================================================================
