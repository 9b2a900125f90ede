\* Two messages, one group on two pods; one reloaded broker list.
SPECIFICATION FairSpec
CONSTANTS
    m1 = m1  m2 = m2
    None = None
    Message = {m1, m2}
    Form <- JsonAndNull
    Group = {g1}
    Pod = {p1, p2}
    Second = {1, 2}
    MaxRetries = 1
    Cap = 1
    Batch = 2
    MaxFaults = 1
    MaxStops = 1
    MaxReloads = 1
INVARIANTS
    TypeOK
    QueueBounded
    Accounted
    OneFate
PROPERTIES
    OffsetsForward
    ImplementsAtLeastOnce
    Settles
    Quiesces
\* Producers send each message once: when all are settled the system stops.
CHECK_DEADLOCK FALSE
