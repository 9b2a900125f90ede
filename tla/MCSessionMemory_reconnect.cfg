\* Ann reconnects before her old connection is gone.
SPECIFICATION Spec
CONSTANTS
    p1 = p1  p2 = p2
    k1 = k1  k2 = k2
    ann = ann  bob = bob
    None = None
    Pod = {p1}
    Socket = {k1, k2}
    PodOf <- OnePod
    UserOf <- AnnTwice
    Owner = ann
    Requests = {}
    DropMidJoin = FALSE
    MaxFaults = 0
    MaxCrashes = 0
INVARIANTS
    ReconnectKeepsSession
\* Every client connects once: when all have gone the system stops.
CHECK_DEADLOCK FALSE
