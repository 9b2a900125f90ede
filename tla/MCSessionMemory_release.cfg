\* Everybody leaves: explicitly, by disconnecting, or both.
SPECIFICATION FairSpec
CONSTANTS
    p1 = p1  p2 = p2
    k1 = k1  k2 = k2
    ann = ann  bob = bob
    None = None
    Pod = {p1, p2}
    Socket = {k1, k2}
    PodOf <- TwoPods
    UserOf <- AnnAndBob
    Owner = ann
    Requests = {"leave"}
    DropMidJoin = FALSE
    MaxFaults = 0
    MaxCrashes = 0
INVARIANTS
    ParticipantsExact
    ReleasedAtRest
PROPERTIES
    Released
\* Every client connects once: when all have gone the system stops.
CHECK_DEADLOCK FALSE
