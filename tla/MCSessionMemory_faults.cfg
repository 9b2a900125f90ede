\* One rejected call and one pod crash anywhere, and the owner closing the session.
SPECIFICATION FairSpec
CONSTANTS
    p1 = p1  p2 = p2
    k1 = k1  k2 = k2
    ann = ann  bob = bob
    None = None
    Pod = {p1, p2}
    Socket = {k1, k2}
    PodOf <- TwoPods
    UserOf <- AnnAndBob
    Owner = ann
    Requests = {"close"}
    DropMidJoin = TRUE
    MaxFaults = 1
    MaxCrashes = 1
INVARIANTS
    TypeOK
    NeverDeaf
    LoadedDocServed
PROPERTIES
    JoinAnswered
\* Every client connects once: when all have gone the system stops.
CHECK_DEADLOCK FALSE
