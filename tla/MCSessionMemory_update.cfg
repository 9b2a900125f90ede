\* Updates that load the document again, on one pod, with one rejected call.
SPECIFICATION Spec
CONSTANTS
    p1 = p1  p2 = p2
    k1 = k1  k2 = k2
    ann = ann  bob = bob
    None = None
    Pod = {p1}
    Socket = {k1, k2}
    PodOf <- OnePod
    UserOf <- Themselves
    Owner = ann
    Requests = {"update"}
    DropMidJoin = FALSE
    MaxFaults = 1
    MaxCrashes = 0
SYMMETRY Alike
INVARIANTS
    NoOrphanTimer
    NoOrphanListener
    NeverDeaf
    LoadedDocServed
\* Every client connects once: when all have gone the system stops.
CHECK_DEADLOCK FALSE
