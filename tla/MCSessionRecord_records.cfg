\* Two clients of one session, one call of createSession, one rejected call.
SPECIFICATION FairSpec
CONSTANTS
    s1 = s1
    k1 = k1  k2 = k2
    ann = ann  bob = bob
    c1 = c1
    None = None
    Session = {s1}
    Client = {k1, k2}
    UserOf <- AnnAndBob
    OwnerSocket = {k1}
    Creator = {c1}
    MaxFaults = 1
INVARIANTS
    TypeOK
    InactiveWhenLeft
PROPERTIES
    EndsForGood
\* Every client connects once: when all have gone the system stops.
CHECK_DEADLOCK FALSE
