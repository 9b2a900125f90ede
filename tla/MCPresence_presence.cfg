\* Two connections, of one user or of two, on one pod or on two, and one fault.
SPECIFICATION FairSpec
CONSTANTS
    c1 = c1  c2 = c2
    p1 = p1  p2 = p2
    ann = ann  bob = bob
    Pod = {p1, p2}
    Conn = {c1, c2}
    User = {ann, bob}
    Origins <- SameOrOther
    Connected = TRUE
    MaxNet = 2
    MaxEvents = 1
INVARIANTS
    TypeOK
    NeverAhead
    NoGhostAtRest
    AgreedAtRest
PROPERTIES
    GhostsVanish
    ShownAgain
\* Everybody has left.
CHECK_DEADLOCK FALSE
