\* The message listener attached, nothing lost.
SPECIFICATION FairSpec
CONSTANTS
    p1 = p1  p2 = p2
    a = a  b = b
    Pod = {p1, p2}
    Op = {a, b}
    Connected = TRUE
    MaxSaves = 2
    MaxLost = 0
    MaxFaults = 1
    MaxCrashes = 0
    MaxExpiries = 1
INVARIANTS
    TypeOK
    Consistent
PROPERTIES
    Converges
    Quiesces
\* The clients stop editing; nothing is left to do then.
CHECK_DEADLOCK FALSE
