\* As index.ts wires it: the message listener is not attached.
SPECIFICATION FairSpec
CONSTANTS
    p1 = p1  p2 = p2
    a = a  b = b
    Pod = {p1, p2}
    Op = {a, b}
    Connected = FALSE
    MaxSaves = 2
    MaxLost = 1
    MaxFaults = 1
    MaxCrashes = 1
    MaxExpiries = 1
PROPERTIES
    ImplementsSharedDoc
    Healed
    Quiesces
\* The clients stop editing; nothing is left to do then.
CHECK_DEADLOCK FALSE
