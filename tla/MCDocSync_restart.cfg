\* One pod restarts: is the hot snapshot of use?
SPECIFICATION Spec
CONSTANTS
    p1 = p1  p2 = p2
    a = a  b = b
    Pod = {p1}
    Op = {a, b}
    Connected = TRUE
    MaxSaves = 1
    MaxLost = 0
    MaxFaults = 0
    MaxCrashes = 1
    MaxExpiries = 0
PROPERTIES
    HotGrows
\* The clients stop editing; nothing is left to do then.
CHECK_DEADLOCK FALSE
