\* Two clients of one pod change settings, with one rejected write.
SPECIFICATION Spec
CONSTANTS
    p1 = p1  k1 = k1  k2 = k2
    None = None
    Client = {k1, k2}
    Pod = {p1}
    PodOf <- OnePod
    Owner = k1
    Requests <- BothChange
    Setting = {"javascript", "rust"}
    Supported = {"javascript"}
    Default = "javascript"
    MaxRejected = 1
INVARIANTS
    ToldWhatIsHeld
\* Every client acts once: when all have gone the system stops.
CHECK_DEADLOCK FALSE
