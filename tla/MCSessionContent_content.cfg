\* Two clients of one pod join, edit, leave and close, with one rejected write.
SPECIFICATION Spec
CONSTANTS
    p1 = p1  k1 = k1  k2 = k2
    None = None
    Client = {k1, k2}
    Pod = {p1}
    PodOf <- OnePod
    Owner = k2
    Requests <- EditAndClose
    Setting = {"javascript"}
    Supported = {"javascript"}
    Default = "javascript"
    MaxRejected = 1
INVARIANTS
    TypeOK
    Durable
\* Every client acts once: when all have gone the system stops.
CHECK_DEADLOCK FALSE
