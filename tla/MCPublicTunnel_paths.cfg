SPECIFICATION FairPublicSpec

CONSTANTS
    a1 = a1
    a2 = a2
    None = None
    MaxBytes = 2
    Addrs = {a1, a2}
    MaxStreams = 2

INVARIANTS
    TableIsExact

PROPERTIES
    SessionEndFreesTunnel
    DirectSpec

\* Both ends may be closed, the session over and every visitor silent.
CHECK_DEADLOCK FALSE
