SPECIFICATION ClientSpec

CONSTANTS
    t1 = t1
    t2 = t2
    Nobody = Nobody
    Specs = {t1, t2}
    MaxSessions = 2
    MaxAttempts = 7
    MaxDials = 7
    TunnelIds = {1, 2}

INVARIANTS
    SessionsAreClosed
    ConnectedMeansGranted
    WaitsWhileExact

PROPERTIES
    LoopSpec

\* Run returns, or has used up its dials.
CHECK_DEADLOCK FALSE
