SPECIFICATION BoundedSpec
CONSTANTS
    p1 = p1
    Peers = {p1}
    MaxSessions = 2
    MaxAttempts = 2
    MaxDials = 2
    MaxSignals = 1
    MaxCalls = 2
INVARIANTS
    OneDevice
    OpenIsFiled

PROPERTIES
    NothingRunsOn
    CancelEndsVpn

\* RunVPN returns.
CHECK_DEADLOCK FALSE
