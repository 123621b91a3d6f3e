SPECIFICATION Spec

CONSTANTS
    t1 = t1
    None = None
    Specs = {t1}
    Want <- Single
    MaxSessions = 2
    MaxAttempts = 2
    MaxDials = 2
    MaxPort = 1
    IdSpace = 3
    AllowedPorts = {}
    MaxData = 1

CONSTRAINT BothStay

INVARIANTS
    ConnectedMeansReachable
    DataFindsItsTunnel

\* The client ends, and so may the server.
CHECK_DEADLOCK FALSE
