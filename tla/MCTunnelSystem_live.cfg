SPECIFICATION FairSpec

CONSTANTS
    t1 = t1
    None = None
    Specs = {t1}
    Want <- Single
    MaxSessions = 1
    MaxAttempts = 2
    MaxDials = 2
    MaxPort = 1
    IdSpace = 3
    AllowedPorts = {}
    MaxData = 1

PROPERTIES
    CancelStopsClient

\* The client ends, and so may the server.
CHECK_DEADLOCK FALSE
