SPECIFICATION FairSpec

CONSTANTS
    k1 = k1
    k2 = k2
    None = None
    Identities = {k1, k2}
    MaxRows = 2
    MaxSessions = 2
    Cap = 2

CONSTRAINT Bounds

INVARIANTS
    NeverStuck
    StatusSettles
    IdentityKept

PROPERTIES
    DisconnectEnds

\* Nobody has to use the programs, and the key pairs and sessions are bounded.
CHECK_DEADLOCK FALSE
