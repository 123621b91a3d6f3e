SPECIFICATION FairSpec

CONSTANTS
    c1 = c1
    h1 = h1
    h2 = h2
    None = None
    MaxPort = 3
    IdSpace = 2
    AllowedPorts = {1, 2}
    Conns = {c1}
    Streams = {h1, h2}
    ConnOf <- Pair
    AuthFrames <- Frames

INVARIANTS
    RegistryAgrees
    IdsDistinct
    ServedIsReachable
    NothingLeftBehind
    CloseAllMissesNobody

PROPERTIES
    UnregistersOnlyOwn
    RegistrySpec
    SessionEndDrains
    CancelClosesTunnels
    RunReturnsOnceAlone

\* The server stops when Run has returned and its clients are gone.
CHECK_DEADLOCK FALSE
