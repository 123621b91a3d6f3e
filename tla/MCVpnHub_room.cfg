SPECIFICATION Spec

CONSTANTS
    c1 = c1
    c2 = c2
    c3 = c3
    lobby = lobby
    dust = dust
    secret = secret
    None = None
    NoPassword = NoPassword
    Lobby = lobby
    Conns = {c1, c2, c3}
    Rooms = {lobby}
    Passwords = {NoPassword}
    Hosts = 2
    SubnetSpace = 2

SYMMETRY AnyPeer

CONSTRAINT OneLeaves

INVARIANTS
    MutualDiscovery
    NoGhost
    DistinctUntilWrap

PROPERTIES
    FullMeansFull

\* Every client may be gone.
CHECK_DEADLOCK FALSE
