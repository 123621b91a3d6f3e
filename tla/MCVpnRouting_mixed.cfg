SPECIFICATION ServedSpec

CONSTANTS
    c1 = c1
    c2 = c2
    c3 = c3
    lobby = lobby
    dust = dust
    None = None
    NoPassword = NoPassword
    Lobby = lobby
    Conns = {c1, c2, c3}
    Rooms = {lobby}
    Passwords = {NoPassword}
    Hosts = 3
    SubnetSpace = 2
    MaxPackets = 1

SYMMETRY AnyPeer

CONSTRAINT NobodyLeaves

INVARIANTS
    FramesAreWhole

\* Every client may be gone.
CHECK_DEADLOCK FALSE
