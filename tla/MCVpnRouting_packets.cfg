SPECIFICATION JoiningSpec

CONSTANTS
    c1 = c1
    c2 = c2
    c3 = c3
    lobby = lobby
    dust = dust
    None = None
    NoPassword = NoPassword
    Lobby = lobby
    Conns = {c1, c2, c3}
    Rooms = {lobby, dust}
    Passwords = {NoPassword}
    Hosts = 3
    SubnetSpace = 2
    MaxPackets = 2

CONSTRAINT OneLeaves

INVARIANTS
    StaysInRoom
    SendersKeepOrder
    BroadcastReachesAll

\* Every client may be gone.
CHECK_DEADLOCK FALSE
