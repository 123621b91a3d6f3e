SPECIFICATION FairSpec

CONSTANTS
    c1 = c1
    c2 = c2
    c3 = c3
    lobby = lobby
    dust = dust
    secret = secret
    None = None
    NoPassword = NoPassword
    Lobby = lobby
    Conns = {c1, c2}
    Rooms = {lobby, dust}
    Passwords = {NoPassword, secret}
    Hosts = 1
    SubnetSpace = 2

CONSTRAINT OneSends

PROPERTIES
    SessionEndFreesPeer
    MembersStayFiled
    BookSpec

\* Every client may be gone.
CHECK_DEADLOCK FALSE
