SPECIFICATION Spec

CONSTANTS
    w1 = w1
    w2 = w2
    w3 = w3
    lobby = lobby
    dust = dust
    p1 = p1
    p2 = p2
    Hub = Hub
    Nobody = Nobody
    Workers = {w1, w2, w3}
    Rooms = {lobby, dust}
    Peers = {p1, p2}
    RoomOf <- OneEach

SYMMETRY AnyWorker

INVARIANTS
    NoCircularWait
    OtherRoomsGoOn
