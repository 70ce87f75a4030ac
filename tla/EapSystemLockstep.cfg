SPECIFICATION FairSystemSpec
CONSTANTS
    a1 = a1
    a2 = a2
    h1 = h1
    h2 = h2
    p1 = p1
    p2 = p2
    u1 = u1
    no_admin = no_admin
    nobody = nobody
    Addrs = {a1, a2}
    Handlers = {h1, h2}
    Users = {u1}
    NoUser = nobody
    Denied = {no_admin}
    Ids = {254, 255, 0, 1, 2, 3, 4, 5}
    Peers = {p1, p2}
    AddrOf <- AddrOwn
    FirstId <- FirstIdBoth
    Answer <- AnswerRetry
    SlowEngine = FALSE
    MaxPackets = 20
    Retransmits = 0
INVARIANTS
    SystemTypeOK
    StreamIntact
    AnnouncedLength
PROPERTIES
    FlightAnswered
CHECK_DEADLOCK FALSE
