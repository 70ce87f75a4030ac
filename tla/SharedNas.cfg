SPECIFICATION SystemSpec
CONSTANTS
    a1 = a1
    a2 = a2
    h1 = h1
    h2 = h2
    p1 = p1
    p2 = p2
    u1 = u1
    no_admin = no_admin
    nobody = nobody
    Addrs = {a1}
    Handlers = {h1, h2}
    Users = {u1}
    NoUser = nobody
    Denied = {no_admin}
    Ids <- IdsTwo
    Peers = {p1, p2}
    AddrOf <- AddrNas
    FirstId <- FirstIds
    Answer <- AnswerTLS12
    SlowEngine = FALSE
    MaxPackets = 20
    Retransmits = 0
INVARIANTS
    AcceptedPeerTookPart
CHECK_DEADLOCK FALSE
