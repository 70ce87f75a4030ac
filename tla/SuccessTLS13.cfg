SPECIFICATION FairSystemSpec
CONSTANTS
    a1 = a1
    a2 = a2
    h1 = h1
    h2 = h2
    p1 = p1
    p2 = p2
    u1 = u1
    no_admin = no_admin
    nobody = nobody
    Addrs = {a1}
    Handlers = {h1}
    Users = {u1, no_admin}
    NoUser = nobody
    Denied = {no_admin}
    Ids = {254, 255, 0, 1, 2, 3, 4, 5}
    Peers = {p1}
    AddrOf <- AddrFirst
    FirstId <- FirstIdOne
    Answer <- AnswerTLS13
    SlowEngine = FALSE
    MaxPackets = 20
    Retransmits = 0
PROPERTIES
    SuccessIsSent
CHECK_DEADLOCK FALSE
