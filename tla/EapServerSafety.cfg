SPECIFICATION Spec
CONSTANTS
    a1 = a1
    a2 = a2
    h1 = h1
    h2 = h2
    u1 = u1
    nobody = nobody
    Addrs = {a1, a2}
    Handlers = {h1, h2}
    Users = {u1}
    NoUser = nobody
    Ids = {255}
    Answer <- AnswerTLS12
    SlowEngine = TRUE
    MaxPackets = 3
SYMMETRY Symmetry
INVARIANTS
    TypeOK
    AcceptOnlyAfterHandshake
    SessionIsolation
PROPERTIES
    ImplementsConversation
CHECK_DEADLOCK FALSE
