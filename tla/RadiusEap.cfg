SPECIFICATION FullFairSpec
CONSTANTS
    a1 = a1
    h1 = h1
    h2 = h2
    bob = bob
    nobody = nobody
    good = good
    other = other
    Addrs = {a1}
    Handlers = {h1, h2}
    Users = {bob}
    NoUser = nobody
    Ids = {255}
    Answer <- AnswerOne
    SlowEngine = TRUE
    MaxPackets = 3
    Secret = good
    Denied = {}
    Duplicates = {}
    Datagrams <- AllDatagrams
    MaxSent = 3
INVARIANTS
    OnlyVerifiedFeedTls
    AdmittedByVerified
PROPERTIES
    ImplementsRadiusServer
    GoroutinesEnd
CHECK_DEADLOCK FALSE
