SPECIFICATION CliFairSpec
CONSTANTS
    c1 = c1
    c2 = c2
    s1 = s1
    s2 = s2
    good = good
    bad = bad
    alice = alice
    no_admin = no_admin
    empty = empty
    arg = arg
    Conns = {c1, c2}
    Cli = {c2}
    CliSession = s1
    Inputs <- Typed
    Secret = good
    OtherSecret = bad
    Sessions = {s1, s2}
    Users = {alice, no_admin}
    NoName = empty
    Denied = {no_admin}
    Args <- ArgLists
    Requests <- AllRequests
    MaxRequests = 2
INVARIANTS
    CliInv
    VerdictShown
    PairedReplies
    OneReplyUnlessSingle
PROPERTIES
    ImplementsServer
    CliEnds
    ConnectionEnds
    CloseStopsListener
CHECK_DEADLOCK FALSE
