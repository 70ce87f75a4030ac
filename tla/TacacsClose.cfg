SPECIFICATION FairSpec
CONSTANTS
    c1 = c1
    s1 = s1
    s2 = s2
    good = good
    bad = bad
    alice = alice
    no_admin = no_admin
    empty = empty
    arg = arg
    Conns = {c1}
    Secret = good
    OtherSecret = bad
    Sessions = {s1, s2}
    Users = {alice, no_admin}
    NoName = empty
    Denied = {no_admin}
    Args <- ArgLists
    Requests <- Dialogue
    MaxRequests = 1
PROPERTIES
    CloseStopsServer
CHECK_DEADLOCK FALSE
