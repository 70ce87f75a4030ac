SPECIFICATION FairSystemSpec
CONSTANTS
    Secret = "testing123"
    WrongSecret = "mistyped"
    Denied = {"no_bob", "no_bob254"}
    Handlers = {h1, h2}
    Duplicates = {nas}
    Clients = {c1}
    Nas = nas
    NasPackets <- Layouts
    MaxNas = 1
    NameLen <- Names
CHECK_DEADLOCK FALSE
INVARIANTS
    TypeOK
    VerdictIsRight
    ResponseVerifies
    ForgedOnlyRejected
    DeniedNeverAccepted
PROPERTIES
    Shutdown
