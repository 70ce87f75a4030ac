SPECIFICATION WireSpec
CONSTANTS
    Octets = 20
    CHAPResponseType = 0
    UserNameType = 1
    VendorSpecificType = 2
    EAPMessageType = 3
    MessageAuthenticator = 4
    CHAPChallengeType = 5
    ProxyStateType = 6
    StateType = 7
    ReplyMessageType = 8
    MicrosoftVendorID <- VendorId
    MacLen = 2
    ChallengeLen = 1
    ReservedLen = 1
    ResponseLen = 1
    Nibble = 2
    MajorVer = 1
    NoPrefix <- Refused
    MaxLen <- Lengths
    Letters <- Continuations
INVARIANTS
    ScannersAgree
    InBounds
    MACoverage
    RejectShown
    NameCarried
    EAPCarried
    MSCHAPCarried
    PasswordHidden
    PacketTiled
    ArgsMirrored
    PadUndone
    TypedNameDecides
CHECK_DEADLOCK FALSE
