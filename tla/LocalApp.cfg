SPECIFICATION FairSpec
CONSTANTS
    Null = Null
    Workers = {w1, w2}
    Passphrases = {p1, p2}
    HubAddresses <- MCHubAddresses
    NoAddress = "none"
    AddressLength <- MCAddressLength
    BadKeyLength = 66
    Debug = FALSE
    DebugConfig <- MCDebugConfig
    Mended = {"receiver"}
    MaxStarts = 3
    MaxWrong = 2
INVARIANTS TypeOK OpenedIsSeen NotLockedOut SaveFindsFile
PROPERTIES ConfiguredIsOpened IdentityIsKept
CHECK_DEADLOCK FALSE
