SPECIFICATION FairSpec
CONSTANTS
    Null = Null
    Conns = {k1, k2}
    ShortAt = {"client", "hub"}
    Counts = {1}
    StrayLengths = {0, 66}
    Contents = {147, 148, 300}
    MaxCalls = 3
    MaxFaults = 1
INVARIANTS TypeOK QuietBetweenCalls HubAligned ResponsesFit
PROPERTIES GetsOwnAnswer CallsReturn
CHECK_DEADLOCK FALSE
