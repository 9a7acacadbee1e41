SPECIFICATION Spec
CONSTANTS
    Null = Null
    Conns = {k1}
    ShortAt = {}
    Counts = {}
    StrayLengths = {}
    Contents = {147, 148}
    MaxCalls = 2
    MaxFaults = 0
INVARIANTS AllowedIsSent
CHECK_DEADLOCK FALSE
