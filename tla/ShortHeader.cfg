SPECIFICATION Spec
CONSTANTS
    Null = Null
    Conns = {k1}
    ShortAt = {"client", "hub"}
    Counts = {1, 2, 66}
    StrayLengths = {0, 1, 66}
    Contents = {100}
    MaxCalls = 2
    MaxFaults = 0
INVARIANTS SuccessIsServed
CHECK_DEADLOCK FALSE
