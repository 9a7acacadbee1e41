SPECIFICATION FairSpec
CONSTANTS
    Null = Null
    a = a
    b = b
    Clients = {a, b}
    Workers = {w1}
    Conns = {k1, k2}
    Sizes = {"fits"}
    MaxDraws = 3
    Limit <- Limit31
    Mended <- NoDelete
    Faults = {"conn", "crash", "hub"}
    MaxFaults = 1
PROPERTIES CallsReturn AcceptanceArrives EventuallyShown
