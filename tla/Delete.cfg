SPECIFICATION Spec
CONSTANTS
    Null = Null
    a = a
    b = b
    Clients = {a, b}
    Workers = {w1}
    Conns = {k1, k2}
    Sizes = {"fits", "over"}
    MaxDraws = 3
    Limit <- Limit32
    Mended <- AllMended
    Faults = {}
    MaxFaults = 0
SYMMETRY Symmetry
INVARIANTS NoKeyReuse
PROPERTIES DeliversAll
