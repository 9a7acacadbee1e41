SPECIFICATION Spec
CONSTANTS
    Null = Null
    a = a
    b = b
    Clients = {a, b}
    Workers = {w1}
    Conns = {k1, k2, k3}
    Sizes = {"fits"}
    MaxDraws = 3
    Limit <- Limit33
    Mended <- NoDelete
    Faults = {"crash"}
    MaxFaults = 1
SYMMETRY Symmetry
INVARIANTS ThreadsAreFresh
