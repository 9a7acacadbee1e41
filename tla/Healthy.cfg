SPECIFICATION Spec
CONSTANTS
    Null = Null
    a = a
    b = b
    Clients = {a, b}
    Workers = {w1, w2}
    Conns = {k1, k2}
    Sizes = {"fits"}
    MaxDraws = 3
    Limit <- Limit33
    Mended <- NoDelete
    Faults = {}
    MaxFaults = 0
SYMMETRY Symmetry
INVARIANTS TypeOK NoKeyReuse PeersAgree ConvosAgree NextDecrypts MailboxInOrder
PROPERTIES DeliversAll
