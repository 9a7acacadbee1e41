SPECIFICATION FairSpec
CONSTANTS
    Null = Null
    Conns = {k1, k2}
    Addresses = {a, b}
    Convos = {x}
    Contents = {m1}
    MaxReqs = 3
INVARIANTS TypeOK LoadedIsCurrent
PROPERTIES ServesAtomically RequestsServed
