SPECIFICATION FairSpec
CONSTANTS
    Gateways = {g1, g2}
    Hosts = {h1}
    Conns = {c1, c2}
    Requests = {q1}
    Ops = {a}
    None = None
    MaxPending = 1
    ActivityLimit = 1
INVARIANTS
    CollectionsBounded
PROPERTIES
    DestroyedSettles
CHECK_DEADLOCK FALSE
