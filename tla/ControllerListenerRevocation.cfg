SPECIFICATION Spec
CONSTANTS
    Gateways = {g1}
    Hosts = {h1}
    Conns = {c1}
    Requests = {q1}
    Ops = {a}
    None = None
    MaxPending = 1
    ActivityLimit = 1
INVARIANTS
    RevocationClearsActivity
CHECK_DEADLOCK FALSE
