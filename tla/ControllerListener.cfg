SPECIFICATION Spec
CONSTANTS
    Gateways = {g1, g2}
    Hosts = {h1, h2}
    Conns = {c1, c2}
    Requests = {q1, q2}
    Ops = {a}
    None = None
    MaxPending = 1
    ActivityLimit = 2
SYMMETRY Symmetry
INVARIANTS
    OneLiveConnection
    ReadyIsTrusted
    WaitsOnlyWhileReady
    InFlightIsAwaited
    RunningShown
PROPERTIES
    ApprovalBindsChallenge
CHECK_DEADLOCK FALSE
