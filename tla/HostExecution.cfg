SPECIFICATION HostFairSpec
CONSTANTS
    Requests = {r1, r2}
    Ops = {a}
    Digests = {d1}
    None = None
    JournalLimit = 1
    JournalTtl = 1
    MaxClock = 1
    MaxBoots = 1
INVARIANTS
    EndedInVain
    StoppingSignals
PROPERTIES
    OperationReleased
CHECK_DEADLOCK FALSE
