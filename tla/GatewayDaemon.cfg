SPECIFICATION Spec
CONSTANTS
    Requests = {r1, r2, r3}
    Ops = {a, b}
    Digests = {d1, d2}
    None = None
    JournalLimit = 1
    JournalTtl = 1
    MaxClock = 2
    MaxBoots = 1
SYMMETRY Symmetry
INVARIANTS
    TypeOK
    OneRunPerOperation
    RunningNotRetained
    DoneIsDurable
    StoppingAborts
    SameJournal
PROPERTIES
    ReplayFaithful
    NoRerunInWindow
    ImplementsContract
CHECK_DEADLOCK FALSE
