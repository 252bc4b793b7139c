SPECIFICATION Spec
CONSTANTS
    Calls = {c1, c2, c3, c4}
    Ops = {a, b}
    Digests = {d1, d2}
    None = None
    TerminalLimit = 1
    MaxCrashes = 1
SYMMETRY Symmetry
INVARIANTS
    RecordsBounded
    OneMeaningInFlight
PROPERTIES
    UnresolvedStays
CHECK_DEADLOCK FALSE
