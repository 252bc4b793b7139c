SPECIFICATION Spec
CONSTANTS
    Calls = {c1, c2, c3}
    Ops = {a, b}
    Digests = {d1}
    None = None
    TerminalLimit = 1
    MaxCrashes = 1
INVARIANTS
    InFlightIsRecorded
CHECK_DEADLOCK FALSE
