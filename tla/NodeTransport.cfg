SPECIFICATION FairSpec
CONSTANTS
    MaxSockets = 2
    Keys = {k1, k2}
    Certs = {t1, t2}
    Verified = {t1}
    Requests = {q1}
    None = None
    MaxBoots = 2
INVARIANTS
    ServesItsController
    ServedIsSaved
    RepliesGoHome
PROPERTIES
    PinIsConfirmed
    HandshakeEnds
    Reconnects
CHECK_DEADLOCK FALSE
