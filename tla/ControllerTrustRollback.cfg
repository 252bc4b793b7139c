SPECIFICATION Spec
CONSTANTS
    Ids = {g1}
    Hosts = {h1, h2}
    None = None
    MaxCalls = 1
    MaxChallenges = 1
    MaxFailures = 2
    MaxBoots = 1
INVARIANTS
    FailedRollbackBlocked
CHECK_DEADLOCK FALSE
