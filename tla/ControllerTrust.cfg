SPECIFICATION Spec
CONSTANTS
    Ids = {g1, g2}
    Hosts = {h1, h2}
    None = None
    MaxCalls = 2
    MaxChallenges = 2
    MaxFailures = 2
    MaxBoots = 1
SYMMETRY Symmetry
INVARIANTS
    UnblockedIsDecided
    LiveTrustIsDurable
PROPERTIES
    StaleApprovalNeverCommits
CHECK_DEADLOCK FALSE
