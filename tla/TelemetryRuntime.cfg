SPECIFICATION FairSpec
CONSTANTS
    Calls = {c1, c2, c3}
    Transports = {t1, t2}
    Configurations = {{}, {t1, t2}}
    QueueLimit = 1
    BatchSize = 1
    MaxCount = 4
    MaxGenerations = 3
    Reports = {3}
INVARIANTS
    SpansAccounted
    BudgetIsHeld
    CollectedWhenDone
PROPERTIES
    WorkEnds
CHECK_DEADLOCK FALSE
