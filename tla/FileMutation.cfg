SPECIFICATION FairSpec
CONSTANTS
    Mutations = {m1, m2, m3}
    Edits = {m1, m2}
    Outsiders = {x}
    None = None
INVARIANTS
    OneOwner
    AbortKeepsFile
PROPERTIES
    ReplacesWhatWasRead
    MutationsEnd
CHECK_DEADLOCK FALSE
