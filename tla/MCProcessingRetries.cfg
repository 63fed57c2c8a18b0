CONSTANTS
    Workers = {w1}
    Apis = {a1}
    NoOwner = NoOwner
    Orphan = Orphan
    Attempts = 2
    MaxRecoveries = 1
    MaxGeneration = 2
    MaxFaults = 2
SPECIFICATION FairSpec
INVARIANTS EvidenceKept
PROPERTIES EveryGenerationSettles ImplementsLifecycle
CHECK_DEADLOCK FALSE
