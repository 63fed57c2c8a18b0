CONSTANTS
    Workers = {w1, w2}
    Apis = {a1}
    NoOwner = NoOwner
    Orphan = Orphan
    Attempts = 2
    MaxRecoveries = 1
    MaxGeneration = 1
    MaxFaults = 2
SPECIFICATION FairSpec
INVARIANTS TypeOK RecoveryIsBounded
PROPERTIES EveryGenerationSettles
CHECK_DEADLOCK FALSE
