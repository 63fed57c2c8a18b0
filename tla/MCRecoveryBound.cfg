CONSTANTS
    Workers = {w1}
    Apis = {a1, a2}
    NoOwner = NoOwner
    Orphan = Orphan
    Attempts = 2
    MaxRecoveries = 1
    MaxGeneration = 1
    MaxFaults = 2
SPECIFICATION Spec
INVARIANTS RecoveryIsBounded
CHECK_DEADLOCK FALSE
