CONSTANTS
    Executions = {e1, e2}
    NoOwner = NoOwner
    Lease = 2
    RenewInterval = 1
    MaxDuration = 4
    MaxTime = 5
SPECIFICATION Spec
SYMMETRY Symmetry
INVARIANTS TypeOK ConfirmedMeansOwned WorkIsExclusive
PROPERTIES NeverResurrected
CHECK_DEADLOCK FALSE
