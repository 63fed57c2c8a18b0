CONSTANTS
    Executions = {e1, e2}
    Janitors = {j1}
    NoAttempt = NoAttempt
    MaxGeneration = 2
SPECIFICATION Spec
SYMMETRY Symmetry
INVARIANTS TypeOK ReadyIsServable NoSilentOrphan
PROPERTIES PublishedOnce LiveOwnerUndisturbed StaleExecutionInert ImplementsLifecycle
