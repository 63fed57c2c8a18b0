CONSTANTS
    Executions = {e1}
    Janitors = {j1}
    NoAttempt = NoAttempt
    MaxGeneration = 1
SPECIFICATION InFlightSpec
INVARIANT ReadyIsServable
