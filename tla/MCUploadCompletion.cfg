CONSTANTS
    Calls = {c1, c2, c3}
    NoCall = NoCall
    MaxLosses = 3
SPECIFICATION FairSpec
INVARIANTS TypeOK AcceptedIsBacked ReuploadOnlyIfNeeded ObservedMeansAccepted
PROPERTIES LegalTransitions UploadIsAccepted
CHECK_DEADLOCK FALSE
