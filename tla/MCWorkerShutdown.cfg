CONSTANTS
    Jobs = {j1, j2}
    Concurrency = 2
    Streams <- SomeStreams
    NoSource = NoSource
SPECIFICATION Spec
INVARIANTS
    TypeOK
    ChildrenObey
    LeftBehindWasTold
    PicturesFit
PROPERTIES
    ToldToolSettles
    ShutdownEnds
CHECK_DEADLOCK FALSE
