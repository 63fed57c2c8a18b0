CONSTANTS
    Calls = {c1, c2}
    None = None
    Lists = {l1}
    Videos = {v1, v2, v3}
    MaxItems = 2
    MaxPosition = 3
    LastRow = 5
    ChannelOf <- SomeChannels
    Weight <- SomeWeight
    FirstDates <- SomeDates
    Limit = 2
    Pool = 2
    MaxTime = 4
    Titles <- SomeTitles
    Duration = 3
    ResumeAfter = 0
    ResumeBefore = 0
    Limits <- FewRecoveries
    MaxAttachments = 2
    MaxSaves = 1
SPECIFICATION MCSpec
INVARIANTS
    AllTypesOK
    NoRowTwice
    NothingSkipped
    OnlyCurrentPlays
    ViewNeedsWatching
PROPERTIES
    NoCallerGetsConflict
    ImplementsShelf
