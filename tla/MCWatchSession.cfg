CONSTANTS
    Videos = {v1, v2}
    None = None
    Duration = 4
    ResumeAfter = 0
    ResumeBefore = 1
    Limits <- AllRecoveries
    MaxAttachments = 2
    MaxSaves = 1
SPECIFICATION Spec
PROPERTIES
    PlaybackIsKept
