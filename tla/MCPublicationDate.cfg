CONSTANTS
    Saves = {s1}
SPECIFICATION Spec
PROPERTIES OriginalDateRetained
CHECK_DEADLOCK FALSE
