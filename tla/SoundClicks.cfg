\* One property, which the code breaks.
SPECIFICATION FairSpec
CONSTANTS
    Attack = 3
    Release = 4
    Chunk = 2
    Durations = {7}
    MaxIdle = 2
    MaxPending = 1
PROPERTY
    SmoothTone
