\* One property, which the code breaks.
\* CHECK_DEADLOCK FALSE: a process that has terminated does nothing.
SPECIFICATION FairSpec
CONSTANTS
    MaxElements = 1
    Straight = straight
    Nobody = nobody
CHECK_DEADLOCK FALSE
PROPERTY
    StopEnds
