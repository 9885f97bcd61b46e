\* Two elements, the straight key, and stops and restarts of both objects.
\* CHECK_DEADLOCK FALSE: a process that has terminated does nothing.
SPECIFICATION FairSpec
CONSTANTS
    MaxElements = 2
    Straight = straight
    Nobody = nobody
CHECK_DEADLOCK FALSE
INVARIANT
    Inv
PROPERTIES
    OutputKeysALine
    InOrder
    QueueIsPlayed
    StopReturns
