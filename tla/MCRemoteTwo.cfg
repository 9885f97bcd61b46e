\* Two callers compete for MOX; the threads are fair.
SPECIFICATION FairSpec
CONSTANTS
    Paddles = {keyer}
    Straights = {n1mm}
    Durations = {1}
    Delays = {0, 1}
    Reliable = FALSE
    Nobody = nobody
INVARIANTS
    IInv
    KeysUnderMox
PROPERTIES
    NeverEarly
    MoxIsReleased
    StopCompletes
