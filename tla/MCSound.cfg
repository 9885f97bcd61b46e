\* Ramps longer than a chunk, so that key-ups fall into the attack and streams
\* restart in the middle of a release.
SPECIFICATION FairSpec
CONSTANTS
    Attack = 3
    Release = 4
    Chunk = 2
    Durations = {7, 9}
    MaxIdle = 3
    MaxPending = 3
INVARIANT
    Inv
PROPERTIES
    NoClicks
    SinkShutsDown
