SPECIFICATION Spec
CONSTANTS
    Paddles = {keyer}
    Straights = {}
    Durations = {1}
    Delays = {1}
    Reliable = TRUE
    Nobody = nobody
INVARIANT StopReleasesMox
