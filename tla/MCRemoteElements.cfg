SPECIFICATION Spec
CONSTANTS
    Paddles = {keyer}
    Straights = {}
    Durations = {1, 3}
    Delays = {0, 2}
    Reliable = FALSE
    Nobody = nobody
PROPERTIES
    ElementsComplete
    ReleaseReachesServer
