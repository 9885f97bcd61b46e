\* One plain setting per part and one position; the delay and the port are the
\* ones that read as zero when they are missing.
SPECIFICATION Spec
CONSTANTS
    mode = mode
    amplitude = amplitude
    delay = delay
    port = port
    Plain = {mode, amplitude, delay, port}
    Part <- MCPart
    Defaulted = {mode, amplitude}
    NonZero = {mode}
    Indexed = {port}
    Unselected <- MCUnselected
    Speeds = {1, 2, 3}
    DefaultSpeed = 2
    Missing = missing
    Off = off
INVARIANTS
    Inv
    SpeedsInOrder
    RemoteIsSaved
PROPERTY
    PutsKeepTheRest
