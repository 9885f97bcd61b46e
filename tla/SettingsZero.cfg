\* An amplitude of zero is saved, and lost at the next start.
SPECIFICATION FairSpec
CONSTANTS
    mode = mode
    amplitude = amplitude
    delay = delay
    port = port
    Plain = {mode, amplitude, delay, port}
    Part <- MCPart
    Defaulted = {mode, amplitude}
    NonZero = {mode}
    Indexed = {port}
    Unselected <- MCUnselected
    Speeds = {1, 2, 3}
    DefaultSpeed = 2
    Missing = missing
    Off = off
PROPERTY SavedIsTaken
