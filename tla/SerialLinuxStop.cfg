\* One property, which the code breaks.
SPECIFICATION Spec
CONSTANTS
    OutPorts = {tty0}
    InPorts = {tty0, tty1}
    Elements = {e1}
    MaxFd = 2
    Straight = straight
    None = none
INVARIANT
    StopClearsDtr
