\* Two ports for two objects, which may share one, two overlapping elements, a
\* straight key, and room for one lost descriptor.
SPECIFICATION FairSpec
CONSTANTS
    OutPorts = {tty0}
    InPorts = {tty0, tty1}
    Elements = {e1, e2}
    MaxFd = 3
    Straight = straight
    None = none
INVARIANT
    Inv
PROPERTIES
    PortsKeyALine
    StraightIsReleased
