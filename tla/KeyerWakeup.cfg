\* One property, which the code breaks.
SPECIFICATION FairSpec
CONSTANTS
    Sources = {usb}
    Workers = {w1}
    Modes = {"IAMBIC_B"}
    Nobody = nobody
PROPERTY
    QueuedIsTaken
