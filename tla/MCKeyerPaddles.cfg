SPECIFICATION Spec
CONSTANTS
    Sources = {usb, keyboard}
    Workers = {w1}
    Modes = {"ULTIMATIC", "IAMBIC_B"}
    Nobody = nobody
SYMMETRY Symmetry
INVARIANT
    OneMoreElement
PROPERTIES
    SqueezeAlternates
    KeyerIsIambic
