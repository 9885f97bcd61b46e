\* initKeyer replaces the worker at any time; the threads are fair.
SPECIFICATION FairSpec
CONSTANTS
    Sources = {usb}
    Workers = {w1, w2}
    Modes = {"IAMBIC_B"}
    Nobody = nobody
INVARIANTS
    OneElementAtATime
    IInv
PROPERTIES
    Silence
    AwakeWorkerTakes
