\* One property, which the code breaks.
SPECIFICATION Spec
CONSTANTS
    Devices = {d1, d2}
    InBytes = {d1}
    Short = {}
    None = none
INVARIANTS
    ReleaseIsCalled
