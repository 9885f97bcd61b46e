\* Two devices, one of each layout of reports, both contacts, any number of plugs,
\* searches, connections, failures, restarts and crashes: the state is finite as it is.
SPECIFICATION FairSpec
CONSTANTS
    Devices = {d1, d2}
    InBytes = {d1}
    Short = {d2}
    None = none
INVARIANTS
    Inv
    PaddleInStep
PROPERTIES
    PaddleIsReported
    DisconnectReturns
