SPECIFICATION FairSpec
CONSTANTS
    Dits = {1}
    Units = {1, 2}
    Known <- KnownLetters
    Horizon = 19
    MaxElements = 3
    MaxCall = 1
INVARIANTS
    Inv
    TextIsFaithful
    OneLateLetter
PROPERTIES
    LastLetterIsPrinted
