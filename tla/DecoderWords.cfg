SPECIFICATION FairSpec
CONSTANTS
    Dits = {1}
    Units = {1}
    Known <- KnownLetters
    Horizon = 11
    MaxElements = 2
    MaxCall = 1
INVARIANTS
    WordsAreFaithful
