SPECIFICATION FairSpec
CONSTANTS
    MaxTries = 2
    MaxUser = 3
    MaxErrors = 1
INVARIANTS
    TrayStateTrue
PROPERTIES
    GoodDiscBoots
