SPECIFICATION FairSpec
CONSTANTS
    Disks <- MCDisks
    Blocks <- MCBlocks
    MaxBoots = 3
INVARIANTS
    SuccessIsTrue
    OpenAtMenu
    SectorRight
PROPERTIES
    NeverLockedOut
    BootReachesMenu
