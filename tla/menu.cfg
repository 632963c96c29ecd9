SPECIFICATION FairSpec
CONSTANTS
    Bays = 3
    Page = 2
    Config <- MCConfig
    Default <- MCDefault
    MaxKeys = 13
    Consoles <- MCConsoles
    Chips <- MCChips
    Drive <- MCDrive
    Secrets <- MCSecrets
    Files <- MCFiles
    Originals <- MCOriginals
INVARIANTS
    FlagsConfined
    CaptionsTrue
    EepromRight
    ScreenRight
PROPERTIES
    TimeoutOnlyOnce
    UnattendedBoots
