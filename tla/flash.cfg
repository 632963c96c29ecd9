SPECIFICATION FairSpec
CONSTANTS
    ImageLen = 4
    Page = 2
    Kilo = 1
    Retries = 4
    Image <- TheImage
    Old <- TheOld
    Chips <- AllChips
    MaxFaults = 5
    Tries = 2
INVARIANTS
    SuccessMeansImage
    OutsideUntouched
    EventsPaired
PROPERTY Reflashes
