SPECIFICATION FairInput
CONSTANTS
    Junk = 4
    Bad = Bad
    None = None
    Makes <- MCMakes
    MakesOf <- MCMakesOf
    MaxPlugs = 2
    p1 = p1
    p2 = p2
    Pads = {p1, p2}
    Buttons = {"A", "B"}
    Rollover = 2
    MaxPresses = 2
    MaxSlips = 1
    MaxUrbErrors = 1
INVARIANTS
    PressTakenOnce
    DevicesServed
PROPERTY PadNoticed
CHECK_DEADLOCK FALSE
