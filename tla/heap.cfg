SPECIFICATION Spec
CONSTANTS
    \* Eight sectors with room for runs of up to seven; sizes on both sides of every
    \* boundary of t_malloc(): one sector, four, runs of five and six, a refusal.
    NSectors = 8
    MaxBytes = 114688
    MaxDepth = 2
    Sizes = {15999, 65000, 65536, 90000, 130000}
INVARIANTS
    BlocksDisjoint
    TableAccounted
PROPERTIES
    ImplementsPool
