SPECIFICATION FairSpec
CONSTANTS
    Devs = {"pic", "enc"}
    Regs = {1, 2}
    Vals = {"x", "y"}
    MainOps <- MCMainOps
    IsrOps <- MCIsrOps
    Query <- MCQuery
    Retries = 2
    MaxIsr = 2
    IsrTransfers = 2
    MaxErrors = 2
PROPERTIES
    TransfersServed
    CallsReturn
