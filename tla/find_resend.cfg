SPECIFICATION Spec
CONSTANTS
    BufSiz = 3
    Lens = {1, 2, 5}
    MaxOut = 7
    MaxIn = 2
    Outcomes <- PartialOnly
INVARIANTS
    OutStreamIntact
CHECK_DEADLOCK FALSE
