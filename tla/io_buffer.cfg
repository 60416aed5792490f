SPECIFICATION FairSpec
CONSTANTS
    BufSiz = 3
    Lens = {1, 4}
    MaxOut = 6
    MaxIn = 5
    Outcomes <- AllOutcomes
INVARIANTS
    OutStreamIntactWhenWhole
    InStreamIntact
    WriteAllHandsOverInTime
PROPERTIES
    StopEndsWrite
CHECK_DEADLOCK FALSE
