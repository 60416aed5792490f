SPECIFICATION Spec
CONSTANTS
    Conns = {c1, c2, c3}
    NoConn = NoConn
    MaxStarts = 2
    MaxIo = 1
    Faults <- AllFaults
SYMMETRY ConnSymmetry
INVARIANTS
    FreedOnlyAfterExit
    ReapJoinsEnding
    ServerThreadGone
    QuietDrainIsComplete
PROPERTIES
    FinalStateSticks
    StopRequestSticks
CHECK_DEADLOCK FALSE
