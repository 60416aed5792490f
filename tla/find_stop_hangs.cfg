SPECIFICATION FairSpec
CONSTANTS
    Conns = {c1}
    NoConn = NoConn
    MaxStarts = 1
    MaxIo = 0
    Faults <- AllFaults
PROPERTIES
    CallsReturn
CHECK_DEADLOCK FALSE
