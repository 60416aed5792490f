SPECIFICATION Spec
CONSTANTS
    Conns = {c1, c2}
    NoConn = NoConn
    MaxStarts = 1
    MaxIo = 0
    Faults <- PeerFaults
INVARIANTS
    AllClientsStopped
CHECK_DEADLOCK FALSE
